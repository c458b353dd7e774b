-------------------------- MODULE Identity_proofs ---------------------------
(* Theorems about Identity, for every number of processes, starts and       *)
(* failures, and whatever the platform answers.                             *)
EXTENDS Identity, TLAPS

(* Each start has a UUID of its own to offer.                               *)
Started ==
  /\ starts \in [Procs -> 0 .. MaxStarts]
  /\ \A p \in Procs : pc[p] # "off" => starts[p] >= 1

(* The file, once someone goes by what it holds, keeps it: only the process *)
(* that created it writes it, and there is one such process; what it goes   *)
(* by in the end is what it has written.                                    *)
Written ==
  /\ file \in Values \cup {None, Empty}
  /\ first \in Values \cup {None}
  /\ first # None => file = first
  /\ \A p \in Procs : pc[p] = "write" => file = Empty
  /\ \A p \in Procs : pc[p] = "written" => file = Candidate(p)
  /\ \A p, q \in Procs : pc[p] = "write" /\ pc[q] = "write" => p = q

Typed ==
  /\ pc \in [Procs -> {"off", "platform", "read", "create", "write",
                       "written", "await", "up", "failed"}]
  /\ value \in [Procs -> Values \cup {None, Platform}]

IInv == Typed /\ Started /\ Written /\ OneFallback

LEMMA IInvInit == Init => IInv
BY BoundAssumption DEF Init, IInv, Typed, Started, Written, OneFallback

\* A process that only moves on keeps the invariant.
LEMMA MoveStep ==
  ASSUME IInv, NEW p \in Procs, NEW from, NEW to, Go(p, from, to),
         from # "off", from # "write",
         to \in {"off", "read", "create", "await", "up", "failed"},
         UNCHANGED <<file, starts, first, value>>
  PROVE  IInv'
BY DEF IInv, Typed, Started, Written, Candidate, OneFallback, Go

\* Only its own start gives a process another candidate.
LEMMA Candidates ==
  ASSUME IInv, NEW p \in Procs, pc[p] # "off" PROVE Candidate(p) \in Values
BY DEF IInv, Started, Candidate, Values

\* A process that goes by the identity of the platform or of the file.
LEMMA AdoptStep ==
  ASSUME IInv, NEW p \in Procs, NEW from, Go(p, from, "up"),
         from # "off", from # "write", UNCHANGED <<file, starts>>,
         NEW v \in Values \cup {Platform}, v \in {Platform, file}, Adopt(p, v)
  PROVE  IInv'
<1>1. Typed' /\ Started'
  BY DEF IInv, Typed, Started, Go, Adopt
<1>2. first' \in {first, v} /\ (first' # first => first = None /\ v = file)
  BY MarksAssumption DEF Adopt, IInv, Written
<1>3. Written'
  BY <1>2, MarksAssumption DEF IInv, Typed, Written, Candidate, Go, Adopt
<1>4. OneFallback'
  BY <1>2, MarksAssumption DEF IInv, Typed, Written, OneFallback, Adopt
<1> QED  BY <1>1, <1>3, <1>4 DEF IInv

LEMMA WriteStep ==
  ASSUME IInv, NEW p \in Procs, Write(p) PROVE IInv'
<1>1. file = Empty /\ first = None
  BY MarksAssumption DEF Write, Go, IInv, Written
<1>2. Candidate(p) \in Values /\ Candidate(p)' = Candidate(p)
  BY Candidates DEF Write, Go, Candidate
<1>3. /\ file' = Candidate(p) /\ pc' = [pc EXCEPT ![p] = "written"]
      /\ UNCHANGED <<starts, value, first>>
  BY DEF Write, Go
<1>4. \A q \in Procs : pc[q] # "written"
  BY <1>1, Candidates, MarksAssumption DEF IInv, Written
<1>5. \A q \in Procs \ {p} : pc'[q] \notin {"write", "written"}
  BY <1>3, <1>4 DEF Write, Go, IInv, Typed, Written
<1>6. Typed' /\ Started'
  BY <1>3 DEF IInv, Typed, Started, Write, Go
<1>7. Written'
  <2>1. \A q \in Procs : pc'[q] = "written" => file' = Candidate(q)'
    BY <1>2, <1>3, <1>5
  <2>2. \A q \in Procs : pc'[q] # "write"
    BY <1>3, <1>5 DEF IInv, Typed
  <2> QED  BY <1>1, <1>2, <1>3, <2>1, <2>2 DEF IInv, Written
<1>8. OneFallback'
  BY <1>3 DEF IInv, OneFallback
<1> QED  BY <1>6, <1>7, <1>8 DEF IInv

LEMMA IInvStep == IInv /\ [Next]_vars => IInv'
<1> SUFFICES ASSUME IInv, [Next]_vars PROVE IInv'
  OBVIOUS
<1>1. ASSUME NEW p \in Procs, Start(p) PROVE IInv'
  <2>1. Typed' /\ Written' /\ OneFallback'
    BY <1>1 DEF Start, Go, IInv, Typed, Written, Candidate, OneFallback
  <2>2. Started'
    BY <1>1, BoundAssumption DEF Start, Go, IInv, Typed, Started
  <2> QED  BY <2>1, <2>2 DEF IInv
<1>2. ASSUME NEW p \in Procs, Resolve(p) PROVE IInv'
  <2>1. CASE ReadPlatform(p)
    <3>1. Go(p, "platform", "up") /\ Adopt(p, Platform)
          /\ UNCHANGED <<file, starts>>
      BY <2>1 DEF ReadPlatform
    <3> QED  BY <3>1, AdoptStep
  <2>2. CASE NoPlatform(p)  BY <1>2, <2>2, MoveStep DEF NoPlatform
  <2>3. CASE ReadMissing(p)  BY <1>2, <2>3, MoveStep DEF ReadMissing
  <2>4. CASE ReadMalformed(p)  BY <1>2, <2>4, MoveStep DEF ReadMalformed
  <2>5. CASE ReadValue(p)  BY <1>2, <2>5, AdoptStep DEF ReadValue
  <2>6. CASE Create(p)
    <3>1. \A q \in Procs : pc[q] # "written"
      BY <2>6, Candidates, MarksAssumption DEF Create, CanCreate, IInv, Written
    <3>2. first = None
      BY <2>6, MarksAssumption DEF Create, CanCreate, IInv, Written
    <3> QED
      BY <1>2, <2>6, <3>1, <3>2, MarksAssumption
         DEF Create, CanCreate, Go, IInv, Typed, Started, Written, OneFallback
  <2>7. CASE CreateExists(p)  BY <1>2, <2>7, MoveStep DEF CreateExists
  <2>8. CASE Write(p)  BY <1>2, <2>8, WriteStep
  <2>9. CASE AwaitValue(p)  BY <1>2, <2>9, AdoptStep DEF AwaitValue
  <2>10. CASE AwaitMore(p)
    BY <1>2, <2>10, MoveStep DEF AwaitMore
  <2>11. CASE Finish(p)
    <3>1. Go(p, "written", "up") /\ file = Candidate(p)
      BY <2>11 DEF Finish, Go, IInv, Written
    <3>2. Candidate(p) \in Values
      BY <3>1, Candidates DEF Go
    <3> QED  BY <2>11, <3>1, <3>2, AdoptStep DEF Finish
  <2> QED
    BY <1>2, <2>1, <2>2, <2>3, <2>4, <2>5, <2>6, <2>7, <2>8, <2>9, <2>10, <2>11
       DEF Resolve
<1>3. ASSUME NEW p \in Procs, Fails(p) PROVE IInv'
  BY <1>3 DEF Fails, IInv, Typed, Started, Written, Candidate, OneFallback
<1>4. ASSUME NEW p \in Procs, Stop(p) PROVE IInv'
  BY <1>4 DEF Stop, IInv, Typed, Started, Written, Candidate, OneFallback
<1>5. ASSUME NEW p \in Procs, Crash(p) PROVE IInv'
  BY <1>5 DEF Crash, IInv, Typed, Started, Written, Candidate, OneFallback
<1>6. ASSUME UNCHANGED vars PROVE IInv'
  BY <1>6 DEF vars, IInv, Typed, Started, Written, Candidate, OneFallback
<1> QED
  BY <1>1, <1>2, <1>3, <1>4, <1>5, <1>6 DEF Next, Over

(* "Stable private identifier" (PRIVACY.md:10): all starts of all processes *)
(* that fall back go by one identity, whoever creates it and whoever        *)
(* crashes (identity.py:101-131).                                           *)
THEOREM FallbackIsOne == Spec => []OneFallback
<1>1. IInv => OneFallback
  BY DEF IInv
<1> QED  BY <1>1, IInvInit, IInvStep, PTL DEF Spec

-----------------------------------------------------------------------------

(* A file without content has a writer, or a failure that ended one; who    *)
(* waits for content waits for a file.                                      *)
Blamed ==
  /\ failures \in Nat
  /\ file = Empty => (\E p \in Procs : pc[p] = "write") \/ failures > 0
  /\ \A p \in Procs : pc[p] = "await" => file # None

LEMMA BlamedStep == IInv /\ Blamed /\ [Next]_vars => Blamed'
<1> SUFFICES ASSUME IInv, Blamed, [Next]_vars PROVE Blamed'
  OBVIOUS
<1> USE DEF IInv, Typed, Blamed
<1>1. ASSUME NEW p \in Procs, NEW from, NEW to, Go(p, from, to),
             from # "write", to # "write", UNCHANGED <<file, failures>>,
             to = "await" => file # None
      PROVE  Blamed'
  <2>1. \A q \in Procs : pc[q] = "write" => pc'[q] = "write"
    BY <1>1 DEF Go
  <2>2. \A q \in Procs : pc'[q] = "await" => file # None
    BY <1>1 DEF Go
  <2> QED  BY <1>1, <2>1, <2>2
<1>2. ASSUME NEW p \in Procs,
             \/ Start(p) \/ ReadPlatform(p) \/ NoPlatform(p) \/ ReadMissing(p)
             \/ ReadMalformed(p) \/ ReadValue(p) \/ CreateExists(p)
             \/ AwaitValue(p) \/ Finish(p)
      PROVE  Blamed'
  BY <1>1, <1>2, MarksAssumption DEF Start, ReadPlatform, NoPlatform,
     ReadMissing, ReadMalformed, ReadValue, CreateExists, CanCreate, AwaitValue,
     Finish
<1>3. ASSUME NEW p \in Procs, AwaitMore(p) PROVE Blamed'
  <2>1. UNCHANGED <<file, failures>> /\ file # None
    BY <1>3 DEF AwaitMore, Go
  <2>2. PICK to \in {"failed", "await"} : Go(p, "await", to)
    BY <1>3 DEF AwaitMore
  <2> QED  BY <1>1, <2>1, <2>2
<1>4. ASSUME NEW p \in Procs, Create(p) PROVE Blamed'
  BY <1>4, MarksAssumption DEF Create, Go
<1>5. ASSUME NEW p \in Procs, Write(p) PROVE Blamed'
  <2>1. Candidate(p) \in Values
    BY <1>5, Candidates DEF Write, Go
  <2>2. file' # Empty /\ file' # None /\ failures' = failures
    BY <1>5, <2>1, MarksAssumption DEF Write
  <2> QED  BY <2>2
<1>6. ASSUME NEW p \in Procs, Fails(p) \/ Crash(p) PROVE Blamed'
  <2>1. failures' = failures + 1 /\ file' = file
    BY <1>6 DEF Fails, Crash
  <2>2. \A q \in Procs : pc'[q] = "await" => pc[q] = "await"
    BY <1>6 DEF Fails, Crash
  <2> QED  BY <2>1, <2>2
<1>7. ASSUME NEW p \in Procs, Stop(p) PROVE Blamed'
  BY <1>7 DEF Stop
<1>8. CASE UNCHANGED vars
  BY <1>8 DEF vars
<1> QED
  BY <1>2, <1>3, <1>4, <1>5, <1>6, <1>7, <1>8 DEF Next, Resolve, Over

(* No start blames a concurrent creation that is not there, unless one was  *)
(* ended by a crash or a failing operation (identity.py:89-98).             *)
THEOREM GivingUpHasACause == Spec => GivesUpForCause
<1>1. Init => Blamed
  BY MarksAssumption DEF Init, Blamed
<1>2. IInv /\ Blamed /\ [Next]_vars
        => [\A p \in Procs : GivesUpInVain(p) => failures > 0]_vars
  <2> SUFFICES ASSUME IInv, Blamed, Next, NEW p \in Procs, GivesUpInVain(p)
               PROVE  failures > 0
    OBVIOUS
  <2>1. file = Empty
    <3>1. file \notin Values
      BY DEF GivesUpInVain, Next, Over, Start, Resolve, ReadPlatform,
         NoPlatform, ReadMissing, ReadMalformed, ReadValue, Create,
         CreateExists, Write, Finish, AwaitValue, AwaitMore, Fails, Stop,
         Crash, Go, vars, IInv, Typed, Blamed
    <3> QED  BY <3>1 DEF GivesUpInVain, Blamed, IInv, Written
  <2> QED  BY <2>1 DEF GivesUpInVain, Blamed
<1> QED  BY <1>1, <1>2, IInvInit, IInvStep, BlamedStep, PTL
         DEF Spec, GivesUpForCause
=============================================================================

----------------------------- MODULE Collectors -----------------------------
(* The collectors of build_collectors (collectors/__init__.py:18-40): what  *)
(* each asks the machine for, and which failures of a source its collect()  *)
(* survives with the status "partial" instead of raising.                   *)
(* A failure is a PermissionError, an AccessDenied of psutil (no OSError),  *)
(* another OSError, or an exception that no collector expects.  What a      *)
(* collector itself turns into a partial answer, as a screenshot that is    *)
(* too large, counts as a failure it survives.                              *)
(*                                                                          *)
(* A source answers or fails as a whole.  Finer than that the collectors    *)
(* drop without a word: a connection (network.py:98-110), a key of the      *)
(* registry (software.py:171) or the name of a window's program that raises *)
(* when it is looked at is left out, and the status stays what it is.       *)

Failures == {"permission", "access", "os", "other"}

OSErrors == {"permission", "os"}

\* Per collector: its sources, each with the failures collect() survives.
SystemAsks == [system |-> {}]

UsersAsks == [users |-> OSErrors]

ResourcesAsks ==
  [cpu |-> {}, memory |-> {}, partitions |-> {}, disks |-> OSErrors]

NetworkAsks == [adapters |-> {}, io |-> {}, connections |-> {"permission", "access"}]

ProcessesAsks == [processes |-> {"access"}]

\* Two stand for the sources of a platform: dpkg and rpm, the roots of the
\* registry, /Applications and brew.
SoftwareAsks == [first_inventory |-> Failures, second_inventory |-> Failures]

WindowAsks == [active_window |-> OSErrors]

ScreenshotAsks == [screenshot |-> OSErrors]

\* The file audit has a module of its own.
AuditAsks == [file_audit |-> {}]

Asks ==
  [system |-> SystemAsks, users |-> UsersAsks, resources |-> ResourcesAsks,
   network |-> NetworkAsks, processes |-> ProcessesAsks,
   software |-> SoftwareAsks, active_window |-> WindowAsks,
   file_audit |-> AuditAsks, screenshot |-> ScreenshotAsks]

\* The registry.  Its order is of no consequence; the audit, which has many
\* states of its own, comes first here.
Registry ==
  <<"file_audit", "system", "users", "resources", "network", "processes",
    "software", "active_window", "screenshot">>

Names == DOMAIN Asks

Sources(c) == DOMAIN Asks[c]

\* What becomes of a collection in which these sources fail.  The software
\* is complete with one inventory: rpm is not even asked when dpkg answers.
Outcome(c, failure) ==
  CASE \E s \in DOMAIN failure : failure[s] \notin Asks[c][s] -> "failed"
    [] c = "software" /\ DOMAIN failure # Sources(c) -> "success"
    [] OTHER -> "partial"

AllSources == UNION {Sources(c) : c \in Names}
=============================================================================

------------------------------ MODULE Settings ------------------------------
(* load_config (config.py:119-230): which environments become a            *)
(* configuration.  What is said of a value is only whether it is there,    *)
(* on, and one that its parser takes.  Definitions named Faulty are wrong  *)
(* variants of the next definition.                                        *)

Sensitive == {"active_window", "file_audit", "screenshot"}

\* What a setting switches.  Audit paths switch file_audit on.
Toggles == Sensitive \cup {"network", "software"}

Transport == {"uri", "token"}

\* Groups of values that share a parser or a check.
Checked == {"uri", "caBundle", "cmdlineMode", "logFormat", "flag", "number"}

Environments ==
  {e \in [has: SUBSET Transport, on: SUBSET Toggles, notice: BOOLEAN,
          wrong: SUBSET Checked] : "uri" \in e.wrong => "uri" \in e.has}

\* Not HTTPS, without a host, or with credentials.
BadUri(env) == "uri" \in env.wrong

\* Not a number, or out of its range.
BadNumber(env) == "number" \in env.wrong

\* Neither of the words for true nor of those for false.
BadFlag(env) == "flag" \in env.wrong

BadChoice(env) ==
  env.wrong \cap {"caBundle", "cmdlineMode", "logFormat"} # {}

FaultyNeedsNotice(env) ==
  env.on \cap {"active_window", "screenshot"} # {}

NeedsNotice(env) == env.on \cap Sensitive # {}

\* The checks raise ConfigError whatever their order.
Refused(env, requireTransport) ==
  \/ BadUri(env) \/ BadChoice(env) \/ BadFlag(env) \/ BadNumber(env)
  \/ requireTransport /\ env.has # Transport
  \/ NeedsNotice(env) /\ ~env.notice
=============================================================================

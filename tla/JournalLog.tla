----------------------------- MODULE JournalLog -----------------------------
(***************************************************************************)
(* What the coordinator's state store promises its callers: a log of       *)
(* commands.  A command is committed at most once and by one atomic step;  *)
(* a command that was acknowledged stays committed for ever; a fault may   *)
(* take back only commits whose caller was never told of success, and only *)
(* from the end of the log.                                                *)
(***************************************************************************)
EXTENDS Naturals, Sequences

CONSTANT Commands

VARIABLES
  log,           \* the committed commands, oldest first
  acknowledged   \* the commands whose commit a caller has been told of

logVars == <<log, acknowledged>>

Committed == {log[i] : i \in DOMAIN log}

LogInit == log = <<>> /\ acknowledged = {}

Commit(c) ==
  /\ c \notin Committed
  /\ log' = Append(log, c)
  /\ UNCHANGED acknowledged

Acknowledge(c) ==
  /\ c \in Committed
  /\ acknowledged' = acknowledged \cup {c}
  /\ UNCHANGED log

\* A fault forgets a tail of the log that nobody was told of.
Forget ==
  /\ \E n \in 0..Len(log) :
       /\ acknowledged \subseteq {log[i] : i \in 1..n}
       /\ log' = SubSeq(log, 1, n)
  /\ UNCHANGED acknowledged

LogNext == Forget \/ \E c \in Commands : Commit(c) \/ Acknowledge(c)

LogSpec == LogInit /\ [][LogNext]_logVars
=============================================================================

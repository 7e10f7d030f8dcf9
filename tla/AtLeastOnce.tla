---------------------------- MODULE AtLeastOnce ----------------------------
(***************************************************************************)
(* What infrastructure/_message.py promises to a service that reads        *)
(* messages with read_message() and confirms them with acknowledge(): a    *)
(* message stays outstanding until somebody has handled it to the end.  It *)
(* may be handled again.  It leaves unhandled only when it is lost to an   *)
(* event outside the read/acknowledge protocol: an administrator's         *)
(* command, trimming of the stream, or a write that no group is there to   *)
(* receive.                                                                *)
(***************************************************************************)
EXTENDS Naturals

CONSTANT MaxMessages  \* bound on the number of messages

VARIABLES
  published,    \* how many messages were written; they are 1 .. published
  outstanding,  \* the messages that some consumer will still be given
  handled,      \* the messages that were handled to the end at least once
  lost          \* the messages given up by an event outside the protocol

vars == <<published, outstanding, handled, lost>>

Init ==
  /\ published = 0
  /\ outstanding = {}
  /\ handled = {}
  /\ lost = {}

Publish ==
  /\ published < MaxMessages
  /\ published' = published + 1
  /\ \E gone \in SUBSET (outstanding \union {published'}) :
        /\ outstanding' = (outstanding \union {published'}) \ gone
        /\ lost' = lost \union gone
  /\ UNCHANGED handled

Handle(m) ==
  /\ handled' = handled \union {m}
  /\ UNCHANGED <<published, outstanding, lost>>

\* Only a message that was handled can be finished.
Finish(m) ==
  /\ m \in outstanding \intersect handled
  /\ outstanding' = outstanding \ {m}
  /\ UNCHANGED <<published, handled, lost>>

Lose ==
  /\ \E gone \in SUBSET outstanding :
        /\ outstanding' = outstanding \ gone
        /\ lost' = lost \union gone
  /\ UNCHANGED <<published, handled>>

Next ==
  \/ Publish
  \/ \E m \in 1 .. published : Handle(m) \/ Finish(m)
  \/ Lose

Spec == Init /\ [][Next]_vars
=============================================================================

---------------------------- MODULE ReliableLink ----------------------------
(***************************************************************************)
(* What one direction of the link promises to the two applications, with   *)
(* nothing of connections, identifiers or acknowledgements: messages       *)
(* 1, 2, 3, ... are written one at a time; a write returns only when its   *)
(* message is held by the other end; what is held is read in order.        *)
(* Two weaknesses of the code are part of the promise: where MayRepeat the *)
(* first message may be read again, and where MayDrop the other end may    *)
(* let go of messages it holds.                                            *)
(***************************************************************************)
EXTENDS Integers, Sequences

CONSTANTS
  MayDrop,   \* a Boolean: the other end may let go of messages it holds
  MayRepeat  \* a Boolean: the first message may be read again

VARIABLES
  written,   \* messages the writing application has asked to send
  returned,  \* of these, those whose write has returned, or is free to
  held,      \* messages that have reached the other end
  got        \* what the reading application has read

vars == <<written, returned, held, got>>

LastRead == IF got = <<>> THEN 0 ELSE got[Len(got)]

Init == written = 0 /\ returned = 0 /\ held = 0 /\ got = <<>>

Write ==
  /\ returned = written
  /\ written' = written + 1
  /\ UNCHANGED <<returned, held, got>>

Hold ==
  /\ held < written
  /\ held' = held + 1
  /\ UNCHANGED <<written, returned, got>>

Return ==
  /\ returned < held
  /\ returned' = returned + 1
  /\ UNCHANGED <<written, held, got>>

Read(n) ==
  /\ n <= held
  /\ \/ n = LastRead + 1
     \/ MayRepeat /\ n = 1 /\ LastRead = 1
     \/ MayDrop /\ n > LastRead
  /\ got' = Append(got, n)
  /\ UNCHANGED <<written, returned, held>>

Next == Write \/ Hold \/ Return \/ \E n \in 1 .. held : Read(n)

Spec == Init /\ [][Next]_vars
=============================================================================

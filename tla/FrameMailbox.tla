---------------------------- MODULE FrameMailbox ----------------------------
(***************************************************************************)
(* What the frame buffer of the peer promises the goroutines that send:    *)
(* for every stream a mailbox with room for one frame.  A new frame        *)
(* replaces one that nobody took; a frame is put at most once, so it is    *)
(* taken at most once; frames may be lost.                                 *)
(***************************************************************************)
EXTENDS Naturals, Sequences

CONSTANTS Stream, Frame, None

VARIABLES
  spent,   \* the frames of a stream that will not be put any more
  box,     \* the frame in the mailbox of a stream, or None
  taken    \* the frames taken from it, in order

mailbox == <<spent, box, taken>>

Init ==
  /\ spent = [s \in Stream |-> {}]
  /\ box   = [s \in Stream |-> None]
  /\ taken = [s \in Stream |-> << >>]

Spend(s, f) ==
  /\ f \notin spent[s]
  /\ spent' = [spent EXCEPT ![s] = @ \cup {f}]

Put(s, f) ==
  /\ Spend(s, f)
  /\ box' = [box EXCEPT ![s] = f]
  /\ UNCHANGED taken

Lose(s, f) ==
  /\ Spend(s, f)
  /\ UNCHANGED <<box, taken>>

Take(s) ==
  /\ box[s] # None
  /\ taken' = [taken EXCEPT ![s] = Append(@, box[s])]
  /\ box' = [box EXCEPT ![s] = None]
  /\ UNCHANGED spent

Next == \E s \in Stream : Take(s) \/ \E f \in Frame : Put(s, f) \/ Lose(s, f)

Spec == Init /\ [][Next]_mailbox
=============================================================================

-------------------------- MODULE AtomicDirectory --------------------------
(***************************************************************************)
(* What the producers of artifact directories promise together, whatever   *)
(* they stage, and whatever goes wrong on the way: a directory appears     *)
(* whole and in one step, it is never replaced, and what a caller is told  *)
(* about it is true.                                                       *)
(***************************************************************************)
CONSTANTS
  Producer,    \* calls that each try to publish one directory
  Directory,
  Target,      \* the directory each call was asked for
  None

VARIABLES
  content,     \* the call whose complete output each directory holds, or None
  answer       \* what the caller of each call has learnt

Answer == {"published", "failed", "unknown"}

Init ==
  /\ content = [d \in Directory |-> None]
  /\ answer = [p \in Producer |-> None]

Publish(p) ==
  /\ answer[p] = None
  /\ content[Target[p]] = None
  /\ content' = [content EXCEPT ![Target[p]] = p]
  /\ UNCHANGED answer

(* A caller that was interrupted or has died learns nothing.               *)
True(p, a) ==
  \/ a = "published" /\ content[Target[p]] = p
  \/ a = "failed" /\ content[Target[p]] # p
  \/ a = "unknown"

(* The end of one process answers all of its calls at once.                *)
Tell ==
  /\ answer' \in [Producer -> Answer \cup {None}]
  /\ \A p \in Producer : \/ answer'[p] = answer[p]
                         \/ answer[p] = None /\ True(p, answer'[p])
  /\ UNCHANGED content

Next == Tell \/ \E p \in Producer : Publish(p)

Spec == Init /\ [][Next]_<<content, answer>>
============================================================================

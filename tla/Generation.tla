----------------------------- MODULE Generation -----------------------------
(***************************************************************************)
(* What a run of a language model promises its user: the answer is said    *)
(* token by token, every token is one the model gives a chance after the   *)
(* prompt and all of the answer so far, and it stops only at the end token *)
(* or when prompt and answer fill the room asked for.                      *)
(***************************************************************************)
EXTENDS Naturals, Sequences

CONSTANTS EndToken, Likely(_)    (* context -> the tokens that may follow  *)

VARIABLES prompt, room, answer, over

generationVars == <<prompt, room, answer, over>>

Init == prompt = << >> /\ answer = << >> /\ over = FALSE /\ room = 0

Ask ==
  /\ prompt = << >>
  /\ prompt' # << >>
  /\ UNCHANGED <<answer, over>>

(* The end token may be said, and nothing after it. *)
Say ==
  /\ ~over /\ prompt # << >>
  /\ \E t \in Likely(prompt \o answer) :
       /\ answer' = Append(answer, t)
       /\ over' = (t = EndToken)
  /\ UNCHANGED <<prompt, room>>

Stop ==
  /\ ~over /\ prompt # << >>
  /\ \/ EndToken \in Likely(prompt \o answer)
     \/ Len(prompt) + Len(answer) >= room
  /\ over' = TRUE
  /\ UNCHANGED <<prompt, room, answer>>

Next == Ask \/ Say \/ Stop

Spec == Init /\ [][Next]_generationVars
=============================================================================

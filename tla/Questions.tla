------------------------------- MODULE Questions -------------------------------
(***************************************************************************)
(* What a job promises about the questions its subtasks ask the user       *)
(* (docs/scheduler.md, Response Serialization): one question at a time is  *)
(* in front of the user, every request gets one answer, and an answer "to  *)
(* all" answers every later request of the same title by itself.           *)
(***************************************************************************)
CONSTANTS Askers,      \* who may ask, each at most once
          Titles,      \* the deduplication key of a request
          Responses,
          ToAll,       \* those of them with the TO_ALL modifier
          NoResponse   \* none of them

VARIABLES open,    \* who asks the question in front of the user, and its title
          answer,  \* answer received by each asker
          standing \* the answer to all given so far, by title

vars == <<open, answer, standing>>

Init ==
  /\ open = {}
  /\ answer = [t \in Askers |-> NoResponse]
  /\ standing = [title \in Titles |-> NoResponse]

\* A question is put only when none is open and nothing stands for its title.
Ask(t, title) ==
  /\ open = {}
  /\ answer[t] = NoResponse
  /\ standing[title] = NoResponse
  /\ open' = {<<t, title>>}
  /\ UNCHANGED <<answer, standing>>

\* The user's answer; one to all stands from now on.
Reply(t, title, r) ==
  /\ open = {<<t, title>>}
  /\ standing[title] = NoResponse
  /\ open' = {}
  /\ answer' = [answer EXCEPT ![t] = r]
  /\ standing' = IF r \in ToAll THEN [standing EXCEPT ![title] = r] ELSE standing

\* A request answered without a question.
Spared(t, title) ==
  /\ <<t, title>> \notin open
  /\ answer[t] = NoResponse
  /\ standing[title] # NoResponse
  /\ answer' = [answer EXCEPT ![t] = standing[title]]
  /\ UNCHANGED <<open, standing>>

Next ==
  \E t \in Askers, title \in Titles :
    \/ Ask(t, title)
    \/ \E r \in Responses : Reply(t, title, r)
    \/ Spared(t, title)

Spec == Init /\ [][Next]_vars
================================================================================

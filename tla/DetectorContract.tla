--------------------------- MODULE DetectorContract ---------------------------
(***************************************************************************)
(* What a change detector promises to the local copy manager, without the  *)
(* watcher, the polling and the settling: a change of the file leaves a    *)
(* mark, a mark is taken away only by reading the file, and what was read  *)
(* is compared with the baseline, which the manager may move at any time.  *)
(***************************************************************************)
CONSTANTS Contents, NoContent,
          DigestErrors  \* a read may fail otherwise than by the file's absence

VARIABLES
  file,      \* content of the watched file, NoContent when there is none
  on,        \* started and not stopped
  dirty,     \* the file may differ from what was read last
  reading,   \* the file is being read
  seen,      \* what was read and is not compared yet
  baseline   \* what counts as known

contractVars == <<file, on, dirty, reading, seen, baseline>>

ContractInit ==
  /\ file \in Contents \cup {NoContent} /\ on = FALSE /\ dirty = FALSE
  /\ reading = FALSE /\ seen = NoContent /\ baseline \in Contents \cup {NoContent}

\* Somebody writes the file, or removes it; there is nothing to read then.
Change ==
  /\ file' \in Contents /\ dirty' = on
  /\ UNCHANGED <<on, reading, seen, baseline>>

Vanish ==
  /\ file' = NoContent /\ dirty' \in {FALSE, dirty, on}
  /\ UNCHANGED <<on, reading, seen, baseline>>

\* A mark without a change costs a comparison and nothing else.
Mark == on /\ dirty' = TRUE /\ UNCHANGED <<file, on, reading, seen, baseline>>

Read ==
  /\ on /\ dirty /\ ~reading /\ reading' = TRUE
  /\ UNCHANGED <<file, on, dirty, seen, baseline>>

\* The only ways to lose a mark while the detector is on: the file was read ...
Sample ==
  /\ reading /\ reading' = FALSE
  /\ seen = NoContent /\ file # NoContent
  /\ seen' = file /\ dirty' \in BOOLEAN
  /\ UNCHANGED <<file, on, baseline>>

\* ... or could not be.
Fail ==
  /\ DigestErrors /\ reading /\ reading' = FALSE
  /\ dirty' \in BOOLEAN
  /\ UNCHANGED <<file, on, seen, baseline>>

\* A file that is absent keeps its mark.
Miss ==
  /\ reading /\ reading' = FALSE /\ file = NoContent
  /\ UNCHANGED <<file, on, dirty, seen, baseline>>

\* What differs from the baseline is reported; in any case it is known now.
Report ==
  /\ seen # NoContent
  /\ baseline' = seen /\ seen' = NoContent
  /\ UNCHANGED <<file, on, dirty, reading>>

\* The manager knows of a content by itself: it was just synced or downloaded.
Rebase ==
  /\ baseline' \in Contents \cup {NoContent}
  /\ UNCHANGED <<file, on, dirty, reading, seen>>

Start ==
  /\ ~on /\ on' = TRUE /\ dirty' \in BOOLEAN
  /\ UNCHANGED <<file, reading, seen, baseline>>

Stop ==
  /\ on' = FALSE /\ dirty' = FALSE /\ reading' = FALSE /\ seen' = NoContent
  /\ UNCHANGED <<file, baseline>>

ContractNext ==
  \/ Change \/ Vanish \/ Mark \/ Read \/ Sample \/ Fail \/ Miss
  \/ Report \/ Rebase \/ Start \/ Stop

ContractSafety == ContractInit /\ [][ContractNext]_contractVars

\* Once the file is left alone, a mark is followed up by reading the file, unless
\* the detector is stopped or the file is gone; a read ends, and what was read
\* is compared.
LeftAlone == <>[][FALSE]_file

FollowUp ==
  LeftAlone =>
    /\ (on /\ dirty) ~> (~on \/ file = NoContent \/ reading)
    /\ reading ~> ~reading
    /\ (seen # NoContent) ~> (seen = NoContent)

=============================================================================

------------------------------ MODULE EditHistory ------------------------------
(***************************************************************************)
(* The undo history of the editor (nova_editor/document/_history.py) and   *)
(* the text it is about.  A batch is a run of edits that are undone and    *)
(* redone together.  It is undone by offsets and lengths, so it gives back *)
(* the text it was recorded on only when applied to the text it left; any  *)
(* other application garbles the text.  A state of the document has a      *)
(* pair <<revision, branch>>, and whether there is something to save is    *)
(* decided by comparing pairs, never texts.                                *)
(***************************************************************************)
EXTENDS Naturals, Sequences

CONSTANTS Texts,          \* the texts a document may have
          Garbled,        \* what an undo or redo on the wrong text leaves
          MaxCheckpoints  \* max_checkpoints: batches kept in the undo stack

ASSUME TextsAssumption == Garbled \notin Texts
ASSUME CheckpointsAssumption == MaxCheckpoints \in Nat \ {0}

VARIABLES hist,      \* the EditHistory object
          text,      \* the text of the document
          savedText  \* the text last saved, loaded or opened

historyVars == <<hist, text, savedText>>

Batch == [before : Nat \X Nat, after : Nat \X Nat, from : Texts, to : Texts]

\* clear(): what the document shows is the saved state.
NewHistory == [undo |-> <<>>, redo |-> <<>>, at |-> <<0, 0>>, next |-> 1,
               saved |-> <<0, 0>>, ended |-> FALSE]

Modified(h) == h.at # h.saved

Checkpoint(h) == [h EXCEPT !.ended = TRUE]

MarkSaved(h) == [h EXCEPT !.saved = h.at, !.ended = TRUE]

Top(stack) == stack[Len(stack)]

Popped(stack) == SubSeq(stack, 1, Len(stack) - 1)

\* Append to a deque with a maximum length, which drops its oldest batch.
PushUndo(stack, batch) ==
  Append(IF Len(stack) < MaxCheckpoints THEN stack ELSE Tail(stack), batch)

\* An edit after an undo leaves the branch of the states that can be redone.
BranchOfRecord(h) == IF h.redo = <<>> THEN h.at[2] ELSE h.next

NextOfRecord(h) == IF h.redo = <<>> THEN h.next ELSE h.next + 1

\* What time, size and text of an edit ask for: to join the batch, to start one, or
\* (a paste, a newline) to have one of its own.
Sizes == {"joins", "starts", "alone"}

Joins(h, size) == size = "joins" /\ h.undo # <<>> /\ ~h.ended /\ h.redo = <<>>

\* An edit that joins a batch without being added to it.
RecordKeepsTo(h, from, to, size) ==
  LET after == <<h.at[1] + 1, BranchOfRecord(h)>>
      batch == IF Joins(h, size)
                 THEN [Top(h.undo) EXCEPT !.after = after]
                 ELSE [before |-> h.at, after |-> after, from |-> from, to |-> to]
  IN  [h EXCEPT !.undo = IF Joins(h, size) THEN Append(Popped(h.undo), batch)
                                           ELSE PushUndo(h.undo, batch),
                !.redo = <<>>, !.at = after, !.next = NextOfRecord(h), !.ended = (size = "alone")]

\* record(): the edit that turned the text "from" into "to".
Record(h, from, to, size) ==
  LET after == <<h.at[1] + 1, BranchOfRecord(h)>>
      batch == IF Joins(h, size)
                 THEN [Top(h.undo) EXCEPT !.after = after, !.to = to]
                 ELSE [before |-> h.at, after |-> after, from |-> from, to |-> to]
  IN  [h EXCEPT !.undo = IF Joins(h, size) THEN Append(Popped(h.undo), batch)
                                           ELSE PushUndo(h.undo, batch),
                !.redo = <<>>, !.at = after, !.next = NextOfRecord(h), !.ended = (size = "alone")]

PopUndo(h) ==
  [h EXCEPT !.undo = Popped(h.undo), !.redo = Append(h.redo, Top(h.undo)),
            !.at = Top(h.undo).before]

PopRedo(h) ==
  [h EXCEPT !.redo = Popped(h.redo), !.undo = PushUndo(h.undo, Top(h.redo)),
            !.at = Top(h.redo).after, !.ended = TRUE]

\* _restore_undo(): the batch that PopUndo moved was refused.
RestoreUndo(h) ==
  [h EXCEPT !.redo = Popped(h.redo), !.undo = PushUndo(h.undo, Top(h.redo)),
            !.at = Top(h.redo).after]

\* _restore_redo(): the batch that PopRedo moved was refused.
RestoreRedo(h) ==
  [h EXCEPT !.undo = Popped(h.undo), !.redo = Append(h.redo, Top(h.undo)),
            !.at = Top(h.undo).before]

\* The inverse edits of a batch, and the edits of a batch again, on a text.
Reverted(t, batch) == IF t = batch.to THEN batch.from ELSE Garbled

Repeated(t, batch) == IF t = batch.from THEN batch.to ELSE Garbled

-------------------------------------------------------------------------------
HistoryInit ==
  /\ hist = NewHistory
  /\ text \in Texts
  /\ savedText = text

Edit(t, size) ==
  /\ text' = t
  /\ hist' = Record(hist, text, t, size)
  /\ UNCHANGED savedText

Undo ==
  /\ hist.undo # <<>>
  /\ text' = Reverted(text, Top(hist.undo))
  /\ hist' = PopUndo(hist)
  /\ UNCHANGED savedText

Redo ==
  /\ hist.redo # <<>>
  /\ text' = Repeated(text, Top(hist.redo))
  /\ hist' = PopRedo(hist)
  /\ UNCHANGED savedText

\* A position is not resolved: the part done is rolled back, the batch put back.
UndoRefused ==
  /\ hist.undo # <<>>
  /\ hist' = RestoreUndo(PopUndo(hist))
  /\ UNCHANGED <<text, savedText>>

RedoRefused ==
  /\ hist.redo # <<>>
  /\ hist' = RestoreRedo(PopRedo(hist))
  /\ UNCHANGED <<text, savedText>>

EndBatch ==
  /\ hist' = Checkpoint(hist)
  /\ UNCHANGED <<text, savedText>>

Saved ==
  /\ hist' = MarkSaved(hist)
  /\ savedText' = text
  /\ UNCHANGED text

LoadedKeepsSaved(t) ==
  /\ hist' = [NewHistory EXCEPT !.saved = hist.saved]
  /\ text' = t
  /\ savedText' = t

\* Another document, or the file again: its text counts as saved.
Loaded(t) ==
  /\ hist' = NewHistory
  /\ text' = t
  /\ savedText' = t

HistoryNext ==
  \/ \E t \in Texts, size \in Sizes : Edit(t, size)
  \/ Undo \/ Redo \/ UndoRefused \/ RedoRefused
  \/ EndBatch \/ Saved
  \/ \E t \in Texts : Loaded(t)

HistorySpec == HistoryInit /\ [][HistoryNext]_historyVars

-------------------------------------------------------------------------------
HistoryTypeOK ==
  /\ hist \in [undo : Seq(Batch), redo : Seq(Batch), at : Nat \X Nat,
               next : Nat, saved : Nat \X Nat, ended : BOOLEAN]
  /\ text \in Texts \cup {Garbled}
  /\ savedText \in Texts

\* Undo and redo, in whatever order and number, refused or not, with batches
\* that were extended or dropped for lack of room, never meet a text other than
\* the one their batch belongs to (EditHistory.record, _pop_undo, _pop_redo).
UndoIsExact == text # Garbled

\* What the editor calls unmodified is the text that was saved: no sequence of
\* edits, undos and redos comes back to the pair of the saved state with another
\* text, though a revision number alone would (EditHistory.modified).
UnmodifiedIsSaved == ~Modified(hist) => text = savedText
================================================================================

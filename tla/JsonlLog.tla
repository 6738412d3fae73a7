------------------------------ MODULE JsonlLog ------------------------------
(***************************************************************************)
(* An append-only JSONL ledger file (core/observability/jsonl.py) as every *)
(* civilization ledger uses it: _append_event writes one line and swallows *)
(* OSError; _replay folds _apply_replay over the lines and skips the ones  *)
(* that do not parse.                                                      *)
(*                                                                         *)
(* Replay is a left fold, so a file is represented by its replay images    *)
(* instead of by its lines:                                                *)
(*   img   the ledger value that a replay of the whole file rebuilds;      *)
(*   tail  "open" when the last line has no newline (a write stopped       *)
(*         half-way), else "closed";                                       *)
(*   base  the replay image of the newline-terminated lines only.          *)
(* Appending record r gives the image next == _apply_replay(img, r), which *)
(* the caller computes.                                                    *)
(***************************************************************************)

Files(Image) == [base : Image, img : Image, tail : {"closed", "open"}]

Blank(image) == [base |-> image, img |-> image, tail |-> "closed"]

(* append_jsonl returns.  On an open last line the new record is glued to   *)
(* the fragment: the joined line does not parse and both are skipped.      *)
Written(f, next) == Blank(IF f.tail = "open" THEN f.base ELSE next)

(* The write stops inside the record: the fragment does not parse.         *)
TornPart(f) == [base |-> f.base, img |-> f.base, tail |-> "open"]

(* The write stops between the record and its newline: the line still      *)
(* parses, until the next append is glued to it.                           *)
TornWhole(f, next) ==
    [base |-> f.base, img |-> IF f.tail = "open" THEN f.base ELSE next, tail |-> "open"]

(* What _append_event can leave behind when append_jsonl raises OSError:   *)
(* nothing was written, or part of the line was.                           *)
Damaged(f, next) == {f, TornPart(f), TornWhole(f, next)}

=============================================================================

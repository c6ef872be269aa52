----------------------------- MODULE MCDelivery -----------------------------
(***************************************************************************)
(* Runs for TLC: two archives on one or two planned tapes, each written in *)
(* up to two copies, with barcodes that differ on the tape and may not on  *)
(* the disc (case, a dot, a character outside d1, a long common prefix).   *)
(***************************************************************************)
EXTENDS Delivery

Tape(barcode, tapeIndex, copy, generation, health) ==
    [barcode |-> barcode, tapeIndex |-> tapeIndex, copy |-> copy, generation |-> generation, health |-> health]

File(stem, kind) == [stem |-> stem, ext |-> "x", kind |-> kind]

Tools == <<File(<<"t", "a", "r">>, "static"), File(<<"A", "g">>, "static"), File(<<"l">>, "dir")>>
Code  == <<File(<<"a", ".", "1">>, "plain")>>

Shifted == <<Tape(<<"A", "1">>, 1, 0, "LTO-6", "good"), Tape(<<"A", "#">>, 2, 0, "LTO-5", "poor")>>
Copied  == <<Tape(<<"A", "1">>, 2, 0, "LTO-6", "unmeasured"), Tape(<<"b">>, 2, 1, "LTO-6", "good")>>
Dotted  == <<Tape(<<"A", ".">>, 1, 0, "LTO-6", "good"), Tape(<<"a", "_">>, 2, 0, "LTO-6", "good")>>
Long    == <<Tape(<<"a", "b", "1", "x">>, 1, 0, "LTO-6", "good"), Tape(<<"a", "b", "1", "y">>, 2, 0, "LTO-6", "good")>>

Run(written, copies, escrow, webhook, dryRun, binaries, sources) ==
    [written |-> written, copies |-> copies, escrow |-> escrow, webhook |-> webhook, dryRun |-> dryRun,
     binaries |-> binaries, sources |-> sources, plan |-> <<{"photos"}, {"mail", "music"}>>]

MCRuns ==
    {Run(Shifted, c, "match", TRUE, FALSE, Tools, Code) : c \in {0, 2}}
    \cup {Run(w, 1, "match", TRUE, FALSE, Tools, Code) : w \in {Dotted, Long}}
    \cup {Run(Shifted, c, e, TRUE, FALSE, Tools, Code) : c \in {0, 1}, e \in {"empty", "other", "unparsable"}}
    \cup {Run(Copied, 1, "match", h, TRUE, Tools, Code) : h \in BOOLEAN}
    \cup {Run(Copied, 1, "match", TRUE, FALSE, b, Code) : b \in {<<File(<<"a">>, "dynamic")>>, <<>>}}
    \cup {Run(Copied, 1, "match", TRUE, FALSE, Tools, <<File(<<"a">>, "dir")>>)}
=============================================================================

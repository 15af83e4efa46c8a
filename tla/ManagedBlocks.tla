--------------------------- MODULE ManagedBlocks ----------------------------
(***************************************************************************)
(* Blocks of Avorelo text inside an instruction file the user writes       *)
(* (CLAUDE.md, AGENTS.md): the managed blocks of capabilities/             *)
(* instruction-management, and the Run Entry block of activation, which    *)
(* has an upsert of its own.                                               *)
(*                                                                         *)
(* A file is the sequence of its parts: the user's pieces of text, the     *)
(* runs of blank lines the user has left, the markers of a block, and what *)
(* stands between them.  The separators put in front of a block are left   *)
(* out.  An empty file and no file are the same; a write that the disk     *)
(* refuses changes nothing and is left out.                                *)
(***************************************************************************)
EXTENDS Naturals, Sequences, FiniteSets

Piece(t) == <<"user", t>>
Begin(b) == <<"begin", b>>
End(b) == <<"end", b>>
Block(b, body) == <<Begin(b), <<"body", body>>, End(b)>>

(* Blank lines as the user left them, as one, and as none.                 *)
Wide == <<"gap", "wide">>
Narrow == <<"gap", "narrow">>
None == <<"gap", "none">>

(* The user's text: the pieces there are, and which stands before which (a *)
(* piece that stood there twice would stand before itself).                *)
UserText(doc) ==
    LET pieces == {doc[i] : i \in {j \in DOMAIN doc : doc[j][1] = "user"}}
    IN [pieces |-> pieces,
        before |-> {w \in pieces \X pieces :
                       \E i, j \in DOMAIN doc : i < j /\ w = <<doc[i], doc[j]>>}]

Count(doc, part) == Cardinality({i \in DOMAIN doc : doc[i] = part})

(* indexOf: the first place of a part, 0 if there is none.                 *)
IndexOf(doc, part) ==
    IF part \in {doc[i] : i \in DOMAIN doc}
    THEN CHOOSE i \in DOMAIN doc : doc[i] = part /\ \A j \in 1..(i - 1) : doc[j] # part
    ELSE 0

Upto(doc, i) == SubSeq(doc, 1, i - 1)
After(doc, i) == SubSeq(doc, i + 1, Len(doc))

(* A block counts only with its markers in order.                          *)
HasBlock(doc, b) == 0 < IndexOf(doc, Begin(b)) /\ IndexOf(doc, Begin(b)) < IndexOf(doc, End(b))

UpdateManagedBlock(doc, b, body) ==
    IF HasBlock(doc, b)
    THEN Upto(doc, IndexOf(doc, Begin(b))) \o Block(b, body) \o After(doc, IndexOf(doc, End(b)))
    ELSE doc \o Block(b, body)

(* A removal narrows the blank lines in the whole file, the user's own too, *)
(* and trims those at its ends.                                            *)
AtAnEnd(doc, i) == \E side \in {1..i, i..Len(doc)} : \A j \in side : doc[j][1] = "gap"

Tidy(doc) ==
    [i \in DOMAIN doc |-> IF doc[i][1] # "gap" THEN doc[i]
                         ELSE IF AtAnEnd(doc, i) THEN None ELSE Narrow]

(* Slip: everything from the marker on is taken for the block.             *)
SlipRemoveToTheEnd(doc, b) ==
    IF HasBlock(doc, b) THEN Upto(doc, IndexOf(doc, Begin(b))) ELSE doc

RemoveManagedBlock(doc, b) ==
    IF HasBlock(doc, b)
    THEN Tidy(Upto(doc, IndexOf(doc, Begin(b))) \o After(doc, IndexOf(doc, End(b))))
    ELSE doc

(* installBlock asks only that both markers are somewhere, so what stands  *)
(* between an END and a later BEGIN is written twice.                      *)
InstallBlock(doc, b, body) ==
    IF Count(doc, Begin(b)) > 0 /\ Count(doc, End(b)) > 0
    THEN Upto(doc, IndexOf(doc, Begin(b))) \o Block(b, body) \o After(doc, IndexOf(doc, End(b)))
    ELSE doc \o Block(b, body)
=============================================================================

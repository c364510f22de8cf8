----------------------------- MODULE FlashBlock -----------------------------
(***************************************************************************)
(* The per-block state of src/simplessd/ftl/common/block.cc with one I/O   *)
(* unit per page (ioUnitInPage = 1).                                       *)
(*                                                                         *)
(* A block is a function from page indices to page states.  The code keeps *)
(* two bitmaps (valid, erased) and an LPN back-pointer per page; the three *)
(* reachable combinations are folded into one value per page:              *)
(*   Erased         erased = 1, valid = 0                                  *)
(*   Dirty          erased = 0, valid = 0  (written, then invalidated)     *)
(*   an LPN l       erased = 0, valid = 1, pLPNs[page] = l                 *)
(* The back-pointer of a non-valid page is never read by the FTL, so it is *)
(* not kept.  pNextWritePageIndex is not a separate variable: every write  *)
(* goes to the page it names and erase() zeroes it, so it always equals    *)
(* the number of non-erased pages (NextWritePageIndex below).              *)
(***************************************************************************)
EXTENDS Naturals, FiniteSets

CONSTANTS
    PagesInBlock,   \* param.pagesInBlock
    Erased,         \* page state: erased bit set
    Dirty           \* page state: neither valid nor erased

ASSUME PagesInBlock \in Nat \ {0}

PageIdx == 0 .. PagesInBlock - 1

\* A block whose every page is erased: the result of Block::erase().
ErasedBlock == [p \in PageIdx |-> Erased]

IsValidPage(blk, p) == blk[p] \notin {Erased, Dirty}

\* Block::getNextWritePageIndex(): where the next sequential write goes.
NextWritePageIndex(blk) == Cardinality({p \in PageIdx : blk[p] # Erased})

\* Block::getValidPageCount() (== getValidPageCountRaw() for one I/O unit).
ValidPageCount(blk) == Cardinality({p \in PageIdx : IsValidPage(blk, p)})

\* The victim-eligibility test of calculateVictimWeight: the block is full.
IsFull(blk) == NextWritePageIndex(blk) = PagesInBlock

\* Block::invalidate(page): clears the valid bit only, so an erased page
\* stays erased and a valid one becomes dirty.
Invalidate(blk, p) == IF blk[p] = Erased THEN blk ELSE [blk EXCEPT ![p] = Dirty]

\* The two panics of Block::write(page, lpn): "Write to non erased page"
\* and "Write to block should sequential"; "none" when the write is legal.
WriteError(blk, p) ==
    IF blk[p] # Erased THEN "Write to non erased page"
    ELSE IF p < NextWritePageIndex(blk) THEN "Write to block should sequential"
    ELSE "none"

\* Block::write(page, lpn) once WriteError is "none".
WritePage(blk, p, lpn) == [blk EXCEPT ![p] = lpn]

=============================================================================

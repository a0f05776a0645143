------------------------------- MODULE FenceRange -------------------------------
(***************************************************************************)
(* What one remote fence flushes: the range checks of sbi_rfence_ecall()   *)
(* (the legacy calls have none), and fence_local(), which walks the range  *)
(* page by page, or flushes everything where that is cheaper.  Addresses   *)
(* wrap at the register width.                                             *)
(***************************************************************************)
EXTENDS Integers

CONSTANTS PageSize,   \* PAGE_SIZE
          MaxPages,   \* RFENCE_MAX_PAGES
          MaxAddr     \* ~UL(0)

Addr == 0 .. MaxAddr
Wrap(a) == a % (MaxAddr + 1)
Page(a) == a \div PageSize

ASSUME RangeAssumption ==
  /\ PageSize \in Nat \ {0} /\ MaxPages \in Nat /\ MaxAddr \in Nat
  /\ (MaxAddr + 1) % PageSize = 0 /\ MaxPages * PageSize <= MaxAddr

VARIABLES legacy,        \* a legacy call?
          type,          \* FENCE_I or one of the address-space fences
          start, size,   \* the range S-mode names
          pc,            \* "ecall", "local", "loop", "done" or "invalid"
          off,           \* how far fence_local() is
          all,           \* fence_all() was done
          flushed        \* the pages that fence_one() was done for

vars == <<legacy, type, start, size, pc, off, all, flushed>>
request == <<legacy, type, start, size>>

Init ==
  /\ legacy \in BOOLEAN /\ type \in {"FENCE_I", "FENCE_VMA"}
  /\ start \in Addr /\ size \in Addr
  /\ pc = "ecall" /\ off = 0 /\ all = FALSE /\ flushed = {}

\* "A range that wraps around the address space is not one."
Refused == ~legacy /\ type # "FENCE_I" /\ size # MaxAddr /\ Wrap(start + size) < start

Ecall ==
  /\ pc = "ecall"
  /\ pc' = IF Refused THEN "invalid" ELSE "local"
  /\ UNCHANGED <<request, off, all, flushed>>

FlushesAll == (start = 0 /\ size = 0) \/ size = MaxAddr \/ size > MaxPages * PageSize

FenceLocal ==
  /\ pc = "local"
  /\ pc' = IF type = "FENCE_I" \/ FlushesAll THEN "done" ELSE "loop"
  /\ all' = (type # "FENCE_I" /\ FlushesAll)
  /\ UNCHANGED <<request, off, flushed>>

FenceOne ==
  /\ pc = "loop" /\ off < size
  /\ flushed' = flushed \cup {Page(Wrap(start + off))}
  /\ off' = off + PageSize
  /\ UNCHANGED <<request, pc, all>>

\* A bug to tell apart: the loop ends a page early.
LoopEndEarly ==
  /\ pc = "loop" /\ off + PageSize >= size
  /\ pc' = "done"
  /\ UNCHANGED <<request, off, all, flushed>>

LoopEnd ==
  /\ pc = "loop" /\ off >= size
  /\ pc' = "done"
  /\ UNCHANGED <<request, off, all, flushed>>

Next == Ecall \/ FenceLocal \/ FenceOne \/ LoopEnd

Spec == Init /\ [][Next]_vars
-------------------------------------------------------------------------------
(***************************************************************************)
(* A fence that is done has flushed every page of the range, as long as    *)
(* that starts at a page: fence_local()'s steps miss none, at the top of   *)
(* the address space and at RFENCE_MAX_PAGES either.  (From the middle of  *)
(* a page on, the walk may end one page early.)                            *)
(***************************************************************************)
CoversRange ==
  pc = "done" /\ type # "FENCE_I" /\ ~all /\ start % PageSize = 0 =>
    \A k \in 0 .. size - 1 : Page(Wrap(start + k)) \in flushed

(***************************************************************************)
(* "A range that wraps around the address space is not one"                *)
(* (services/sbi/rfence.c): only such a range is refused.                  *)
(***************************************************************************)
OnlyWrappingRefused == pc = "invalid" => start + size > MaxAddr + 1
================================================================================

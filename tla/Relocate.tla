------------------------------ MODULE Relocate ------------------------------
(***************************************************************************)
(* The fixups a loader applies to a placed module (iop/loader.hpp,         *)
(* relocate and applyRelocation), one REL entry a step.  An address has    *)
(* two halves; an instruction keeps one of them, the low one signed, so    *)
(* the high one carries.  A loader holds one HI16 until a LO16 comes.      *)
(*                                                                         *)
(* An entry is its word: the kind of fixup, which of the module's          *)
(* addresses the word was assembled from, which the loader does not look   *)
(* at, and a number.                                                       *)
(***************************************************************************)
EXTENDS Integers, Sequences, SequencesExt

CONSTANTS Half,      \* values in half an address (2^16)
          Bases,     \* where a module may be placed
          Targets,   \* what its addresses may be, counted from its base
          Layouts    \* its REL sections, as mkirx.py orders them

Whole == Half * Half

ASSUME RelocateAssumption ==
  /\ Half \in Nat /\ Half % 8 = 0
  /\ Bases \subseteq {b \in 0..Whole - 1 : b % 4 = 0}
  /\ Targets \subseteq 0..Whole - 1

VARIABLES base,      \* where this module was placed
          meant,     \* the module's two addresses
          sections,  \* the REL sections still to apply
          code,      \* the words, as far as they are relocated
          heldHi     \* HeldHi16: the words of it, none or one

relocateVars == <<base, meant, sections, code, heldHi>>

Signed(low) == IF low >= Half \div 2 THEN low - Half ELSE low

(* What the assembler left in a word for address a. *)
Stored(kind, a) ==
  CASE kind = "hi" -> ((a + Half \div 2) \div Half) % Half
    [] kind = "lo" -> a % Half
    [] kind = "32" -> a
    [] kind = "26" -> a \div 4

RelocateInit ==
  /\ base \in Bases
  /\ meant \in [1..2 -> Targets]
  /\ sections \in Layouts
  /\ code = [w \in UNION {ToSet(s) : s \in ToSet(sections)} |->
               Stored(w[1], meant[w[2]])]
  /\ heldHi = <<>>

Word32(w) == [code EXCEPT ![w] = (@ + base) % Whole]
Jump26(w) == [code EXCEPT ![w] = ((@ * 4 + base) \div 4) % (Whole \div 4)]

(* With nothing held a LO16 repeats an address whose HI16 has been done. *)
Low16(w) ==
  LET rebased == Signed(code[w]) + base
      address == (code[heldHi[1]] * Half + rebased) % Whole
      carry == IF address % Half >= Half \div 2 THEN 1 ELSE 0
  IN  IF heldHi = <<>>
      THEN [code EXCEPT ![w] = rebased % Half]
      ELSE [code EXCEPT ![w] = address % Half,
                        ![heldHi[1]] = (address \div Half + carry) % Half]

(* Variant of HeldAfter: a LO16 does not consume the HI16. *)
HeldAfterKeeps(w) == IF w[1] = "hi" THEN <<w>> ELSE heldHi

HeldAfter(w) ==
  CASE w[1] = "hi" -> <<w>>
    [] w[1] = "lo" -> <<>>
    [] OTHER -> heldHi

ApplyRelocation ==
  LET w == Head(Head(sections))
  IN  /\ sections # <<>> /\ Head(sections) # <<>>
      /\ code' = CASE w[1] = "32" -> Word32(w)
                   [] w[1] = "26" -> Jump26(w)
                   [] w[1] = "hi" -> code
                   [] w[1] = "lo" -> Low16(w)
      /\ heldHi' = HeldAfter(w)
      /\ sections' = <<Tail(Head(sections))>> \o Tail(sections)
      /\ UNCHANGED <<base, meant>>

NextSection ==
  /\ sections # <<>> /\ Head(sections) = <<>>
  /\ sections' = Tail(sections)
  /\ heldHi' = <<>>
  /\ UNCHANGED <<base, meant, code>>

RelocateNext == ApplyRelocation \/ NextSection

RelocateSpec == RelocateInit /\ [][RelocateNext]_relocateVars

-----------------------------------------------------------------------------
(* Properties *)

(* What a pair of instructions, or a word, amounts to. *)
Reached(hi, lo) == (code[hi] * Half + Signed(code[lo])) % Whole

(***************************************************************************)
(* Wherever the module is placed, every instruction that was assembled     *)
(* from an address reaches that address counted from the base: the carry   *)
(* between the halves is right, and a LO16 that repeats an address after   *)
(* another HI16 has gone by disturbs neither (loader.hpp:211-237).         *)
(***************************************************************************)
RelocatedRight ==
  sections = <<>> =>
    \A k \in 1..2 :
      LET there == (meant[k] + base) % Whole
          word(kind) == {w \in DOMAIN code : w[1] = kind /\ w[2] = k}
      IN  /\ \A hi \in word("hi"), lo \in word("lo") : Reached(hi, lo) = there
          /\ \A w \in word("32") : code[w] = there
          /\ \A w \in word("26") : code[w] = there \div 4
=============================================================================

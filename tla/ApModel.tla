------------------------------ MODULE ApModel ------------------------------
(***************************************************************************)
(* ApModel of ap.rs: learn reads every page of a store and votes for the   *)
(* calibration byte bv of its block, and then any page is deobfuscated,    *)
(* with the bv of its block or with a bv recovered from the page alone.    *)
(* The caller hands in the page's bytes next to its number: they are the   *)
(* store's, or were read later and are newer than the store or beyond it.  *)
(*                                                                         *)
(* The arithmetic is the code's, on bytes of BYTE values and on sectors of *)
(* a few of them.  A page also carries how it was obfuscated, which only   *)
(* Stored and the properties look at.  A page is deobfuscated sector by    *)
(* sector, and in each the loop of StepRecovery picks the step.            *)
(***************************************************************************)
EXTENDS Integers, Sequences, FiniteSets, FiniteSetsExt, StepRecovery

CONSTANTS
  BYTE,        \* values of a byte: 256
  BLOCK,       \* pages of a block: 16
  SAMPLES,     \* pages recover_bv_for_block looks at: 3
  SECTOR,      \* bytes of each sector but the last: 512
  LAST_SECTOR, \* bytes of the last, without the trailer: 496
  SECTORS,     \* sectors of a page: 8
  Store,       \* the stores: sequences of pages
  Newer        \* images [pn, raw] a caller may hold that are not the store's

Byte == 0..(BYTE - 1)

(* Mutant: the letter's case is ignored, as PageType::from_byte does. *)
MutPURE_AP_TYPES == {"@", "C", "H", "M", "c", "h", "m"}

PURE_AP_TYPES == {"@", "C", "H", "M"}

ASSUME ApAssumption ==
  /\ BYTE \in Nat \ {0} /\ STEPS = BYTE /\ BLOCK \in Nat \ {0} /\ SAMPLES \in Nat \ {0}
  /\ SECTOR \in Nat \ {0} /\ LAST_SECTOR \in Nat \ {0} /\ SECTORS \in Nat \ {0, 1}

Sector == 0..(SECTORS - 1)
SectorLen(si) == IF si + 1 = SECTORS THEN LAST_SECTOR ELSE SECTOR

(* A page: its type, how it was obfuscated, and its plaintext by sector. *)
RawPage ==
  {raw \in [type : STRING, bv : Byte, step : Byte, plain : [Sector -> Seq(Byte)]] :
     \A si \in Sector : Len(raw.plain[si]) = SectorLen(si)}

ASSUME StoreAssumption == Store \subseteq Seq(RawPage) \ {<<>>}
ASSUME NewerAssumption == Newer \subseteq [pn : Nat, raw : RawPage]

VARIABLES
  store,
  page,    \* the page learn reads next
  votes,   \* block by block, how many sectors vote for each bv
  bv_map,  \* bv of the blocks that had a vote
  bv0,     \* the fallback
  answer   \* what the call has returned, or has done so far

model == <<store, page, votes, bv_map, bv0>>
vars == <<model, answer, stepVars>>

Pages == 0..(Len(store) - 1)
PageAt(pn) == store[pn + 1]
BlockOf(pn) == pn \div BLOCK

---------------------------------------------------------------------------
(* Arithmetic of one sector.  Sequences begin at 1, sector bytes at 0.     *)

Offset(pn, si) == (pn + si - ((pn % BLOCK) \div 2) * 4) % BYTE

ApBase(pn, si, bv) == (bv + Offset(pn, si)) % BYTE

(* How the pages came to be: plaintext plus the fill of its sector.        *)
Stored(raw, pn, si) ==
  [i \in 1..SectorLen(si) |->
    (ApBase(pn, si, raw.bv) + (i - 1) * raw.step + raw.plain[si][i]) % BYTE]

DominantStep(sec) ==
  LastMax([d \in Byte |->
    Cardinality({i \in 2..Len(sec) : (sec[i] - sec[i - 1]) % BYTE = d})])

ApplyStream(sec, base, by) ==
  [i \in 1..Len(sec) |-> (sec[i] - base - (i - 1) * by) % BYTE]

Frequency(sec, value) == Cardinality({i \in 1..Len(sec) : sec[i] = value})

RecoverBase(sec, by) ==
  LastMax([b \in Byte |-> Frequency(ApplyStream(sec, 0, by), b)])

LearnedBase(sec) == RecoverBase(sec, DominantStep(sec))

(* LEARN_PURITY is 1: all bytes lie on the progression. *)
IsPure(sec) ==
  \A i \in 1..Len(sec) : ApplyStream(sec, LearnedBase(sec), DominantStep(sec))[i] = 0

Peak(plain) == Max({Frequency(plain, value) : value \in Byte})

PeaksOf(sec, base) == [s \in Step |-> Peak(ApplyStream(sec, base, s))]

---------------------------------------------------------------------------
(* ApModel::learn                                                          *)

VotingSectors(raw, pn) ==
  {si \in Sector : raw.type \in PURE_AP_TYPES /\ IsPure(Stored(raw, pn, si))}

(* Mutant: the page's place in its block is not taken back out. *)
MutVote(raw, pn, si) == (LearnedBase(Stored(raw, pn, si)) - pn - si) % BYTE

Vote(raw, pn, si) == (LearnedBase(Stored(raw, pn, si)) - Offset(pn, si)) % BYTE

VotesOf(raw, pn) ==
  [bv \in Byte |-> Cardinality({si \in VotingSectors(raw, pn) : Vote(raw, pn, si) = bv})]

Blocks == 0..BlockOf(Len(store) - 1)
NoVotes == [bv \in Byte |-> 0]

Nothing == [pn |-> 0, raw |-> PageAt(0), how |-> "none", bv |-> 0, plain |-> <<>>]

Init ==
  /\ store \in Store
  /\ page = 0
  /\ votes = [bi \in Blocks |-> NoVotes]
  /\ bv_map = <<>> /\ bv0 = 0
  /\ answer = Nothing
  /\ peak = [s \in Step |-> 1] /\ StepInit

Learn ==
  /\ page < Len(store)
  /\ votes' = [votes EXCEPT ![BlockOf(page)] =
       [bv \in Byte |-> @[bv] + VotesOf(PageAt(page), page)[bv]]]
  /\ page' = page + 1
  /\ UNCHANGED <<store, bv_map, bv0, answer, stepVars>>

Voted == {bi \in Blocks : votes[bi] # NoVotes}

(* Ties, and the fallback of a store without a vote for block 0, go the    *)
(* way the hash map happens to be iterated.                                *)
Learned ==
  /\ page = Len(store)
  /\ bv_map' \in [Voted -> Byte]
  /\ \A bi \in Voted : bv_map'[bi] \in AnyMax(votes[bi])
  /\ CASE 0 \in Voted -> bv0' = bv_map'[0]
       [] 0 \notin Voted /\ Voted # {} -> \E bi \in Voted : bv0' = bv_map'[bi]
       [] OTHER -> bv0' = 0
  /\ page' = page + 1
  /\ UNCHANGED <<store, votes, answer, stepVars>>

---------------------------------------------------------------------------
(* A call on a model that was learned, which does not change the model     *)

Ready == page > Len(store) /\ answer = Nothing

BvAt(bi) == IF bi \in DOMAIN bv_map THEN bv_map[bi] ELSE bv0

(* f[0] + ... + f[n - 1] *)
SumTo(f, n) ==
  LET sum[i \in 0..n] == IF i = 0 THEN 0 ELSE sum[i - 1] + f[i - 1] IN sum[n]

(* Mutant: all pages are scored as if they were the first of their block. *)
MutSectorScore(pn, si, bv) ==
  LET stored == Stored(PageAt(pn), pn, si)
  IN  Max({Frequency(ApplyStream(stored, Offset(BlockOf(pn) * BLOCK, si), s), bv) : s \in Byte})

SectorScore(pn, si, bv) ==
  LET stored == Stored(PageAt(pn), pn, si)
  IN  Max({Frequency(ApplyStream(stored, Offset(pn, si), s), bv) : s \in Byte})

(* score_bv_candidates leaves out the last sector. *)
Score(pn, bv) == SumTo([si \in Sector |-> SectorScore(pn, si, bv)], SECTORS - 1)

Scores(pages) ==
  [bv \in Byte |->
    SumTo([pn \in Pages |-> IF pn \in pages THEN Score(pn, bv) ELSE 0], Len(store))]

BestScore(pages) == LastMax(Scores(pages))

Sampled(bi) == {pn \in Pages : BlockOf(pn) = bi /\ pn < bi * BLOCK + SAMPLES}

(* deobfuscate_with_bv begins with the first sector, *)
BaseIn(si) == ApBase(answer.pn, si, answer.bv)

DeobfuscateWithBv(raw, pn, how, bv) ==
  /\ answer' = [pn |-> pn, raw |-> raw, how |-> how, bv |-> bv, plain |-> <<>>]
  /\ Begin(PeaksOf(Stored(raw, pn, 0), ApBase(pn, 0, bv)))
  /\ UNCHANGED model

Deobfuscating == answer.how \in {"block", "page"} /\ Len(answer.plain) < SECTORS

Recover == Deobfuscating /\ LookAt /\ UNCHANGED <<model, answer>>

(* Mutant: the base of the first sector is kept. *)
MutPlainOf(si) == ApplyStream(Stored(answer.raw, answer.pn, si), BaseIn(0), best_step)

PlainOf(si) == ApplyStream(Stored(answer.raw, answer.pn, si), BaseIn(si), best_step)

(* applies each sector's step and goes on to the next. *)
Apply ==
  /\ Deobfuscating /\ Done
  /\ LET si == Len(answer.plain)
     IN  /\ answer' = [answer EXCEPT !.plain = Append(@, PlainOf(si))]
         /\ IF si + 1 < SECTORS
              THEN Begin(PeaksOf(Stored(answer.raw, answer.pn, si + 1), BaseIn(si + 1)))
              ELSE UNCHANGED stepVars
  /\ UNCHANGED model

(* deobfuscate *)
Deobfuscate(raw, pn) ==
  /\ Ready
  /\ DeobfuscateWithBv(raw, pn, "block", BvAt(BlockOf(pn)))

(* recover_bv_for_page looks at the store's image, whatever the caller has. *)
RecoverBvForPage(pn) == IF pn \in Pages THEN BestScore({pn}) ELSE bv0

(* Mutant: the model's bv is used where the page gives none. *)
MutPageBv(raw, pn) ==
  IF VotingSectors(raw, pn) # {} THEN AnyMax(VotesOf(raw, pn)) ELSE {BvAt(BlockOf(pn))}

(* learn_bv_for_page, or recover_bv_for_page where it gives none           *)
PageBv(raw, pn) ==
  IF VotingSectors(raw, pn) # {} THEN AnyMax(VotesOf(raw, pn)) ELSE {RecoverBvForPage(pn)}

(* deobfuscate_with_store *)
DeobfuscateWithStore(raw, pn) ==
  /\ Ready
  /\ \E bv \in PageBv(raw, pn) : DeobfuscateWithBv(raw, pn, "page", bv)

(* Mutant: a block beyond the end is scored all the same. *)
MutBlockBv(bi) == BestScore(Sampled(bi))

BlockBv(bi) == IF Sampled(bi) = {} THEN bv0 ELSE BestScore(Sampled(bi))

(* recover_bv_for_block; `pn` of the answer is the block *)
RecoverBvForBlock(bi) ==
  /\ Ready
  /\ answer' = [Nothing EXCEPT !.pn = bi, !.how = "recover", !.bv = BlockBv(bi)]
  /\ UNCHANGED <<model, stepVars>>

Images == {[pn |-> pn, raw |-> PageAt(pn)] : pn \in Pages} \cup Newer

Next ==
  \/ Learn \/ Learned \/ Recover \/ Apply
  \/ \E image \in Images :
       Deobfuscate(image.raw, image.pn) \/ DeobfuscateWithStore(image.raw, image.pn)
  \/ \E bi \in 0..(BlockOf(Len(store) - 1) + 1) : RecoverBvForBlock(bi)

Spec == Init /\ [][Next]_vars

---------------------------------------------------------------------------

(* The sectors of a page that lie on an arithmetic progression, whatever    *)
(* is in them, and the pages whose plaintext is zero everywhere.            *)
OnProgression(raw, pn, si) ==
  \E base, by \in Byte : \A i \in 1..SectorLen(si) :
    Stored(raw, pn, si)[i] = (base + (i - 1) * by) % BYTE

ZeroSector(raw, si) == \A i \in 1..SectorLen(si) : raw.plain[si][i] = 0
ZeroPage(raw) == \A si \in Sector : ZeroSector(raw, si)

FillType(raw) == raw.type = "@" \/ raw.type = "C" \/ raw.type = "H" \/ raw.type = "M"

Calibrating(bi) ==
  {pn \in Pages : BlockOf(pn) = bi /\ FillType(PageAt(pn))
                  /\ \E si \in Sector : OnProgression(PageAt(pn), pn, si)}

(* learn finds the bv of a block: if the pages that can calibrate it were   *)
(* written with one bv, and their progressions are of zero plaintext, that  *)
(* bv is learned, wherever in the block they are and whatever else is there:*)
(* pages of a lowercase type do not take part.                              *)
LearnsTheBlock ==
  Ready =>
    \A bi \in Blocks : \A bv \in Byte :
      /\ Calibrating(bi) # {}
      /\ \A pn \in Calibrating(bi) :
           /\ PageAt(pn).bv = bv
           /\ \A si \in Sector :
                OnProgression(PageAt(pn), pn, si) => ZeroSector(PageAt(pn), si)
      => bi \in DOMAIN bv_map /\ bv_map[bi] = bv

(* Whichever way its bv is found, a page read with the bv it was written    *)
(* with has all its zero sectors read back as zeros.                        *)
RightBvReadsZeros ==
  answer.how \in {"block", "page"} /\ answer.bv = answer.raw.bv =>
    \A si \in 0..(Len(answer.plain) - 1) :
      ZeroSector(answer.raw, si) =>
        answer.plain[si + 1] = [i \in 1..SectorLen(si) |-> 0]

(* deobfuscate_with_store depends on no other page: a page of fill is read  *)
(* as zeros also where its block has several bv (issue #8).  A page that    *)
(* calibrates is its own evidence even when the store's image is older or   *)
(* there is none; any other is read right as far as the store's image was   *)
(* written with the same bv, and with the fallback beyond the store.        *)
StoreNeedsNoOtherPage ==
  answer.how = "page" /\ ZeroPage(answer.raw) =>
    LET inStore == answer.pn \in Pages
        same == inStore /\ PageAt(answer.pn).bv = answer.raw.bv
                /\ ZeroPage(PageAt(answer.pn))
    IN  /\ FillType(answer.raw) \/ same => answer.bv = answer.raw.bv
        /\ ~FillType(answer.raw) /\ ~inStore => answer.bv = bv0

(* recover_bv_for_block finds the bv that the sampled pages share if they   *)
(* are fill, and gives the fallback for a block beyond the end.             *)
BlockIsRecovered ==
  answer.how = "recover" =>
    /\ Sampled(answer.pn) = {} => answer.bv = bv0
    /\ \A bv \in Byte :
         /\ Sampled(answer.pn) # {}
         /\ \A pn \in Sampled(answer.pn) : ZeroPage(PageAt(pn)) /\ PageAt(pn).bv = bv
         => answer.bv = bv

(* "Fallback: the bv for block 0, or the lowest observed block." *)
FallbackIsLowestBlock ==
  Ready /\ Voted # {} => bv0 = bv_map[Min(Voted)]
=============================================================================

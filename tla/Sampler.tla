------------------------------ MODULE Sampler ------------------------------
(***************************************************************************)
(* edgexpu_cpu_sample_softmax in cpu_kernel.c, for a temperature above the *)
(* greedy limit: with a top_p strictly between 0 and 1 the tokens are      *)
(* sorted and the shortest prefix that reaches top_p is kept, otherwise    *)
(* all of them stay in the order of their ids; a random number in [0, 1)   *)
(* scaled by the mass of what is kept then picks the first token whose     *)
(* running sum reaches it.                                                 *)
(*                                                                         *)
(* Probabilities are whole weights over their total and the random number  *)
(* is one of Draws equally spaced fractions, so that every comparison is   *)
(* exact; the code rounds in double.  The softmax leaves at least one      *)
(* positive weight, which is why the branch for a sum of 0 is left out.    *)
(***************************************************************************)
EXTENDS Integers, FiniteSets, FiniteSetsExt, Sums

CONSTANTS Tokens,     \* number of tokens
          MaxWeight,  \* weights go from 0 to this
          Draws,      \* the random number is r / Draws (2^28 in the code)
          Scale,      \* top_p is a number of these parts
          TopPs       \* what a request may ask for, in parts of Scale

\* Assumed of the constants by the modules that extend this one.
SamplerAssumption ==
  /\ Tokens \in Nat \ {0} /\ MaxWeight \in Nat \ {0}
  /\ Draws \in Nat \ {0} /\ Scale \in Nat \ {0} /\ TopPs \subseteq Int

VARIABLES weight,  \* the logits after the softmax
          top_p,
          stage,   \* "softmax", "kept", "picked" or "refused"
          items,   \* the tokens in the order they are walked
          kept,    \* how many of them may be picked
          draw, out

sample_vars == <<weight, top_p, stage, items, kept, draw, out>>

Ids == 0 .. Tokens - 1

Mass(ids) ==
  Sums([i \in 1 .. Tokens |-> IF i - 1 \in ids THEN weight[i - 1] ELSE 0], Tokens)[Tokens]

\* The mass of the first i tokens of a walk, for each i (`sum`, `cursor`).
Running(order) == Sums([i \in 1 .. Tokens |-> weight[order[i]]], Tokens)

Truncates == 0 < top_p /\ top_p < Scale

\* sample_item_desc: the more likely token first, of equal ones the lower id.
Before(a, b) ==
  \/ weight[a] > weight[b]
  \/ weight[a] = weight[b] /\ a < b

SampleInit ==
  /\ weight \in {w \in [Ids -> 0 .. MaxWeight] : \E id \in Ids : w[id] > 0}
  /\ top_p \in TopPs
  /\ stage = "softmax" /\ items = <<>> /\ kept = 0
  /\ draw = 0 /\ out = 0

\* Mutant of Reaches: the prefix has to go past top_p.
ReachesAbove(order, i) == Scale * Running(order)[i] > top_p * Mass(Ids)

Reaches(order, i) == Scale * Running(order)[i] >= top_p * Mass(Ids)

Sorted(order) == \A i, j \in 1 .. Tokens : i < j => Before(order[i], order[j])

CutOff ==
  /\ stage = "softmax" /\ Truncates
  /\ \E order \in [1 .. Tokens -> Ids] :
       LET short == {i \in 1 .. Tokens : Reaches(order, i)}
       IN /\ Sorted(order)
          /\ items' = order
          /\ kept' = IF short = {} THEN Tokens ELSE Min(short)
  /\ stage' = "kept"
  /\ UNCHANGED <<weight, top_p, draw, out>>

KeepAll ==
  /\ stage = "softmax" /\ ~Truncates
  /\ items' = [i \in 1 .. Tokens |-> i - 1] /\ kept' = Tokens
  /\ stage' = "kept"
  /\ UNCHANGED <<weight, top_p, draw, out>>

\* The logits or the items cannot be allocated: the step reports a failure.
AllocationFails ==
  /\ stage = "softmax" /\ stage' = "refused"
  /\ UNCHANGED <<weight, top_p, items, kept, draw, out>>

\* The walk: the first token whose running sum reaches the random number.
PickFor(r) ==
  LET reached == {i \in 1 .. kept : Draws * Running(items)[i] >= r * Running(items)[kept]}
  IN items[IF reached = {} THEN kept ELSE Min(reached)]

Pick ==
  /\ stage = "kept"
  /\ \E r \in 0 .. Draws - 1 : draw' = r /\ out' = PickFor(r)
  /\ stage' = "picked"
  /\ UNCHANGED <<weight, top_p, items, kept>>

SampleNext == CutOff \/ KeepAll \/ AllocationFails \/ Pick

SampleSpec == SampleInit /\ [][SampleNext]_sample_vars

-----------------------------------------------------------------------------

\* What the walk of the current state may pick.
Nucleus == {items[i] : i \in 1 .. kept}

\* The tokens kept for top_p are a smallest set that reaches it, and no token
\* outside is more likely than one inside; of equally likely tokens the ones
\* with the lower ids are inside, so that the same request is cut the same way.
NucleusSmallest ==
  stage \in {"kept", "picked"} /\ Truncates =>
    /\ Scale * Mass(Nucleus) >= top_p * Mass(Ids)
    /\ \A ids \in SUBSET Ids :
         Scale * Mass(ids) >= top_p * Mass(Ids) => Cardinality(ids) >= kept
    /\ \A inside \in Nucleus, outside \in Ids \ Nucleus :
         \/ weight[inside] > weight[outside]
         \/ weight[inside] = weight[outside] /\ inside < outside

\* Over all random numbers a token comes up in proportion to its share of what
\* is kept, to within one random number; and never outside of what is kept.
ProportionalShare ==
  stage = "kept" =>
    \A id \in Ids :
      LET count == Cardinality({r \in 0 .. Draws - 1 : PickFor(r) = id})
          share == IF id \in Nucleus THEN Draws * weight[id] ELSE 0
          whole == Running(items)[kept]
      IN /\ count * whole - share \in -whole .. whole
         /\ id \notin Nucleus => count = 0

\* A token of probability 0 is picked in one case only: nothing was cut off and
\* the random number is exactly 0, which the first token always reaches.
ImpossibleOnlyAtZero ==
  stage = "picked" /\ weight[out] = 0 => ~Truncates /\ draw = 0

\* The three of them: what top_p keeps, how often each of it comes up, and that
\* what is impossible stays out.
SamplesNucleus == NucleusSmallest /\ ProportionalShare /\ ImpossibleOnlyAtZero
=============================================================================

------------------------------ MODULE Forecast ------------------------------
(***************************************************************************)
(* services/pricing.py and services/estimator.py: what one generation is   *)
(* expected to cost, what is reserved for it, and what the plan tells the  *)
(* user about the budget.  Money is integer micro-USD (utils/money.py); a  *)
(* rate is USD per million tokens in hundredths, so tokens * rate is       *)
(* hundredths of a micro-USD.                                              *)
(***************************************************************************)
EXTENDS Integers

CONSTANTS
    CharsPerToken,
    Rate,          \* [input, text, image]
    InputTokens,   \* detail -> tokens of an input image
    OutputTokens,  \* size -> tokens of the output image
    TextTokens,    \* _TEXT_OUTPUT_TOKENS
    Safety,        \* reserve_safety_factor, in hundredths
    SlotFill,      \* the flat estimate of an auxiliary call
    Padding        \* _SLOT_PADDING_CHARS

ASSUME PricingAssumption ==
    /\ CharsPerToken \in Nat \ {0}
    /\ Rate \in [{"input", "text", "image"} -> Nat]
    /\ TextTokens \in Nat
    /\ Safety \in Nat /\ Safety >= 100
    /\ SlotFill \in Nat
    /\ Padding \in Nat
    /\ {"auto", "high", "low"} \subseteq DOMAIN InputTokens
    /\ \A detail \in DOMAIN InputTokens : InputTokens[detail] \in Nat
    /\ {"1K", "4K"} \subseteq DOMAIN OutputTokens
    /\ \A size \in DOMAIN OutputTokens :
          \* an image is worth a micro-USD at least
          OutputTokens[size] \in Nat /\ OutputTokens[size] * Rate.image >= 100

CeilDiv(n, d) == (n + d - 1) \div d

\* Decimal.quantize rounds half to even.
HalfEven(n, d) ==
    LET q == n \div d
        r == n % d
    IN  CASE 2 * r < d -> q
          [] 2 * r > d -> q + 1
          [] OTHER -> q + (q % 2)

\* The frozen blocks of the preset and the padding.
NominalPromptChars(frozen) == frozen + Padding

\* One reference image, and the face crop at its own detail.
PredictGenerationCost(chars, size, detail) ==
    HalfEven((CeilDiv(chars, CharsPerToken) + InputTokens["auto"]
                + InputTokens[detail]) * Rate.input
             + TextTokens * Rate.text
             + OutputTokens[size] * Rate.image, 100)

GenerationReserve(chars, size, detail) ==
    CeilDiv(PredictGenerationCost(chars, size, detail) * Safety, 100)

\* Mutant: the enhance steps' reservations are not set aside.
SpendableBeforeEnhance(limit, enhances, reserve) == limit - SlotFill

\* What is left for 1K generations when the enhance steps are set aside.
Spendable(limit, enhances, reserve) == limit - SlotFill - enhances * reserve

Affordable(spendable, reserve, enhances) ==
    (IF spendable > 0 THEN spendable \div reserve ELSE 0) + enhances

\* estimate_cost, for a preset with this many frozen characters.
EstimateCost(limit, frozen, detail, steps, enhances) ==
    LET chars == NominalPromptChars(frozen)
        enhance == GenerationReserve(chars, "4K", detail)
        step == GenerationReserve(chars, "1K", detail)
        affordable == Affordable(Spendable(limit, enhances, enhance), step, enhances)
        generations == IF steps > 1 THEN steps ELSE 1
        intermediate == IF steps > enhances THEN steps - enhances ELSE 0
    IN  [generations |-> generations,
         affordable |-> affordable,
         minimum |-> PredictGenerationCost(chars, "1K", detail) * intermediate
                       + PredictGenerationCost(chars, "4K", detail) * enhances
                       + SlotFill,
         sufficient |-> affordable >= generations]
=============================================================================

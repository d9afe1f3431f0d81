---------------------------- MODULE MoneyContract ----------------------------
(***************************************************************************)
(* What arithmetic with currencies promises: the arithmetic of ExactCalc   *)
(* for a caller who holds an amount in a currency, with each call among    *)
(* parties, the currencies that have a part in it.  A call is answered     *)
(* only when its parties are one valid currency, and the result carries    *)
(* the currency the call is made out to; any other call is refused for its *)
(* currencies, or for an argument that is bad anyway.                      *)
(***************************************************************************)
EXTENDS ExactCalc, FiniteSets

CONSTANTS
    Codes,   \* valid currencies
    Others   \* what a value carries that is not money: no currency

VARIABLES
    currency,  \* of the caller's number
    terms      \* the parties of the pending call, and what its result carries

mvars == <<vars, currency, terms>>

NoTerms == [parties |-> {}, into |-> "none"]
Terms   == [parties : SUBSET (Codes \cup Others), into : Codes \cup Others]

Strangers == terms.parties \ Codes
OneCurrency == Strangers = {} /\ Cardinality(terms.parties) <= 1

-----------------------------------------------------------------------------
MoneyInit == Init /\ currency \in Codes \cup Others /\ terms = NoTerms

MoneyLoad == Load /\ currency' \in Codes \cup Others /\ UNCHANGED terms

MoneyRequest == Request /\ terms' \in Terms /\ UNCHANGED currency

MoneyAnswer ==
    /\ OneCurrency
    /\ Answer
    /\ currency' = IF err' = "nil" THEN terms.into ELSE currency
    /\ terms' = NoTerms

\* With three parties both errors may be due, and either will do
RefuseCurrency ==
    /\ call # NoCall
    /\ \/ Strangers # {} /\ Refuse("ErrInvalidCurrency")
       \/ Cardinality(terms.parties) > 1 /\ Refuse("ErrCurrencyMismatch")

MoneyRefuse == (RefuseArguments \/ RefuseCurrency) /\ terms' = NoTerms /\ UNCHANGED currency

MoneyNext == MoneyLoad \/ MoneyRequest \/ MoneyAnswer \/ MoneyRefuse
MoneySpec == MoneyInit /\ [][MoneyNext]_mvars
=============================================================================

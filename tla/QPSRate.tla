------------------------------ MODULE QPSRate ------------------------------
(***************************************************************************)
(* QPSController with its accounts over a period of time: what the bucket  *)
(* held when the period began, what the refiller has added to it and cut   *)
(* from it since, and how many tokens Acquire has handed out.  A period    *)
(* may begin at any time.  The accounts only observe; they let us state    *)
(* that the limiter limits in every period, although every worker that     *)
(* finds the bucket empty takes a token out of it for a moment and the     *)
(* refiller cuts what it saw a moment ago.                                 *)
(***************************************************************************)
EXTENDS QPSController

CONSTANT MaxAdded   \* bound on the units added in a period

ASSUME MaxAddedAssumption == MaxAdded \in Nat

VARIABLES
  opening,  \* what the bucket was worth when the period began
  added,    \* units added by the refiller
  dropped,  \* units cut by the refiller
  granted   \* tokens with which Acquire has returned

accounts == <<opening, added, dropped, granted>>

\* The bucket, with the tokens of failed attempts that are about to come back.
Worth == tokens + TokenScale * Cardinality(Refunding)

RateInit ==
  /\ Init
  /\ opening = TokenScale
  /\ added = 0
  /\ dropped = 0
  /\ granted = 0

Add(e) ==
  /\ added < MaxAdded
  /\ RefillAdd(e)
  /\ added' = added + (tokens' - tokens)
  /\ UNCHANGED <<opening, dropped, granted>>

Trim ==
  /\ RefillTrim
  /\ dropped' = dropped + (tokens - tokens')
  /\ UNCHANGED <<opening, added, granted>>

Take(w) ==
  /\ AcquireTake(w)
  /\ granted' = IF pc'[w] = "granted" THEN granted + 1 ELSE granted
  /\ UNCHANGED <<opening, added, dropped>>

\* A new period begins; the controller does nothing.
CloseBooks ==
  /\ opening' = Worth
  /\ added' = 0
  /\ dropped' = 0
  /\ granted' = 0
  /\ UNCHANGED vars

\* The other steps leave the accounts alone.
Other ==
  \/ \E w \in Worker : \/ AcquireCall(w)
                       \/ AcquireRefund(w)
                       \/ AcquireLock(w)
                       \/ AcquireCheck(w)
                       \/ AcquireWait(w)
                       \/ AcquireReturn(w)
                       \/ WorkerExit(w)
  \/ RefillBroadcast
  \/ Stop
  \/ \E t \in Targets : SetQPS(t)

RateNext ==
  \/ \E e \in Elapsed : Add(e)
  \/ Trim
  \/ \E w \in Worker : Take(w)
  \/ Other /\ UNCHANGED accounts
  \/ CloseBooks

RateSpec == RateInit /\ [][RateNext]_<<vars, accounts>>

\* The fairness of FairSpec; a refiller that has reached the bound of a period
\* begins a new one.
RefillerRuns ==
  \/ \E e \in Elapsed : Add(e)
  \/ Trim
  \/ RefillBroadcast /\ UNCHANGED accounts
  \/ added >= MaxAdded /\ CloseBooks

WorkerRuns(w) ==
  \/ Take(w)
  \/ AcquireStep(w) /\ pc[w] # "take" /\ UNCHANGED accounts

FairRateSpec ==
  /\ RateSpec
  /\ WF_<<vars, accounts>>(RefillerRuns)
  /\ \A w \in Worker :
       /\ WF_<<vars, accounts>>(WorkerRuns(w))
       /\ SF_<<vars, accounts>>(AcquireLock(w) /\ UNCHANGED accounts)
-----------------------------------------------------------------------------
\* Conservation of tokens: what the bucket is worth is what it was worth when
\* the period began, and what was put in, less what was cut and what was handed
\* out.  No interleaving of Add, trim, take and refund loses or invents a token.
Conservation == Worth = opening + added - dropped - TokenScale * granted

\* The limiter limits in every period, however it is chosen: Acquire returns
\* with no more tokens than there were and than the refiller has added for the
\* time that has passed.
RateBound == granted > 0 => TokenScale * granted <= opening + added

\* Together with their types they are inductive.
RateInv ==
  /\ TypeOK
  /\ opening \in Int
  /\ added \in Nat
  /\ dropped \in Nat
  /\ granted \in Nat
  /\ Conservation
  /\ RateBound
=============================================================================

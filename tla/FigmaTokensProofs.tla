------------------------- MODULE FigmaTokensProofs -------------------------
(***************************************************************************)
(* Proofs about FigmaTokens, for any imports, requests and times.          *)
(***************************************************************************)
EXTENDS FigmaTokens, TLAPS

USE TokensAssumption, NamesAssumption

(* Who writes what. *)

LEMMA LinkedRowIsRow ==
  ASSUME TokensInv, NEW l \in Links, CommitLink(l)
  PROVE  /\ LinkedRow(l) \in Rows
         /\ LinkedRow(l).refresh = l
         /\ LinkedRow(l).access.grant = l
         /\ LinkedRow(l).expires_at <= LinkedRow(l).access.expires + Delay
  BY DEF TokensInv, TypeOK, LinkTxns, InHand, CommitLink, LinkedRow, Rows, Tokens

LEMMA RefreshedRowIsRow ==
  ASSUME TokensInv, NEW i \in Imports, CommitImport(i), lock = i
  PROVE  /\ RefreshedRow(i) \in Rows
         /\ RefreshedRow(i).refresh = row.refresh
         /\ RefreshedRow(i).access = import[i].token
         /\ RefreshedRow(i).expires_at <= RefreshedRow(i).access.expires + Delay
<1>1. row \in Rows /\ import[i].token \in Tokens /\ import[i] \in ImportTxns
  BY DEF TokensInv, TypeOK, InHand, CommitImport, LockHasHolder
<1>2. import[i].decided \in Nat
  BY <1>1 DEF ImportTxns
<1>3. RefreshedRow(i) \in Rows
  <2>1. \A t \in Tokens, e \in Nat : [row EXCEPT !.access = t, !.expires_at = e] \in Rows
    BY <1>1 DEF Rows
  <2>2. import[i].decided + Lifetime \in Nat
    BY <1>2
  <2> QED
    BY <1>1, <2>1, <2>2 DEF RefreshedRow
<1>4. /\ RefreshedRow(i).refresh = row.refresh
      /\ RefreshedRow(i).access = import[i].token
      /\ RefreshedRow(i).expires_at = import[i].decided + Lifetime
  BY <1>1 DEF RefreshedRow, Rows
<1>5. import[i].decided + Lifetime <= import[i].token.expires + Delay
  BY DEF TokensInv, InHand
<1> QED
  BY <1>3, <1>4, <1>5

(* A step of one transaction leaves the others as they are. *)

LEMMA LinkTyped ==
  ASSUME TokensInv, NEW l \in Links, LinkStep(l)
  PROVE  link' \in [Links -> LinkTxns] /\ \A k \in Links \ {l} : link'[k] = link[k]
<1>1. link[l] \in LinkTxns /\ now \in Nat /\ link \in [Links -> LinkTxns]
  BY DEF TokensInv, TypeOK
<1>2. [grant |-> l, expires |-> now + Lifetime] \in Tokens
  BY <1>1 DEF Tokens
<1>3. CASE ExchangeCode(l)
  <2>1. [link[l] EXCEPT !.at = "asked", !.since = now,
                        !.token = [grant |-> l, expires |-> now + Lifetime]] \in LinkTxns
    BY <1>1, <1>2 DEF LinkTxns, LinkStages
  <2> QED
    BY <1>1, <1>3, <2>1 DEF ExchangeCode
<1>4. CASE FindConnection(l)
  <2>1. \A a \in LinkStages, e \in Nat : [link[l] EXCEPT !.at = a, !.expires_at = e] \in LinkTxns
    BY <1>1 DEF LinkTxns
  <2>2. (IF row = None THEN "insert" ELSE "update") \in LinkStages /\ now + Lifetime \in Nat
    BY <1>1 DEF LinkStages
  <2>3. [link[l] EXCEPT !.at = IF row = None THEN "insert" ELSE "update",
                        !.expires_at = now + Lifetime] \in LinkTxns
    BY <2>1, <2>2
  <2> QED
    BY <1>1, <1>4, <2>3 DEF FindConnection
<1>5. CASE SaveTokens(l) \/ CommitLink(l) \/ LinkFails(l)
  BY <1>1, <1>5 DEF SaveTokens, CommitLink, LinkFails, LinkTxns, LinkStages
<1> QED
  BY <1>3, <1>4, <1>5 DEF LinkStep

LEMMA ImportTyped ==
  ASSUME TokensInv, NEW i \in Imports, ImportStep(i)
  PROVE  import' \in [Imports -> ImportTxns] /\ \A k \in Imports \ {i} : import'[k] = import[k]
<1>1. import[i] \in ImportTxns /\ now \in Nat /\ import \in [Imports -> ImportTxns]
  BY DEF TokensInv, TypeOK
<1>2. CASE GetConnection(i)
  <2>1. row \in Rows /\ row.access \in Tokens
    BY <1>2 DEF GetConnection, TokensInv, TypeOK, Rows
  <2> QED
    BY <1>1, <1>2, <2>1 DEF GetConnection, ImportTxns, ImportStages
<1>3. CASE AskFigma(i)
  <2>1. [grant |-> import[i].conn.refresh, expires |-> now + Lifetime] \in Tokens
    BY <1>1, <1>3 DEF AskFigma, TokensInv, InHand, Rows, Tokens
  <2>2. \A t \in Tokens : [import[i] EXCEPT !.at = "asked", !.since = now, !.token = t] \in ImportTxns
    BY <1>1 DEF ImportTxns, ImportStages
  <2> QED
    BY <1>1, <1>3, <2>1, <2>2 DEF AskFigma
<1>4. CASE FigmaAnswers(i) \/ WriteRefreshed(i) \/ CommitImport(i)
  BY <1>1, <1>4 DEF FigmaAnswers, WriteRefreshed, CommitImport, ImportTxns, ImportStages
<1>5. CASE ImportFails(i)
  <2>1. import[i].tries + 1 \in Nat
    BY <1>1 DEF ImportTxns
  <2>2. \A n \in Nat, a \in ImportStages : [NoImport EXCEPT !.tries = n, !.at = a] \in ImportTxns
    BY DEF NoImport, ImportTxns, ImportStages
  <2>3. (IF import[i].tries + 1 < MaxTries THEN "pending" ELSE "failed") \in ImportStages
    BY DEF ImportStages
  <2> QED
    BY <1>1, <1>5, <2>1, <2>2, <2>3 DEF ImportFails
<1> QED
  BY <1>2, <1>3, <1>4, <1>5 DEF ImportStep

LEMMA TypesPreserved ==
  ASSUME TokensInv, [Next]_vars
  PROVE  TypeOK'
<1> USE DEF TokensInv
<1>1. CASE Tick
  BY <1>1 DEF Tick, TypeOK
<1>2. ASSUME NEW l \in Links, LinkStep(l)
      PROVE  TypeOK'
  <2>1. row' \in Rows \cup {None}
    BY <1>2, LinkedRowIsRow DEF LinkStep, ExchangeCode, FindConnection, SaveTokens, CommitLink,
       LinkFails, TypeOK
  <2> QED
    BY <1>2, <2>1, LinkTyped DEF LinkStep, ExchangeCode, FindConnection, SaveTokens, CommitLink,
       LinkFails, TypeOK
<1>3. ASSUME NEW i \in Imports, ImportStep(i)
      PROVE  TypeOK'
  <2>1. row' \in Rows \cup {None}
    BY <1>3, RefreshedRowIsRow DEF ImportStep, GetConnection, AskFigma, FigmaAnswers,
       WriteRefreshed, CommitImport, ImportFails, TypeOK
  <2> QED
    BY <1>3, <2>1, ImportTyped DEF ImportStep, GetConnection, AskFigma, FigmaAnswers,
       WriteRefreshed, CommitImport, ImportFails, TypeOK
<1>4. CASE UNCHANGED vars
  BY <1>4 DEF vars, TypeOK
<1> QED
  BY <1>1, <1>2, <1>3, <1>4 DEF Next

(* The invariant. *)

LEMMA InvariantPreserved ==
  ASSUME TokensInv, [Next]_vars
  PROVE  TokensInv'
<1>1. TypeOK'
  BY TypesPreserved
<1> USE DEF TokensInv, TypeOK, ImportTxns, LinkTxns
<1>2. ASSUME Tick PROVE TokensInv'
  <2>1. InHand'
    BY <1>1, <1>2 DEF Tick, InHand, LockHasHolder, Tokens, Rows
  <2>2. LockHasHolder' /\ ExpiryIsClose' /\ OneAccount' /\ LinkIsKept'
        /\ OldAccountOnlyByOverlap' /\ TokenLasts'
    BY <1>2 DEF Tick, LockHasHolder, ExpiryIsClose, OneAccount, LinkIsKept,
       OldAccountOnlyByOverlap, TokenLasts, Refreshing
  <2> QED
    BY <1>1, <2>1, <2>2
<1>3. ASSUME NEW l \in Links, ExchangeCode(l)
      PROVE  TokensInv'
  <2>1. LockHasHolder'
    BY <1>1, <1>3 DEF ExchangeCode, LockHasHolder
  <2>2. InHand'
    BY <1>1, <1>3 DEF ExchangeCode, InHand, LockHasHolder, Tokens, Rows
  <2>3. ExpiryIsClose' /\ OneAccount' /\ LinkIsKept' /\ OldAccountOnlyByOverlap' /\ TokenLasts'
    BY <1>3 DEF ExchangeCode, ExpiryIsClose, OneAccount, LinkIsKept, OldAccountOnlyByOverlap,
       TokenLasts, Refreshing
  <2> QED
    BY <1>1, <2>1, <2>2, <2>3
<1>4. ASSUME NEW l \in Links, FindConnection(l)
      PROVE  TokensInv'
  <2>1. LockHasHolder'
    BY <1>1, <1>4 DEF FindConnection, LockHasHolder
  <2>2. InHand'
    BY <1>1, <1>4 DEF FindConnection, InHand, LockHasHolder, Tokens, Rows
  <2>3. ExpiryIsClose' /\ OneAccount' /\ LinkIsKept' /\ OldAccountOnlyByOverlap' /\ TokenLasts'
    BY <1>4 DEF FindConnection, ExpiryIsClose, OneAccount, LinkIsKept, OldAccountOnlyByOverlap,
       TokenLasts, Refreshing
  <2> QED
    BY <1>1, <2>1, <2>2, <2>3
<1>5. ASSUME NEW l \in Links, SaveTokens(l)
      PROVE  TokensInv'
  <2>1. LockHasHolder'
    BY <1>1, <1>5 DEF SaveTokens, LockHasHolder
  <2>2. InHand'
    BY <1>1, <1>5 DEF SaveTokens, InHand, LockHasHolder, Tokens, Rows
  <2>3. OneAccount'
    BY <1>1, <1>5 DEF SaveTokens, OneAccount, Refreshing, LockHasHolder, InHand
  <2>4. ExpiryIsClose' /\ LinkIsKept' /\ OldAccountOnlyByOverlap' /\ TokenLasts'
    BY <1>5 DEF SaveTokens, ExpiryIsClose, LinkIsKept, OldAccountOnlyByOverlap, TokenLasts
  <2> QED
    BY <1>1, <2>1, <2>2, <2>3, <2>4
<1>6. ASSUME NEW l \in Links, CommitLink(l)
      PROVE  TokensInv'
  <2>1. /\ row' = LinkedRow(l) /\ LinkedRow(l) \in Rows
        /\ LinkedRow(l).refresh = l /\ LinkedRow(l).access.grant = l
        /\ LinkedRow(l).expires_at <= LinkedRow(l).access.expires + Delay
    BY <1>6, LinkedRowIsRow DEF CommitLink
  <2>2. LockHasHolder'
    BY <1>1, <1>6, <2>1 DEF CommitLink, LockHasHolder
  <2>3. InHand'
    BY <1>1, <1>6, <2>1 DEF CommitLink, InHand, LockHasHolder, Tokens, Rows
  <2>4. ExpiryIsClose'
    BY <1>1, <1>6, <2>1 DEF CommitLink, ExpiryIsClose
  <2>5. OneAccount'
    BY <1>1, <1>6, <2>1 DEF CommitLink, OneAccount, Refreshing, LockHasHolder, InHand
  <2>6. LinkIsKept'
    BY <1>1, <1>6, <2>1 DEF CommitLink, LinkIsKept, LockHasHolder
  <2>7. OldAccountOnlyByOverlap'
    BY <1>1, <1>6, <2>1 DEF CommitLink, OldAccountOnlyByOverlap, OneAccount, InHand
  <2>8. TokenLasts'
    BY <1>6 DEF CommitLink, TokenLasts
  <2> QED
    BY <1>1, <2>2, <2>3, <2>4, <2>5, <2>6, <2>7, <2>8
<1>7. ASSUME NEW l \in Links, LinkFails(l)
      PROVE  TokensInv'
  <2>1. LockHasHolder'
    BY <1>1, <1>7 DEF LinkFails, LockHasHolder
  <2>2. InHand'
    BY <1>1, <1>7 DEF LinkFails, InHand, LockHasHolder, Tokens, Rows
  <2>3. OneAccount'
    BY <1>1, <1>7 DEF LinkFails, OneAccount, Refreshing, LockHasHolder, InHand
  <2>4. ExpiryIsClose' /\ LinkIsKept' /\ OldAccountOnlyByOverlap' /\ TokenLasts'
    BY <1>7 DEF LinkFails, ExpiryIsClose, LinkIsKept, OldAccountOnlyByOverlap, TokenLasts
  <2> QED
    BY <1>1, <2>1, <2>2, <2>3, <2>4
<1>8. ASSUME NEW i \in Imports, GetConnection(i)
      PROVE  TokensInv'
  <2>1. LockHasHolder'
    BY <1>1, <1>8 DEF GetConnection, Expiring, LockHasHolder
  <2>2. InHand'
    BY <1>1, <1>8 DEF GetConnection, Expiring, InHand, LockHasHolder, Tokens, Rows
  <2>3. OneAccount'
    BY <1>1, <1>8 DEF GetConnection, Expiring, OneAccount, Refreshing, LockHasHolder, InHand
  <2>4. OldAccountOnlyByOverlap'
    BY <1>1, <1>8 DEF GetConnection, Expiring, OldAccountOnlyByOverlap, OneAccount, InHand
  <2>5. TokenLasts'
    BY <1>1, <1>8 DEF GetConnection, Expiring, TokenLasts, ExpiryIsClose, InHand, Tokens, Rows
  <2>6. ExpiryIsClose' /\ LinkIsKept'
    BY <1>8 DEF GetConnection, Expiring, ExpiryIsClose, LinkIsKept
  <2> QED
    BY <1>1, <2>1, <2>2, <2>3, <2>4, <2>5, <2>6
<1>9. ASSUME NEW i \in Imports, AskFigma(i)
      PROVE  TokensInv'
  <2>1. LockHasHolder'
    BY <1>1, <1>9 DEF AskFigma, LockHasHolder
  <2>2. InHand'
    BY <1>1, <1>9, SMTT(30) DEF AskFigma, InHand, LockHasHolder, Tokens, Rows
  <2>3. OneAccount'
    BY <1>1, <1>9 DEF AskFigma, OneAccount, Refreshing, LockHasHolder, InHand
  <2>4. OldAccountOnlyByOverlap'
    BY <1>1, <1>9 DEF AskFigma, OldAccountOnlyByOverlap, OneAccount, InHand
  <2>5. TokenLasts'
    BY <1>1, <1>9 DEF AskFigma, TokenLasts, ExpiryIsClose, InHand, Tokens, Rows
  <2>6. ExpiryIsClose' /\ LinkIsKept'
    BY <1>9 DEF AskFigma, ExpiryIsClose, LinkIsKept
  <2> QED
    BY <1>1, <2>1, <2>2, <2>3, <2>4, <2>5, <2>6
<1>10. ASSUME NEW i \in Imports, FigmaAnswers(i)
       PROVE  TokensInv'
  <2>1. LockHasHolder'
    BY <1>1, <1>10 DEF FigmaAnswers, LockHasHolder
  <2>2. InHand'
    BY <1>1, <1>10 DEF FigmaAnswers, InHand, LockHasHolder, Tokens, Rows
  <2>3. OneAccount'
    BY <1>1, <1>10 DEF FigmaAnswers, OneAccount, Refreshing, LockHasHolder, InHand
  <2>4. OldAccountOnlyByOverlap'
    BY <1>1, <1>10 DEF FigmaAnswers, OldAccountOnlyByOverlap, OneAccount, InHand
  <2>5. TokenLasts'
    BY <1>1, <1>10 DEF FigmaAnswers, TokenLasts, ExpiryIsClose, InHand, Tokens, Rows
  <2>6. ExpiryIsClose' /\ LinkIsKept'
    BY <1>10 DEF FigmaAnswers, ExpiryIsClose, LinkIsKept
  <2> QED
    BY <1>1, <2>1, <2>2, <2>3, <2>4, <2>5, <2>6
<1>11. ASSUME NEW i \in Imports, WriteRefreshed(i)
       PROVE  TokensInv'
  <2>1. LockHasHolder'
    BY <1>1, <1>11 DEF WriteRefreshed, InHand, LockHasHolder
  <2>2. InHand'
    BY <1>1, <1>11 DEF WriteRefreshed, InHand, InHand, LockHasHolder, Tokens, Rows
  <2>3. OneAccount'
    BY <1>1, <1>11 DEF WriteRefreshed, InHand, OneAccount, Refreshing, LockHasHolder, InHand
  <2>4. OldAccountOnlyByOverlap'
    BY <1>1, <1>11 DEF WriteRefreshed, InHand, OldAccountOnlyByOverlap, OneAccount, InHand
  <2>5. TokenLasts'
    BY <1>1, <1>11 DEF WriteRefreshed, InHand, TokenLasts, ExpiryIsClose, InHand, Tokens, Rows
  <2>6. ExpiryIsClose' /\ LinkIsKept'
    BY <1>11 DEF WriteRefreshed, InHand, ExpiryIsClose, LinkIsKept
  <2> QED
    BY <1>1, <2>1, <2>2, <2>3, <2>4, <2>5, <2>6
<1>12. ASSUME NEW i \in Imports, CommitImport(i)
       PROVE  TokensInv'
  <2>1. lock = i => /\ row' = RefreshedRow(i) /\ RefreshedRow(i) \in Rows
                    /\ RefreshedRow(i).refresh = row.refresh
                    /\ RefreshedRow(i).access = import[i].token
                    /\ RefreshedRow(i).expires_at <= RefreshedRow(i).access.expires + Delay
    BY <1>12, RefreshedRowIsRow DEF CommitImport
  <2>2. lock # i => row' = row
    BY <1>12 DEF CommitImport
  <2>3. LockHasHolder'
    BY <1>1, <1>12, <2>1, <2>2 DEF CommitImport, LockHasHolder
  <2>4. InHand'
    BY <1>1, <1>12, <2>1, <2>2 DEF CommitImport, InHand, LockHasHolder, Tokens, Rows
  <2>5. ExpiryIsClose'
    BY <1>1, <1>12, <2>1, <2>2 DEF CommitImport, ExpiryIsClose
  <2>6. OneAccount'
    BY <1>1, <1>12, <2>1, <2>2 DEF CommitImport, OneAccount, Refreshing, LockHasHolder, InHand
  <2>7. LinkIsKept'
    BY <1>1, <1>12, <2>1, <2>2 DEF CommitImport, LinkIsKept, LockHasHolder
  <2>8. OldAccountOnlyByOverlap'
    BY <1>1, <1>12, <2>1, <2>2 DEF CommitImport, OldAccountOnlyByOverlap, OneAccount, InHand
  <2>9. TokenLasts'
    BY <1>1, <1>12, <2>1, <2>2 DEF CommitImport, TokenLasts, ExpiryIsClose, InHand, Tokens, Rows
  <2> QED
    BY <1>1, <2>3, <2>4, <2>5, <2>6, <2>7, <2>8, <2>9
<1>13. ASSUME NEW i \in Imports, ImportFails(i)
       PROVE  TokensInv'
  <2>1. LockHasHolder'
    BY <1>1, <1>13 DEF ImportFails, NoImport, LockHasHolder
  <2>2. InHand'
    BY <1>1, <1>13 DEF ImportFails, NoImport, InHand, LockHasHolder, Tokens, Rows
  <2>3. OneAccount'
    BY <1>1, <1>13 DEF ImportFails, NoImport, OneAccount, Refreshing, LockHasHolder, InHand
  <2>4. OldAccountOnlyByOverlap'
    BY <1>1, <1>13 DEF ImportFails, NoImport, OldAccountOnlyByOverlap, OneAccount, InHand
  <2>5. TokenLasts'
    BY <1>1, <1>13 DEF ImportFails, NoImport, TokenLasts, ExpiryIsClose, InHand, Tokens, Rows
  <2>6. ExpiryIsClose' /\ LinkIsKept'
    BY <1>13 DEF ImportFails, NoImport, ExpiryIsClose, LinkIsKept
  <2> QED
    BY <1>1, <2>1, <2>2, <2>3, <2>4, <2>5, <2>6
<1>14. CASE UNCHANGED vars
  BY <1>14 DEF vars, LockHasHolder, InHand, ExpiryIsClose, OneAccount, LinkIsKept,
     OldAccountOnlyByOverlap, TokenLasts, Refreshing, Tokens, Rows
<1> HIDE DEF TokensInv, TypeOK, ImportTxns, LinkTxns
<1> QED
  BY <1>2, <1>3, <1>4, <1>5, <1>6, <1>7, <1>8, <1>9, <1>10, <1>11, <1>12, <1>13, <1>14 DEF Next,
     LinkStep, ImportStep

LEMMA InvariantInit == Init => TokensInv
<1> SUFFICES ASSUME Init PROVE TokensInv
  OBVIOUS
<1>1. NoImport \in ImportTxns /\ NoLink \in LinkTxns
  BY DEF NoImport, NoLink, ImportTxns, LinkTxns, ImportStages, LinkStages
<1>2. TypeOK
  BY <1>1 DEF Init, TypeOK
<1>3. /\ \A i \in Imports : import[i].at = "pending"
      /\ \A l \in Links : link[l].at = "new"
      /\ row = None /\ lock = None /\ linked = None
  BY DEF Init, NoImport, NoLink
<1>4. LockHasHolder /\ InHand
  BY <1>3 DEF LockHasHolder, InHand
<1>5. ExpiryIsClose /\ OneAccount /\ LinkIsKept /\ OldAccountOnlyByOverlap /\ TokenLasts
  BY <1>3 DEF ExpiryIsClose, OneAccount, Refreshing, LinkIsKept, OldAccountOnlyByOverlap,
     TokenLasts
<1> QED
  BY <1>2, <1>4, <1>5 DEF TokensInv

(***************************************************************************)
(* The inductive invariant: the row, its lock and what every transaction   *)
(* has in hand agree (figma_oauth_service.py:99-169, usecases/auth.py:     *)
(* 30-42), for any number of imports and links, any lifetime, buffer and   *)
(* delay.                                                                  *)
(***************************************************************************)
THEOREM TokensInvariant == Spec => []TokensInv
<1>1. TokensInv /\ [Next]_vars => TokensInv'
  BY InvariantPreserved
<1> QED
  BY <1>1, InvariantInit, PTL DEF Spec

\* No refresh undoes a link (figma_oauth_service.py:115-117).
THEOREM LinkIsAlwaysKept == Spec => []LinkIsKept
<1>1. TokensInv => LinkIsKept
  BY DEF TokensInv
<1> QED
  BY <1>1, TokensInvariant, PTL

\* The old account is used only after a link in the middle of a refresh
\* (figma_oauth_service.py:103-119).
THEOREM OldAccountOnlyEverByOverlap == Spec => []OldAccountOnlyByOverlap
<1>1. TokensInv => OldAccountOnlyByOverlap
  BY DEF TokensInv
<1> QED
  BY <1>1, TokensInvariant, PTL

\* An import's token lasts for the buffer, less the delay of the answer it came with
\* (figma_oauth_service.py:26-28, 136-138).
THEOREM TokenAlwaysLasts == Spec => []TokenLasts
<1>1. TokensInv => TokenLasts
  BY DEF TokensInv
<1> QED
  BY <1>1, TokensInvariant, PTL
=============================================================================

----------------------------- MODULE FigmaTokens -----------------------------
(***************************************************************************)
(* The Figma connection of one user (services/figma_oauth_service.py,      *)
(* usecases/auth.py): requests of the OAuth callback that link the         *)
(* account, and again, and import jobs that read the access token and      *)
(* refresh it when it is about to expire.                                  *)
(*                                                                         *)
(* A link and what Figma grants it have one name.  A refreshed access      *)
(* token is of the grant of the refresh token it was got for.  Each import *)
(* and each request is one READ COMMITTED transaction; the import keeps    *)
(* the row it has refreshed locked until its very end.  Only the columns   *)
(* that were assigned are written.                                         *)
(***************************************************************************)
EXTENDS Integers

CONSTANTS
    Imports, Links,
    Lifetime,  \* expires_in
    Buffer,    \* TOKEN_REFRESH_BUFFER
    Delay,     \* httpx's timeout: how long Figma's answer may be on its way
    MaxTime,   \* bound: how far the clock goes
    MaxTries,  \* MAX_ATTEMPTS
    None

ASSUME TokensAssumption ==
    /\ Lifetime \in Nat /\ Buffer \in Nat /\ Delay \in Nat
    /\ Buffer < Lifetime
    /\ MaxTime \in Nat /\ MaxTries \in Nat

VARIABLES
    now,
    row,      \* the user's row of figma_connections, or None
    lock,     \* who has written the row and not committed
    import,   \* the transaction of each import job
    link,     \* the transaction of each callback request
    linked,   \* history: the last link committed
    crossed   \* history: a link was committed while a refresh was under way

vars == <<now, row, lock, import, link, linked, crossed>>

Tokens == [grant : Links, expires : Nat]  \* expires: when Figma lets it expire
Rows   == [access : Tokens, refresh : Links, expires_at : Nat]

ASSUME NamesAssumption ==
    /\ Imports \cap Links = {}
    /\ None \notin Imports \cup Links \cup Rows

ImportStages == {"pending", "stale", "asked", "answered", "importing", "done", "failed"}
LinkStages   == {"new", "asked", "update", "insert", "saved", "over"}

\* "decided" is when the import took the token it works with.
NoImport == [at |-> "pending", tries |-> 0, conn |-> None, token |-> None, since |-> 0, decided |-> 0]
NoLink   == [at |-> "new", token |-> None, since |-> 0, expires_at |-> 0]

ImportTxns == [at : ImportStages, tries : Nat, conn : Rows \cup {None},
               token : Tokens \cup {None}, since : Nat, decided : Nat]
LinkTxns   == [at : LinkStages, token : Tokens \cup {None}, since : Nat, expires_at : Nat]

TypeOK ==
    /\ now \in Nat
    /\ row \in Rows \cup {None}
    /\ lock \in Imports \cup Links \cup {None}
    /\ import \in [Imports -> ImportTxns]
    /\ link \in [Links -> LinkTxns]
    /\ linked \in Links \cup {None}
    /\ crossed \in BOOLEAN

Init ==
    /\ now = 0 /\ row = None /\ lock = None
    /\ import = [i \in Imports |-> NoImport]
    /\ link = [l \in Links |-> NoLink]
    /\ linked = None /\ crossed = FALSE

\* No answer of Figma is on its way longer than Delay.
Tick ==
    /\ now < MaxTime
    /\ \A i \in Imports : import[i].at = "asked" => now < import[i].since + Delay
    /\ \A l \in Links : link[l].at = "asked" => now < link[l].since + Delay
    /\ now' = now + 1
    /\ UNCHANGED <<row, lock, import, link, linked, crossed>>

-----------------------------------------------------------------------------
(* handle_callback. *)

\* exchange_code: Figma grants the tokens, and its answer is on its way.
ExchangeCode(l) ==
    /\ link[l].at = "new"
    /\ link' = [link EXCEPT ![l].at = "asked", ![l].since = now,
                            ![l].token = [grant |-> l, expires |-> now + Lifetime]]
    /\ UNCHANGED <<now, row, lock, import, linked, crossed>>

\* expires_at is reckoned from the answer; then save_tokens looks for a row.
FindConnection(l) ==
    /\ link[l].at = "asked"
    /\ link' = [link EXCEPT ![l].at = IF row = None THEN "insert" ELSE "update",
                            ![l].expires_at = now + Lifetime]
    /\ UNCHANGED <<now, row, lock, import, linked, crossed>>

\* The flush of save_tokens waits for whoever is writing the row, or inserting it.
SaveTokens(l) ==
    /\ link[l].at = "update" \/ (link[l].at = "insert" /\ row = None)
    /\ lock = None
    /\ lock' = l
    /\ link' = [link EXCEPT ![l].at = "saved"]
    /\ UNCHANGED <<now, row, import, linked, crossed>>

\* Mutant: the access token is kept for as long as it is good.
LinkedRowKeepsAccess(l) ==
    IF row # None THEN [row EXCEPT !.refresh = l]
    ELSE [access |-> link[l].token, refresh |-> l, expires_at |-> link[l].expires_at]

LinkedRow(l) == [access |-> link[l].token, refresh |-> l, expires_at |-> link[l].expires_at]

\* A refresh that has read the row and not written it yet.
Refreshing(i) == import[i].at \in {"stale", "asked", "answered"}

CommitLink(l) ==
    /\ link[l].at = "saved"
    /\ row' = LinkedRow(l)
    /\ lock' = None
    /\ link' = [link EXCEPT ![l].at = "over"]
    /\ linked' = l
    /\ crossed' = (crossed \/ \E i \in Imports : Refreshing(i))
    /\ UNCHANGED <<now, import>>

\* Figma refuses the code, the client goes away, or another request has
\* inserted the row (user_id is unique).
LinkFails(l) ==
    /\ link[l].at \notin {"new", "over"}
    /\ link' = [link EXCEPT ![l].at = "over"]
    /\ lock' = IF lock = l THEN None ELSE lock
    /\ UNCHANGED <<now, row, import, linked, crossed>>

-----------------------------------------------------------------------------
(* import_figma_prototype, as far as its token goes. *)

\* Mutant: the buffer is granted after the expiry.
ExpiringLate(conn) == now >= conn.expires_at + Buffer

Expiring(conn) == now + Buffer >= conn.expires_at

\* get_connection of get_valid_access_token.
GetConnection(i) ==
    /\ import[i].at = "pending"
    /\ row # None
    /\ import' = [import EXCEPT ![i] =
         IF Expiring(row) THEN [@ EXCEPT !.at = "stale", !.conn = row]
         ELSE [@ EXCEPT !.at = "importing", !.conn = row, !.token = row.access, !.decided = now]]
    /\ UNCHANGED <<now, row, lock, link, linked, crossed>>

\* refresh_access_token: Figma grants a new access token for the refresh token.
AskFigma(i) ==
    /\ import[i].at = "stale"
    /\ import' = [import EXCEPT ![i].at = "asked", ![i].since = now,
                                ![i].token = [grant |-> import[i].conn.refresh,
                                              expires |-> now + Lifetime]]
    /\ UNCHANGED <<now, row, lock, link, linked, crossed>>

FigmaAnswers(i) ==
    /\ import[i].at = "asked"
    /\ import' = [import EXCEPT ![i].at = "answered", ![i].decided = now]
    /\ UNCHANGED <<now, row, lock, link, linked, crossed>>

\* The flush of refresh_access_token.
WriteRefreshed(i) ==
    /\ import[i].at = "answered"
    /\ lock = None
    /\ lock' = i
    /\ import' = [import EXCEPT ![i].at = "importing"]
    /\ UNCHANGED <<now, row, link, linked, crossed>>

\* Mutant: the row is written as it was read.
RefreshedRowWhole(i) ==
    [import[i].conn EXCEPT !.access = import[i].token, !.expires_at = import[i].decided + Lifetime]

RefreshedRow(i) ==
    [row EXCEPT !.access = import[i].token, !.expires_at = import[i].decided + Lifetime]

CommitImport(i) ==
    /\ import[i].at = "importing"
    /\ row' = IF lock = i THEN RefreshedRow(i) ELSE row
    /\ lock' = IF lock = i THEN None ELSE lock
    /\ import' = [import EXCEPT ![i].at = "done"]
    /\ UNCHANGED <<now, link, linked, crossed>>

\* The account is not linked, Figma refuses, or the import fails: rollback, and
\* again from the start up to the last attempt.
ImportFails(i) ==
    /\ import[i].at \notin {"done", "failed"}
    /\ import' = [import EXCEPT ![i] =
         [NoImport EXCEPT !.tries = import[i].tries + 1,
                          !.at = IF import[i].tries + 1 < MaxTries THEN "pending" ELSE "failed"]]
    /\ lock' = IF lock = i THEN None ELSE lock
    /\ UNCHANGED <<now, row, link, linked, crossed>>

-----------------------------------------------------------------------------
LinkStep(l) == ExchangeCode(l) \/ FindConnection(l) \/ SaveTokens(l) \/ CommitLink(l) \/ LinkFails(l)

ImportStep(i) == \/ GetConnection(i) \/ AskFigma(i) \/ FigmaAnswers(i) \/ WriteRefreshed(i)
                 \/ CommitImport(i) \/ ImportFails(i)

Next == \/ Tick
        \/ \E l \in Links : LinkStep(l)
        \/ \E i \in Imports : ImportStep(i)

Spec == Init /\ [][Next]_vars

-----------------------------------------------------------------------------
(* Properties. *)

\* No refresh undoes a link: the stored refresh token is the one of the last link
\* that was committed, however many imports refresh the row they had read before it.
\* (figma_oauth_service.py:115-117, 152-164)
LinkIsKept == IF row = None THEN linked = None ELSE row.refresh = linked

\* An import works with the account that was linked when it read the connection,
\* unless a link was once committed in the middle of a refresh: then the row pairs
\* the new account's refresh token with an access token of the old one, and hands it
\* out until that expires. (figma_oauth_service.py:103-119, 147-155)
OldAccountOnlyByOverlap ==
    \A i \in Imports :
      import[i].at = "importing" /\ ~ crossed => import[i].token.grant = import[i].conn.refresh

\* The token an import starts with is good for the buffer at least, less the
\* time by which expires_at, reckoned from Figma's answer, is late.
\* (figma_oauth_service.py:26-28, 114-116, 136-138; usecases/auth.py:33-34)
TokenLasts ==
    \A i \in Imports :
      import[i].at = "importing" => import[i].token.expires + Delay > import[i].decided + Buffer

-----------------------------------------------------------------------------
(* The inductive invariant. *)

\* Whoever has written the row is at the step that has.
LockHasHolder ==
    /\ \A l \in Links : lock = l <=> link[l].at = "saved"
    /\ \A i \in Imports : lock = i => import[i].at = "importing" /\ row # None

\* What a transaction has in hand at each of its steps.
InHand ==
    /\ \A l \in Links :
         /\ link[l].at \in {"asked", "update", "insert", "saved"} =>
              link[l].token \in Tokens /\ link[l].token.grant = l
         /\ link[l].at = "asked" =>
              link[l].token.expires = link[l].since + Lifetime /\ now <= link[l].since + Delay
         /\ link[l].at \in {"update", "insert", "saved"} =>
              link[l].expires_at <= link[l].token.expires + Delay
         /\ link[l].at = "update" => row # None
    /\ \A i \in Imports :
         /\ import[i].at \in {"stale", "asked", "answered", "importing"} =>
              import[i].conn \in Rows /\ row # None
         /\ import[i].at \in {"asked", "answered", "importing"} => import[i].token \in Tokens
         /\ import[i].at \in {"asked", "answered"} => import[i].token.grant = import[i].conn.refresh
         /\ import[i].at = "asked" =>
              import[i].token.expires = import[i].since + Lifetime /\ now <= import[i].since + Delay
         /\ import[i].at = "answered" \/ lock = i =>
              import[i].decided + Lifetime <= import[i].token.expires + Delay

\* expires_at is late by Delay at most.
ExpiryIsClose == row # None => row.expires_at <= row.access.expires + Delay

\* Without an overlap all is of the account linked last.
OneAccount ==
    ~ crossed =>
      /\ row # None => row.access.grant = row.refresh
      /\ \A i \in Imports : Refreshing(i) => import[i].conn.refresh = row.refresh
      /\ \A i \in Imports : lock = i => import[i].token.grant = row.refresh

TokensInv ==
    /\ TypeOK /\ LockHasHolder /\ InHand /\ ExpiryIsClose /\ OneAccount
    /\ LinkIsKept /\ OldAccountOnlyByOverlap /\ TokenLasts
=============================================================================

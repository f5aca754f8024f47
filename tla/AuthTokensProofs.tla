-------------------------- MODULE AuthTokensProofs --------------------------
(***************************************************************************)
(* Theorems about the refresh tokens of module AuthTokens, for any number  *)
(* of users, devices, tokens and requests under way, and any grace period  *)
(* and times to live: what is revoked stays as it was, a revocation of a   *)
(* family is final, and of the tokens sent for one login at most one can   *)
(* be exchanged.  The second part is about the access sessions: every      *)
(* variable keeps its type, nobody holds more sessions than the limit, and *)
(* none of them is older than the last ban of its user.  The third is      *)
(* about devices that ask one thing at a time and retry within the grace   *)
(* window: whatever answers get lost, none of them loses its login.        *)
(***************************************************************************)
EXTENDS AuthTokens, ListsProofs, FiniteSetTheorems, TLAPS

\* Tokens somebody outside the server may know of: None or a row that was sent.
Known(S, t) == t = None \/ (t \in DOMAIN S /\ S[t].sent)

\* The successor of a rotated token is a row of the same user that was sent.
Follows(S, t) ==
    S[t].next # None =>
        S[t].next \in DOMAIN S /\ S[S[t].next].sent /\ S[S[t].next].user = S[t].user

\* The types of what the refresh tokens depend on.
TokenTypes ==
    /\ now \in Nat
    /\ tokens \in Seq(Token)
    /\ attempt \in [Devices -> Users \cup {None}]
    /\ DOMAIN replies = Devices /\ DOMAIN held = Devices
    /\ cut \in [Users -> Nat]

\* Devices hold, and are sent, tokens that were sent; so is every successor.
SentInv ==
    /\ \A d \in Devices : Known(tokens, held[d])
    /\ \A d \in Devices : \A r \in replies[d] : Known(tokens, r.tok)
    /\ \A t \in DOMAIN tokens : Follows(tokens, t)

\* A chain is named by its first row, and a family is cut at an existing row.
ChainInv ==
    /\ \A t \in DOMAIN tokens : tokens[t].chain \in 1..t
    /\ \A u \in Users : cut[u] <= Len(tokens)

TokenInv == TokenTypes /\ SentInv /\ ChainInv /\ CutIsFinal /\ OneLiveTip
-----------------------------------------------------------------------------
(* What the writes to the table do.                                        *)

\* The table keeps all its rows, in every field but `revoked' and `next', and
\* no revoked row changes.
Keeps(S, T) ==
    /\ T \in Seq(Token) /\ Len(S) <= Len(T)
    /\ \A t \in DOMAIN S :
         /\ T[t].user = S[t].user /\ T[t].chain = S[t].chain /\ T[t].sent = S[t].sent
         /\ S[t].revoked # None => T[t] = S[t]

LEMMA NewTokenType ==
    ASSUME NEW u \in Users, NEW c \in Nat, NEW b \in BOOLEAN, now \in Nat
    PROVE  /\ NewToken(u, c, b) \in Token
           /\ NewToken(u, c, b).user = u /\ NewToken(u, c, b).chain = c
           /\ NewToken(u, c, b).sent = b /\ NewToken(u, c, b).revoked = None
           /\ NewToken(u, c, b).next = None
  BY AuthAssumption DEF NewToken, Token

LEMMA AppendRow ==
    ASSUME NEW S \in Seq(Token), NEW x \in Token
    PROVE  /\ Append(S, x) \in Seq(Token)
           /\ Len(Append(S, x)) = Len(S) + 1
           /\ \A t \in DOMAIN S : t \in DOMAIN Append(S, x) /\ Append(S, x)[t] = S[t]
           /\ Append(S, x)[Len(S) + 1] = x
           /\ DOMAIN S = 1..Len(S)
           /\ DOMAIN Append(S, x) = 1..(Len(S) + 1)
  OBVIOUS

\* The UPDATE of a family: every row of u is revoked afterwards, no other
\* row and no row revoked before is touched.
LEMMA RevokedFamily ==
    ASSUME TokenTypes, NEW u \in Users
    PROVE  /\ Keeps(tokens, RevokeFamily(u))
           /\ Len(RevokeFamily(u)) = Len(tokens)
           /\ \A t \in DOMAIN tokens :
                /\ RevokeFamily(u)[t].next = tokens[t].next
                /\ RevokeFamily(u)[t].revoked = None =>
                     tokens[t].revoked = None /\ tokens[t].user # u
  <1> DEFINE R == RevokeFamily(u)
  <1>1. tokens \in Seq(Token) /\ DOMAIN tokens = 1..Len(tokens) /\ Len(tokens) \in Nat
    BY DEF TokenTypes
  <1>2. ASSUME NEW t \in DOMAIN tokens
        PROVE  /\ R[t] \in Token
               /\ R[t].user = tokens[t].user /\ R[t].chain = tokens[t].chain
               /\ R[t].sent = tokens[t].sent /\ R[t].next = tokens[t].next
               /\ tokens[t].revoked # None => R[t] = tokens[t]
               /\ R[t].revoked = None => tokens[t].revoked = None /\ tokens[t].user # u
    <2>1. tokens[t] \in Token /\ now \in Nat /\ None \notin Nat
      BY <1>1, AuthAssumption DEF TokenTypes
    <2>2. CASE tokens[t].user = u /\ Live(t)
      <3>1. R[t] = [tokens[t] EXCEPT !.revoked = now]
        BY <2>2 DEF RevokeFamily
      <3> QED BY <2>1, <2>2, <3>1 DEF Token, Live
    <2>3. CASE ~(tokens[t].user = u /\ Live(t))
      <3>1. R[t] = tokens[t]
        BY <2>3 DEF RevokeFamily
      <3> QED BY <2>1, <2>3, <3>1 DEF Live
    <2> QED BY <2>2, <2>3
  <1>3. R = [t \in 1..Len(tokens) |-> R[t]]
    BY <1>1 DEF RevokeFamily
  <1>4. R \in Seq(Token) /\ Len(R) = Len(tokens)
    <2>1. R \in [1..Len(tokens) -> Token]
      BY <1>1, <1>2, <1>3
    <2> QED BY <1>1, <2>1
  <1> HIDE DEF R
  <1> QED BY <1>1, <1>2, <1>4 DEF Keeps, R
-----------------------------------------------------------------------------
(* A step as the refresh tokens see it.                                    *)

\* Rows are never unrevoked, successors are rows that were sent, and a row is
\* only sent when no other row of its chain that was sent is left live.
TableStep ==
    /\ Keeps(tokens, tokens')
    /\ \A t \in DOMAIN tokens :
         /\ tokens'[t].revoked = None => tokens[t].revoked = None
         /\ Follows(tokens', t)
    /\ \A t \in DOMAIN tokens' \ DOMAIN tokens :
         /\ t = Len(tokens) + 1
         /\ tokens'[t].next = None
         /\ tokens'[t].chain \in 1..t
         /\ tokens'[t].sent =>
              \A s \in DOMAIN tokens :
                  tokens[s].chain = tokens'[t].chain /\ tokens[s].sent
                      => tokens'[s].revoked # None

\* A family is cut when all its rows are revoked.
CutStep ==
    \/ UNCHANGED cut
    \/ \E u \in Users :
         /\ cut' = [cut EXCEPT ![u] = Len(tokens)]
         /\ Len(tokens') = Len(tokens)
         /\ \A t \in DOMAIN tokens : tokens[t].user = u => tokens'[t].revoked # None

\* What devices learn was sent.
DeviceStep ==
    /\ now' \in Nat
    /\ attempt' \in [Devices -> Users \cup {None}]
    /\ DOMAIN replies' = Devices /\ DOMAIN held' = Devices
    /\ \A d \in Devices : Known(tokens', held'[d])
    /\ \A d \in Devices : \A r \in replies'[d] : Known(tokens', r.tok)

LEMMA TokenStepKeeps ==
    ASSUME TokenInv, TableStep, CutStep, DeviceStep
    PROVE  TokenInv'
  <1>1. /\ tokens \in Seq(Token) /\ DOMAIN tokens = 1..Len(tokens) /\ Len(tokens) \in Nat
        /\ cut \in [Users -> Nat]
    BY DEF TokenInv, TokenTypes
  <1>2. /\ tokens' \in Seq(Token) /\ DOMAIN tokens' = 1..Len(tokens')
        /\ Len(tokens') \in Nat /\ Len(tokens) <= Len(tokens')
        /\ DOMAIN tokens \subseteq DOMAIN tokens'
    BY <1>1 DEF TableStep, Keeps
  <1>3. cut' \in [Users -> Nat]
    BY <1>1 DEF CutStep
  <1>4. TokenTypes'
    BY <1>2, <1>3 DEF DeviceStep, TokenTypes
  <1>5. SentInv'
    <2>1. \A t \in DOMAIN tokens' : Follows(tokens', t)
      BY DEF TableStep, Follows
    <2> QED BY <2>1 DEF DeviceStep, SentInv
  <1>6. ChainInv'
    <2>1. \A t \in DOMAIN tokens' : tokens'[t].chain \in 1..t
      <3>1. \A t \in DOMAIN tokens : tokens'[t].chain = tokens[t].chain
        BY DEF TableStep, Keeps
      <3> QED BY <3>1 DEF TableStep, TokenInv, ChainInv
    <2>2. \A u \in Users : cut'[u] <= Len(tokens')
      <3>1. \A u \in Users : cut'[u] <= Len(tokens)
        BY <1>1 DEF CutStep, TokenInv, ChainInv
      <3> QED BY <1>1, <1>2, <1>3, <3>1
    <2> QED BY <2>1, <2>2 DEF ChainInv
  <1>7. CutIsFinal'
    <2> SUFFICES ASSUME NEW t \in DOMAIN tokens', tokens'[t].revoked = None
                 PROVE  t > cut'[tokens'[t].user]
      BY DEF CutIsFinal, Live
    <2> DEFINE u == tokens'[t].user
    <2>1. u \in Users
      <3>1. tokens'[t] \in Token
        BY <1>2
      <3> QED BY <3>1 DEF Token
    <2>2. CASE t \in DOMAIN tokens
      <3>1. tokens[t].revoked = None /\ tokens[t].user = u
        BY <2>2 DEF TableStep, Keeps
      <3>2. t > cut[u]
        BY <2>2, <3>1 DEF TokenInv, CutIsFinal, Live
      <3>3. cut'[u] = cut[u]
        BY <1>1, <2>1, <2>2, <3>1 DEF CutStep
      <3> QED BY <3>2, <3>3
    <2>3. CASE t \notin DOMAIN tokens
      <3>1. t = Len(tokens) + 1
        BY <2>3 DEF TableStep
      <3>2. cut'[u] <= Len(tokens)
        BY <1>1, <2>1 DEF CutStep, TokenInv, ChainInv
      <3> QED BY <1>1, <1>3, <2>1, <3>1, <3>2
    <2> QED BY <2>2, <2>3
  <1>8. OneLiveTip'
    <2> SUFFICES ASSUME NEW s \in DOMAIN tokens', NEW t \in DOMAIN tokens',
                        tokens'[s].chain = tokens'[t].chain,
                        tokens'[s].sent, tokens'[t].sent,
                        tokens'[s].revoked = None, tokens'[t].revoked = None
                 PROVE  s = t
      BY DEF OneLiveTip, Live
    <2>1. \A r \in DOMAIN tokens : /\ tokens'[r].chain = tokens[r].chain
                                   /\ tokens'[r].sent = tokens[r].sent
                                   /\ tokens'[r].revoked = None => tokens[r].revoked = None
      BY DEF TableStep, Keeps
    <2>2. CASE s \in DOMAIN tokens /\ t \in DOMAIN tokens
      BY <2>1, <2>2 DEF TokenInv, OneLiveTip, Live
    <2>3. CASE s \notin DOMAIN tokens /\ t \notin DOMAIN tokens
      BY <2>3 DEF TableStep
    <2>4. CASE s \in DOMAIN tokens /\ t \notin DOMAIN tokens
      BY <2>1, <2>4 DEF TableStep
    <2>5. CASE s \notin DOMAIN tokens /\ t \in DOMAIN tokens
      BY <2>1, <2>5 DEF TableStep
    <2> QED BY <2>2, <2>3, <2>4, <2>5
  <1> QED BY <1>4, <1>5, <1>6, <1>7, <1>8 DEF TokenInv

\* Devices and replies that do not change stay known while rows are kept.
LEMMA StaysKnown ==
    ASSUME TokenInv, Keeps(tokens, tokens')
    PROVE  /\ \A d \in Devices : Known(tokens', held[d])
           /\ \A d \in Devices : \A r \in replies[d] : Known(tokens', r.tok)
  <1>1. ASSUME NEW t, Known(tokens, t) PROVE Known(tokens', t)
    <2>1. tokens \in Seq(Token) /\ tokens' \in Seq(Token) /\ Len(tokens) <= Len(tokens')
      BY DEF TokenInv, TokenTypes, Keeps
    <2>2. DOMAIN tokens \subseteq DOMAIN tokens'
      BY <2>1
    <2> QED BY <1>1, <2>2 DEF Known, Keeps
  <1> QED BY <1>1 DEF TokenInv, SentInv
-----------------------------------------------------------------------------
(* The handlers.                                                           *)

LEMMA SameTable ==
    ASSUME TokenInv, UNCHANGED tokens
    PROVE  TableStep
  BY DEF TableStep, Keeps, TokenInv, TokenTypes, SentInv

LEMMA AnswerKnown ==
    ASSUME TokenInv, Keeps(tokens, tokens'), NEW d \in Devices, NEW r,
           Answer(d, r), Known(tokens', r.tok)
    PROVE  /\ DOMAIN replies' = Devices
           /\ \A e \in Devices : \A q \in replies'[e] : Known(tokens', q.tok)
  BY StaysKnown DEF Answer, TokenInv, TokenTypes

\* A row is added; if it is sent, no other row of its chain is live and sent.
LEMMA AddsRow ==
    ASSUME TokenInv, NEW u \in Users, NEW c \in 1..(Len(tokens) + 1), NEW b \in BOOLEAN,
           tokens' = Append(tokens, NewToken(u, c, b)),
           b => \A s \in DOMAIN tokens :
                    tokens[s].chain = c /\ tokens[s].sent => tokens[s].revoked # None
    PROVE  /\ TableStep
           /\ NextRow \in DOMAIN tokens' /\ tokens'[NextRow].sent = b
  <1>1. tokens \in Seq(Token) /\ Len(tokens) \in Nat /\ now \in Nat /\ c \in Nat
    BY DEF TokenInv, TokenTypes
  <1> DEFINE x == NewToken(u, c, b)
  <1>2. /\ x \in Token /\ x.user = u /\ x.chain = c /\ x.sent = b
        /\ x.revoked = None /\ x.next = None
    BY <1>1, NewTokenType
  <1> HIDE DEF x
  <1>3. /\ tokens' \in Seq(Token) /\ Len(tokens') = Len(tokens) + 1
        /\ \A t \in DOMAIN tokens : t \in DOMAIN tokens' /\ tokens'[t] = tokens[t]
        /\ tokens'[Len(tokens) + 1] = x
        /\ DOMAIN tokens = 1..Len(tokens)
        /\ DOMAIN tokens' = 1..(Len(tokens) + 1)
    <2>1. tokens' = Append(tokens, x)
      BY DEF x
    <2> QED BY <1>1, <1>2, <2>1, AppendRow
  <1>4. Keeps(tokens, tokens')
    BY <1>1, <1>3 DEF Keeps
  <1>5. \A t \in DOMAIN tokens : Follows(tokens', t)
    <2>1. \A t \in DOMAIN tokens : Follows(tokens, t)
      BY DEF TokenInv, SentInv
    <2> QED BY <2>1, <1>3 DEF Follows
  <1>6. \A t \in DOMAIN tokens' \ DOMAIN tokens : t = Len(tokens) + 1
    BY <1>1, <1>3
  <1>7. TableStep
    BY <1>1, <1>2, <1>3, <1>4, <1>5, <1>6 DEF TableStep
  <1> QED BY <1>1, <1>2, <1>3, <1>7 DEF NextRow

LEMMA GrantKeeps ==
    ASSUME TokenInv, NEW d \in Devices, NEW u \in Users, Grant(d, u),
           attempt' \in [Devices -> Users \cup {None}],
           UNCHANGED <<now, held, history>>
    PROVE  TokenInv' /\ Keeps(tokens, tokens')
  <1> DEFINE n == Len(tokens) + 1
  <1>1. Len(tokens) \in Nat /\ DOMAIN tokens = 1..Len(tokens)
    BY DEF TokenInv, TokenTypes
  <1>2. tokens' = Append(tokens, NewToken(u, n, TRUE))
    BY DEF Grant, NextRow
  <1>3. \A s \in DOMAIN tokens : tokens[s].chain # n
    BY <1>1 DEF TokenInv, ChainInv
  <1>4. TableStep /\ n \in DOMAIN tokens' /\ tokens'[n].sent
    <2>1. n \in 1..(Len(tokens) + 1)
      BY <1>1
    <2>2. TableStep /\ NextRow \in DOMAIN tokens' /\ tokens'[NextRow].sent = TRUE
      BY <1>2, <1>3, <2>1, AddsRow
    <2> QED BY <2>2 DEF NextRow
  <1>5. Keeps(tokens, tokens')
    BY <1>4 DEF TableStep
  <1> DEFINE r == [tok |-> NextRow, acc |-> FreshId]
  <1>6. Answer(d, r) /\ Known(tokens', r.tok)
    BY <1>4 DEF Grant, Known, NextRow
  <1>7. /\ DOMAIN replies' = Devices
        /\ \A e \in Devices : \A q \in replies'[e] : Known(tokens', q.tok)
    BY <1>5, <1>6, AnswerKnown
  <1>8. DeviceStep
    BY <1>5, <1>7, StaysKnown DEF DeviceStep, TokenInv, TokenTypes
  <1> QED BY <1>4, <1>5, <1>8, TokenStepKeeps DEF CutStep, history

\* A step that leaves the table alone and answers with a token that was sent,
\* or with none.
LEMMA AnswerKeeps ==
    ASSUME TokenInv, NEW d \in Devices, NEW r, Answer(d, r), Known(tokens, r.tok),
           UNCHANGED <<now, tokens, attempt, held, cut>>
    PROVE  TokenInv'
  <1>1. TableStep /\ Keeps(tokens, tokens')
    BY SameTable DEF TableStep
  <1>2. Known(tokens', r.tok)
    BY DEF Known
  <1>3. DeviceStep
    BY <1>1, <1>2, AnswerKnown, StaysKnown DEF DeviceStep, TokenInv, TokenTypes
  <1> QED BY <1>1, <1>3, TokenStepKeeps DEF CutStep

\* The row a device presents.
LEMMA Presented ==
    ASSUME TokenInv, NEW d \in Devices, NEW fits, Presents(d, fits)
    PROVE  /\ held[d] \in 1..Len(tokens) /\ tokens[held[d]].sent
           /\ held[d] \in DOMAIN tokens
           /\ tokens[held[d]] \in Token
           /\ tokens[held[d]].user \in Users /\ tokens[held[d]].chain \in 1..held[d]
  <1>1. tokens \in Seq(Token) /\ DOMAIN tokens = 1..Len(tokens)
    BY DEF TokenInv, TokenTypes
  <1>2. held[d] \in DOMAIN tokens /\ tokens[held[d]].sent
    BY DEF Presents, Known, TokenInv, SentInv
  <1>3. tokens[held[d]] \in Token
    BY <1>1, <1>2
  <1>4. tokens[held[d]].chain \in 1..held[d]
    BY <1>2 DEF TokenInv, ChainInv
  <1> QED BY <1>1, <1>2, <1>3, <1>4 DEF Token

\* One row changes in `revoked' and `next'.
LEMMA StampRow ==
    ASSUME TokenInv, NEW t \in DOMAIN tokens, NEW n \in Nat \cup {None}
    PROVE  LET E == [tokens EXCEPT ![t].revoked = now, ![t].next = n] IN
           /\ E \in Seq(Token) /\ Len(E) = Len(tokens)
           /\ E[t].user = tokens[t].user /\ E[t].chain = tokens[t].chain
           /\ E[t].sent = tokens[t].sent /\ E[t].next = n /\ E[t].revoked = now
           /\ \A s \in DOMAIN tokens \ {t} : E[s] = tokens[s]
  <1>1. /\ tokens \in Seq(Token) /\ DOMAIN tokens = 1..Len(tokens) /\ Len(tokens) \in Nat
        /\ now \in Nat
    BY DEF TokenInv, TokenTypes
  <1>2. tokens[t] \in Token
    BY <1>1
  <1> DEFINE y == [tokens[t] EXCEPT !.revoked = now, !.next = n]
             E == [tokens EXCEPT ![t].revoked = now, ![t].next = n]
  <1>3. /\ y \in Token /\ y.user = tokens[t].user /\ y.chain = tokens[t].chain
        /\ y.sent = tokens[t].sent /\ y.next = n /\ y.revoked = now
    BY <1>1, <1>2 DEF Token
  <1>4. E = [tokens EXCEPT ![t] = y]
    BY <1>1, <1>2
  <1> HIDE DEF y
  <1>5. /\ [tokens EXCEPT ![t] = y] \in Seq(Token)
        /\ Len([tokens EXCEPT ![t] = y]) = Len(tokens)
        /\ [tokens EXCEPT ![t] = y][t] = y
        /\ \A s \in DOMAIN tokens \ {t} : [tokens EXCEPT ![t] = y][s] = tokens[s]
    BY <1>1, <1>3
  <1> QED BY <1>3, <1>4, <1>5

LEMMA RotatesKeeps ==
    ASSUME TokenInv, NEW d \in Devices, NEW fits, RefreshRotates(d, fits)
    PROVE  TokenInv' /\ Keeps(tokens, tokens')
  <1> DEFINE t == held[d]
             n == Len(tokens) + 1
             E == [tokens EXCEPT ![t].revoked = now, ![t].next = n]
             x == NewToken(tokens[t].user, tokens[t].chain, TRUE)
  <1>1. /\ t \in 1..Len(tokens) /\ tokens[t].sent /\ t \in DOMAIN tokens
        /\ tokens[t].user \in Users /\ tokens[t].chain \in 1..t
    BY Presented DEF RefreshRotates
  <1>2. /\ DOMAIN tokens = 1..Len(tokens) /\ Len(tokens) \in Nat /\ now \in Nat
        /\ tokens \in Seq(Token) /\ None # now /\ n \in Nat /\ now # None
    BY AuthAssumption DEF TokenInv, TokenTypes
  <1>3. tokens[t].revoked = None /\ tokens' = Append(E, x)
    BY DEF RefreshRotates, Rotate, NextRow, Live
  <1>4. /\ E \in Seq(Token) /\ Len(E) = Len(tokens)
        /\ E[t].user = tokens[t].user /\ E[t].chain = tokens[t].chain
        /\ E[t].sent = tokens[t].sent /\ E[t].next = n /\ E[t].revoked = now
        /\ \A s \in DOMAIN tokens \ {t} : E[s] = tokens[s]
    BY <1>1, <1>2, StampRow
  <1>5. /\ x \in Token /\ x.chain = tokens[t].chain /\ x.sent = TRUE
        /\ x.user = tokens[t].user
        /\ x.revoked = None /\ x.next = None
    <2> HIDE DEF E
    <2>1. tokens[t].user \in Users /\ tokens[t].chain \in Nat /\ now \in Nat
      BY <1>1, <1>2
    <2> DEFINE u == tokens[t].user
               c == tokens[t].chain
    <2> HIDE DEF u, c
    <2>2. u \in Users /\ c \in Nat
      BY <2>1 DEF u, c
    <2>3. /\ NewToken(u, c, TRUE) \in Token /\ NewToken(u, c, TRUE).chain = c
          /\ NewToken(u, c, TRUE).sent = TRUE /\ NewToken(u, c, TRUE).user = u
          /\ NewToken(u, c, TRUE).revoked = None /\ NewToken(u, c, TRUE).next = None
      <3>1. \A v \in Users, w \in Nat, b \in BOOLEAN :
               /\ NewToken(v, w, b) \in Token /\ NewToken(v, w, b).chain = w
               /\ NewToken(v, w, b).sent = b /\ NewToken(v, w, b).user = v
               /\ NewToken(v, w, b).revoked = None /\ NewToken(v, w, b).next = None
        BY <1>2, NewTokenType
      <3> QED BY <2>2, <3>1
    <2> QED BY <2>3 DEF u, c
  <1> HIDE DEF E, x
  <1>6. /\ tokens' \in Seq(Token) /\ Len(tokens') = n
        /\ DOMAIN tokens' = 1..n /\ tokens'[n] = x
        /\ \A s \in DOMAIN tokens : tokens'[s] = E[s]
    BY <1>2, <1>3, <1>4, <1>5, AppendRow
  <1>7. Keeps(tokens, tokens')
    <2>1. ASSUME NEW s \in DOMAIN tokens
          PROVE  /\ tokens'[s].user = tokens[s].user /\ tokens'[s].chain = tokens[s].chain
                 /\ tokens'[s].sent = tokens[s].sent
                 /\ tokens[s].revoked # None => tokens'[s] = tokens[s]
      <3>1. CASE s = t
        BY <1>1, <1>3, <1>4, <1>6, <3>1
      <3>2. CASE s # t
        BY <1>4, <1>6, <3>2
      <3> QED BY <3>1, <3>2
    <2> QED BY <1>2, <1>6, <2>1 DEF Keeps
  <1>8. TableStep
    <2>1. \A s \in DOMAIN tokens : tokens'[s].revoked = None => tokens[s].revoked = None
      BY <1>1, <1>2, <1>3, <1>4, <1>6
    <2>2. \A s \in DOMAIN tokens : Follows(tokens', s)
      <3>1. Follows(tokens', t)
        BY <1>1, <1>2, <1>4, <1>5, <1>6 DEF Follows
      <3>2. \A s \in DOMAIN tokens : Follows(tokens, s)
        BY DEF TokenInv, SentInv
      <3>3. \A s \in DOMAIN tokens : /\ s \in DOMAIN tokens' /\ tokens'[s].sent = tokens[s].sent
                                     /\ tokens'[s].user = tokens[s].user
        BY <1>2, <1>6, <1>7 DEF Keeps
      <3>4. \A s \in DOMAIN tokens \ {t} : Follows(tokens', s)
        BY <1>4, <1>6, <3>2, <3>3 DEF Follows
      <3> QED BY <1>1, <1>4, <1>6, <3>1, <3>4
    <2>3. \A s \in DOMAIN tokens :
             tokens[s].chain = tokens[t].chain /\ tokens[s].sent => tokens'[s].revoked # None
      <3> SUFFICES ASSUME NEW s \in DOMAIN tokens,
                          tokens[s].chain = tokens[t].chain, tokens[s].sent
                   PROVE  tokens'[s].revoked # None
        OBVIOUS
      <3>1. CASE s = t
        BY <1>1, <1>2, <1>4, <1>6, <3>1
      <3>2. CASE s # t
        <4>1. tokens[s].revoked # None
          BY <1>1, <1>3, <3>2 DEF TokenInv, OneLiveTip, Live
        <4> QED BY <1>4, <1>6, <3>2, <4>1
      <3> QED BY <3>1, <3>2
    <2>4. \A s \in DOMAIN tokens' \ DOMAIN tokens : s = n
      BY <1>2, <1>6
    <2>5. tokens[t].chain \in 1..n
      BY <1>1, <1>2
    <2> QED BY <1>5, <1>6, <1>7, <2>1, <2>2, <2>3, <2>4, <2>5 DEF TableStep
  <1> DEFINE r == [tok |-> NextRow, acc |-> FreshId]
  <1>9. Answer(d, r) /\ Known(tokens', r.tok)
    BY <1>2, <1>5, <1>6 DEF RefreshRotates, Known, NextRow
  <1>10. /\ DOMAIN replies' = Devices
         /\ \A e \in Devices : \A q \in replies'[e] : Known(tokens', q.tok)
    BY <1>7, <1>9, AnswerKnown
  <1>11. UNCHANGED <<now, attempt, held, cut>>
    BY DEF RefreshRotates, history
  <1>12. DeviceStep
    BY <1>7, <1>10, <1>11, StaysKnown DEF DeviceStep, TokenInv, TokenTypes
  <1> QED BY <1>7, <1>8, <1>11, <1>12, TokenStepKeeps DEF CutStep

LEMMA ReplaysKeeps ==
    ASSUME TokenInv, NEW d \in Devices, NEW fits, RefreshReplays(d, fits)
    PROVE  TokenInv'
  <1> DEFINE s == tokens[held[d]].next
             r == [tok |-> s, acc |-> FreshId]
  <1>1. held[d] \in DOMAIN tokens
    BY Presented DEF RefreshReplays
  <1>2. Known(tokens, s)
    BY <1>1 DEF TokenInv, SentInv, Follows, Known
  <1>3. Answer(d, r) /\ Known(tokens, r.tok) /\ UNCHANGED <<now, tokens, attempt, held, cut>>
    BY <1>2 DEF RefreshReplays, history
  <1> QED BY <1>3, AnswerKeeps

LEMMA RefusedKeeps ==
    ASSUME TokenInv, NEW d \in Devices, NEW fits, RefreshRefused(d, fits)
    PROVE  TokenInv'
  <1>1. /\ Answer(d, Failure) /\ Known(tokens, Failure.tok)
        /\ UNCHANGED <<now, tokens, attempt, held, cut>>
    BY DEF RefreshRefused, history, serverVars, Failure, Known
  <1> QED BY <1>1, AnswerKeeps

\* A family is revoked: by the detection of a reuse or by a ban.
LEMMA CutKeeps ==
    ASSUME TokenInv, NEW u \in Users,
           tokens' = RevokeFamily(u), cut' = [cut EXCEPT ![u] = Len(tokens)],
           DOMAIN replies' = Devices,
           \A d \in Devices : \A r \in replies'[d] : Known(tokens', r.tok),
           UNCHANGED <<now, attempt, held>>
    PROVE  TokenInv' /\ Keeps(tokens, tokens')
  <1>1. /\ Keeps(tokens, tokens')
        /\ Len(tokens') = Len(tokens)
        /\ \A t \in DOMAIN tokens :
             /\ tokens'[t].next = tokens[t].next
             /\ tokens'[t].revoked = None => tokens[t].revoked = None /\ tokens[t].user # u
    BY RevokedFamily DEF TokenInv
  <1>2. tokens \in Seq(Token) /\ tokens' \in Seq(Token)
    BY <1>1 DEF Keeps, TokenInv, TokenTypes
  <1>3. DOMAIN tokens' = DOMAIN tokens
    BY <1>1, <1>2
  <1>4. \A t \in DOMAIN tokens : Follows(tokens', t)
    BY <1>1, <1>3 DEF Follows, Keeps, TokenInv, SentInv
  <1>5. TableStep
    BY <1>1, <1>3, <1>4 DEF TableStep
  <1>6. CutStep
    BY <1>1 DEF CutStep
  <1>7. DeviceStep
    BY <1>1, StaysKnown DEF DeviceStep, TokenInv, TokenTypes
  <1> QED BY <1>1, <1>5, <1>6, <1>7, TokenStepKeeps

LEMMA ReuseKeeps ==
    ASSUME TokenInv, NEW d \in Devices, NEW fits, RefreshReuse(d, fits)
    PROVE  TokenInv' /\ Keeps(tokens, tokens')
  <1> DEFINE u == tokens[held[d]].user
  <1>1. u \in Users
    BY Presented DEF RefreshReuse
  <1>2. /\ tokens' = RevokeFamily(u) /\ cut' = [cut EXCEPT ![u] = Len(tokens)]
        /\ Answer(d, Failure) /\ UNCHANGED <<now, attempt, held>>
    BY DEF RefreshReuse
  <1>3. Keeps(tokens, tokens')
    BY <1>1, <1>2, RevokedFamily DEF TokenInv
  <1>4. /\ DOMAIN replies' = Devices
        /\ \A e \in Devices : \A q \in replies'[e] : Known(tokens', q.tok)
    BY <1>2, <1>3, AnswerKnown DEF Failure, Known
  <1> QED BY <1>1, <1>2, <1>4, CutKeeps

LEMMA BanKeeps ==
    ASSUME TokenInv, NEW u \in Users, Ban(u)
    PROVE  TokenInv' /\ Keeps(tokens, tokens')
  <1>1. /\ tokens' = RevokeFamily(u) /\ cut' = [cut EXCEPT ![u] = Len(tokens)]
        /\ UNCHANGED <<now, attempt, replies, held>>
    BY DEF Ban, deviceVars
  <1>2. Keeps(tokens, tokens')
    BY <1>1, RevokedFamily DEF TokenInv
  <1>3. /\ DOMAIN replies' = Devices
        /\ \A d \in Devices : \A r \in replies'[d] : Known(tokens', r.tok)
    BY <1>1, <1>2, StaysKnown DEF TokenInv, TokenTypes
  <1> QED BY <1>1, <1>3, CutKeeps

LEMMA ExpiredKeeps ==
    ASSUME TokenInv, NEW d \in Devices, NEW fits, RefreshExpired(d, fits)
    PROVE  TokenInv' /\ Keeps(tokens, tokens')
  <1> DEFINE t == held[d]
             y == [tokens[t] EXCEPT !.revoked = now]
  <1>1. /\ t \in 1..Len(tokens) /\ t \in DOMAIN tokens /\ tokens[t] \in Token
        /\ tokens \in Seq(Token) /\ DOMAIN tokens = 1..Len(tokens) /\ Len(tokens) \in Nat
        /\ now \in Nat /\ now # None
    BY Presented, AuthAssumption DEF RefreshExpired, TokenInv, TokenTypes
  <1>2. /\ y \in Token /\ y.user = tokens[t].user /\ y.chain = tokens[t].chain
        /\ y.sent = tokens[t].sent /\ y.next = tokens[t].next /\ y.revoked = now
    BY <1>1 DEF Token
  <1>3. tokens[t].revoked = None /\ tokens' = [tokens EXCEPT ![t] = y]
    BY DEF RefreshExpired, Live
  <1> HIDE DEF y
  <1>4. /\ tokens' \in Seq(Token) /\ Len(tokens') = Len(tokens)
        /\ DOMAIN tokens' = DOMAIN tokens
        /\ tokens'[t] = y
        /\ \A s \in DOMAIN tokens \ {t} : tokens'[s] = tokens[s]
    BY <1>1, <1>2, <1>3
  <1>5. ASSUME NEW s \in DOMAIN tokens
        PROVE  /\ tokens'[s].user = tokens[s].user /\ tokens'[s].chain = tokens[s].chain
               /\ tokens'[s].sent = tokens[s].sent /\ tokens'[s].next = tokens[s].next
               /\ tokens[s].revoked # None => tokens'[s] = tokens[s]
               /\ tokens'[s].revoked = None => tokens[s].revoked = None
    <2>1. CASE s = t
      BY <1>2, <1>3, <1>4, <2>1
    <2>2. CASE s # t
      BY <1>4, <2>2
    <2> QED BY <2>1, <2>2
  <1>6. Keeps(tokens, tokens')
    BY <1>1, <1>4, <1>5 DEF Keeps
  <1>7. \A s \in DOMAIN tokens : Follows(tokens', s)
    BY <1>4, <1>5 DEF Follows, TokenInv, SentInv
  <1>8. TableStep
    BY <1>4, <1>5, <1>6, <1>7 DEF TableStep
  <1>9. Answer(d, Failure) /\ UNCHANGED <<now, attempt, held, cut>>
    BY DEF RefreshExpired, history
  <1>10. /\ DOMAIN replies' = Devices
         /\ \A e \in Devices : \A q \in replies'[e] : Known(tokens', q.tok)
    BY <1>6, <1>9, AnswerKnown DEF Failure, Known
  <1>11. DeviceStep
    BY <1>6, <1>9, <1>10, StaysKnown DEF DeviceStep, TokenInv, TokenTypes
  <1> QED BY <1>6, <1>8, <1>9, <1>11, TokenStepKeeps DEF CutStep

LEMMA CrashKeeps ==
    ASSUME TokenInv, NEW d \in Devices, NEW fits, CrashInRotation(d, fits)
    PROVE  TokenInv' /\ Keeps(tokens, tokens')
  <1> DEFINE t == held[d]
  <1>1. t \in 1..Len(tokens) /\ tokens[t].user \in Users /\ tokens[t].chain \in 1..t
    BY Presented DEF CrashInRotation
  <1>2. /\ tokens' = Append(tokens, NewToken(tokens[t].user, tokens[t].chain, FALSE))
        /\ Forget /\ UNCHANGED <<now, held, cut>>
    BY DEF CrashInRotation, history
  <1>3. tokens[t].chain \in 1..(Len(tokens) + 1)
    <2>1. Len(tokens) \in Nat
      BY DEF TokenInv, TokenTypes
    <2> QED BY <1>1, <2>1
  <1>4. TableStep /\ Keeps(tokens, tokens')
    BY <1>1, <1>2, <1>3, AddsRow DEF TableStep
  <1>5. DeviceStep
    BY <1>2, <1>4, StaysKnown DEF DeviceStep, Forget, TokenInv, TokenTypes
  <1> QED BY <1>2, <1>4, <1>5, TokenStepKeeps DEF CutStep

\* Steps that leave the table alone.
LEMMA DeliverKeeps ==
    ASSUME TokenInv, NEW d \in Devices, NEW r, Deliver(d, r) \/ Lose(d, r)
    PROVE  TokenInv'
  <1>1. /\ r \in replies[d]
        /\ replies' = [replies EXCEPT ![d] = @ \ {r}]
        /\ held' = held \/ held' = [held EXCEPT ![d] = r.tok]
        /\ UNCHANGED <<now, tokens, attempt, cut>>
    BY DEF Deliver, Lose, serverVars, history
  <1>2. TableStep
    BY <1>1, SameTable
  <1>3. DOMAIN replies' = Devices /\ DOMAIN held' = Devices
    BY <1>1 DEF TokenInv, TokenTypes
  <1>4. \A e \in Devices : replies'[e] \subseteq replies[e]
    BY <1>1 DEF TokenInv, TokenTypes
  <1>5. \A e \in Devices : Known(tokens, held'[e])
    BY <1>1 DEF TokenInv, TokenTypes, SentInv
  <1>6. DeviceStep
    BY <1>1, <1>3, <1>4, <1>5 DEF DeviceStep, TokenInv, TokenTypes, SentInv, Known
  <1> QED BY <1>1, <1>2, <1>6, TokenStepKeeps DEF CutStep

LEMMA QuietKeeps ==
    ASSUME TokenInv, UNCHANGED <<tokens, held, cut>>, now' \in Nat,
           attempt' \in [Devices -> Users \cup {None}],
           replies' = replies \/ replies' = [d \in Devices |-> {}]
    PROVE  TokenInv'
  <1>1. TableStep /\ Keeps(tokens, tokens')
    BY SameTable DEF TableStep
  <1>2. DeviceStep
    BY <1>1, StaysKnown DEF DeviceStep, TokenInv, TokenTypes
  <1> QED BY <1>1, <1>2, TokenStepKeeps DEF CutStep
-----------------------------------------------------------------------------
LEMMA TokenInit == Init => TokenInv
  <1> SUFFICES ASSUME Init PROVE TokenInv
    OBVIOUS
  <1>1. tokens = <<>> /\ tokens \in Seq(Token) /\ DOMAIN tokens = {} /\ Len(tokens) = 0
    BY DEF Init
  <1> QED
    BY <1>1 DEF Init, TokenInv, TokenTypes, SentInv, ChainInv, CutIsFinal, OneLiveTip, Known

LEMMA TokenStep == TokenInv /\ [Next]_vars => TokenInv' /\ Keeps(tokens, tokens')
  <1> SUFFICES ASSUME TokenInv, [Next]_vars
               PROVE  TokenInv' /\ Keeps(tokens, tokens')
    OBVIOUS
  <1> USE DEF serverVars, deviceVars, history
  <1>t. /\ now \in Nat /\ attempt \in [Devices -> Users \cup {None}]
        /\ UNCHANGED tokens => Keeps(tokens, tokens')
    BY SameTable DEF TokenInv, TokenTypes, TableStep
  <1>1. ASSUME NEW d \in Devices, NEW u \in Users, PasswordLogin(d, u)
        PROVE  TokenInv' /\ Keeps(tokens, tokens')
    BY <1>1, <1>t, QuietKeeps DEF PasswordLogin
  <1>2. ASSUME NEW d \in Devices, PasswordVerified(d)
        PROVE  TokenInv' /\ Keeps(tokens, tokens')
    BY <1>2, <1>t, GrantKeeps DEF PasswordVerified
  <1>3. ASSUME NEW d \in Devices, SessionLogin(d)
        PROVE  TokenInv' /\ Keeps(tokens, tokens')
    BY <1>3, <1>t, GrantKeeps DEF SessionLogin
  <1>4. ASSUME NEW d \in Devices, SessionRejected(d)
        PROVE  TokenInv' /\ Keeps(tokens, tokens')
    BY <1>4, <1>t, QuietKeeps DEF SessionRejected
  <1>5. ASSUME NEW d \in Devices, NEW fits \in BOOLEAN,
               \/ RefreshRotates(d, fits) \/ RefreshReplays(d, fits)
               \/ RefreshReuse(d, fits) \/ RefreshExpired(d, fits)
               \/ RefreshRefused(d, fits) \/ CrashInRotation(d, fits)
        PROVE  TokenInv' /\ Keeps(tokens, tokens')
    <2>1. CASE RefreshRotates(d, fits)
      BY <2>1, RotatesKeeps
    <2>2. CASE RefreshReplays(d, fits)
      BY <2>2, <1>t, ReplaysKeeps DEF RefreshReplays
    <2>3. CASE RefreshReuse(d, fits)
      BY <2>3, ReuseKeeps
    <2>4. CASE RefreshExpired(d, fits)
      BY <2>4, ExpiredKeeps
    <2>5. CASE RefreshRefused(d, fits)
      BY <2>5, <1>t, RefusedKeeps DEF RefreshRefused
    <2>6. CASE CrashInRotation(d, fits)
      BY <2>6, CrashKeeps
    <2> QED BY <1>5, <2>1, <2>2, <2>3, <2>4, <2>5, <2>6
  <1>6. ASSUME NEW d \in Devices, NEW r, Deliver(d, r) \/ Lose(d, r)
        PROVE  TokenInv' /\ Keeps(tokens, tokens')
    BY <1>6, <1>t, DeliverKeeps DEF Deliver, Lose
  <1>7. ASSUME NEW u \in Bannable, Ban(u) \/ Unban(u)
        PROVE  TokenInv' /\ Keeps(tokens, tokens')
    <2>1. CASE Ban(u)
      BY <2>1, BanKeeps, AuthAssumption
    <2>2. CASE Unban(u)
      BY <2>2, <1>t, QuietKeeps DEF Unban
    <2> QED BY <1>7, <2>1, <2>2
  <1>8. CASE Tick
    BY <1>8, <1>t, QuietKeeps DEF Tick
  <1>9. CASE Restart
    BY <1>9, <1>t, QuietKeeps DEF Restart, Forget
  <1>10. CASE UNCHANGED vars
    BY <1>10, <1>t, QuietKeeps DEF vars
  <1> QED
    BY <1>1, <1>2, <1>3, <1>4, <1>5, <1>6, <1>7, <1>8, <1>9, <1>10 DEF Next

LEMMA TokenInvHolds == Spec => []TokenInv
  BY TokenInit, TokenStep, PTL DEF Spec

\* However refreshes, retries and crashes interleave, of the tokens that were
\* sent for one login at most one can still be exchanged (refresh_session).
THEOREM OneUsableToken == Spec => []OneLiveTip
  BY TokenInvHolds, PTL DEF TokenInv

\* A ban or a detected reuse ends every token the user had, for good: neither
\* a replay nor a rotation under way brings one back (revoke_user_refresh_tokens).
THEOREM FamilyCutIsFinal == Spec => []CutIsFinal
  BY TokenInvHolds, PTL DEF TokenInv

\* No step changes a revoked row: the moment the grace window counts from and
\* the successor it may replay are fixed (revoke_refresh_token).
THEOREM RevokedStays == Spec => RevokedIsFinal
  <1>1. TokenInv /\ [Next]_vars
          => [\A t \in DOMAIN tokens : ~Live(t) => tokens'[t] = tokens[t]]_vars
    BY TokenStep DEF Keeps, Live
  <1> QED
    BY <1>1, TokenInvHolds, PTL DEF Spec, RevokedIsFinal
-----------------------------------------------------------------------------
(* The access sessions and the other types.                                *)

RestTypes ==
    /\ now <= MaxTime /\ Len(tokens) <= MaxTokens
    /\ sessions \in Seq(Session)
    /\ banned \subseteq Users
    /\ replies \in [Devices -> SUBSET Reply]
    /\ \A d \in Devices : IsFiniteSet(replies[d])
    /\ held \in [Devices -> Nat \cup {None}] /\ access \in [Devices -> Nat \cup {None}]
    /\ barred \in [Users -> Nat]

\* A ban cuts the family, so what is newer than the cut is newer than the ban.
BarInv == \A u \in Users : barred[u] <= cut[u]

AuthInv == RestTypes /\ BarInv /\ SessionsSound

LEMMA ImageFinite ==
    ASSUME NEW S, IsFiniteSet(S), NEW f
    PROVE  IsFiniteSet({f[x] : x \in S})
  <1> DEFINE T == {f[x] : x \in S}
             g == [x \in S |-> f[x]]
  <1>1. g \in Surjection(S, T)
    BY DEF Surjection
  <1> HIDE DEF g, T
  <1>2. IsFiniteSet(T)
    BY <1>1, FS_Surjection
  <1> QED BY <1>2 DEF T

\* token_hex finds an id nobody has: only finitely many are in use.
LEMMA FreshIdType ==
    ASSUME TokenInv, RestTypes
    PROVE  FreshId \in Nat
  <1>1. IsFiniteSet({sessions[i].id : i \in DOMAIN sessions})
    <2>1. IsFiniteSet(DOMAIN sessions)
      <3>1. DOMAIN sessions = 1..Len(sessions) /\ Len(sessions) \in Nat
        BY DEF RestTypes
      <3> QED BY <3>1, FS_Interval
    <2> DEFINE f == [i \in DOMAIN sessions |-> sessions[i].id]
    <2>2. IsFiniteSet({f[i] : i \in DOMAIN sessions})
      <3> HIDE DEF f
      <3> QED BY <2>1, ImageFinite
    <2> QED BY <2>2
  <1>2. IsFiniteSet({access[d] : d \in Devices} \ {None})
    <2>1. IsFiniteSet({access[d] : d \in Devices})
      BY ImageFinite, AuthAssumption
    <2> QED BY <2>1, FS_RemoveElement
  <1>3. IsFiniteSet({r.acc : r \in UNION {replies[d] : d \in Devices}})
    <2> DEFINE R == UNION {replies[d] : d \in Devices}
               f == [r \in R |-> r.acc]
    <2>1. IsFiniteSet(R)
      <3> DEFINE C == {replies[d] : d \in Devices}
      <3>1. IsFiniteSet(C)
        BY ImageFinite, AuthAssumption
      <3>2. \A T \in C : IsFiniteSet(T)
        BY DEF RestTypes
      <3> HIDE DEF C
      <3>3. IsFiniteSet(UNION C)
        BY <3>1, <3>2, FS_UNION
      <3> QED BY <3>3 DEF C
    <2>2. IsFiniteSet({f[r] : r \in R})
      <3> HIDE DEF f, R
      <3> QED BY <2>1, ImageFinite
    <2>3. {f[r] : r \in R} = {r.acc : r \in R}
      OBVIOUS
    <2> QED BY <2>2, <2>3
  <1>4. IsFiniteSet(UsedIds)
    <2> DEFINE A == {sessions[i].id : i \in DOMAIN sessions}
               B == {access[d] : d \in Devices} \ {None}
               C == {r.acc : r \in UNION {replies[d] : d \in Devices}}
    <2>1. UsedIds = (A \cup B) \cup C
      BY DEF UsedIds
    <2> HIDE DEF A, B, C
    <2>2. IsFiniteSet(A) /\ IsFiniteSet(B) /\ IsFiniteSet(C)
      BY <1>1, <1>2, <1>3 DEF A, B, C
    <2>3. IsFiniteSet(A \cup B)
      BY <2>2, FS_Union
    <2> QED BY <2>1, <2>2, <2>3, FS_Union
  <1> DEFINE n == Cardinality(UsedIds)
  <1>5. n \in Nat
    BY <1>4, FS_CardinalityType
  <1>6. \E m \in 1..(n + 1) : m \notin UsedIds
    <2> SUFFICES ASSUME 1..(n + 1) \in SUBSET UsedIds PROVE FALSE
      OBVIOUS
    <2>1. Cardinality(1..(n + 1)) = n + 1
      BY <1>5, FS_Interval
    <2>2. Cardinality(1..(n + 1)) <= n
      BY <1>4, FS_Subset
    <2> QED BY <1>5, <2>1, <2>2
  <1>7. FreshId = CHOOSE m \in 1..(n + 1) : m \notin UsedIds
    BY DEF FreshId
  <1> HIDE DEF n
  <1>8. FreshId \in 1..(n + 1)
    BY <1>6, <1>7
  <1> QED BY <1>5, <1>8

\* The sessions of u, as the entries of a kind.
Own(u) == {x \in Session : x.user = u}

LEMMA OwnPlaces ==
    ASSUME NEW S \in Seq(Session), NEW u
    PROVE  /\ Places(S, Own(u)) = {i \in DOMAIN S : S[i].user = u}
           /\ IsFiniteSet(Places(S, Own(u)))
  <1>1. \A i \in DOMAIN S : S[i] \in Session
    OBVIOUS
  <1>2. Places(S, Own(u)) = {i \in DOMAIN S : S[i].user = u}
    BY <1>1 DEF Places, Own
  <1>3. IsFiniteSet(DOMAIN S) /\ Places(S, Own(u)) \in SUBSET DOMAIN S
    <2>1. DOMAIN S = 1..Len(S) /\ Len(S) \in Nat
      OBVIOUS
    <2> QED BY <2>1, FS_Interval DEF Places
  <1> QED BY <1>2, <1>3, FS_Subset

\* Sessions are dropped: expired, logged out or of a banned user.
LEMMA FewerSessions ==
    ASSUME NEW S \in Seq(Session), NEW kept \in SUBSET DOMAIN S
    PROVE  LET K == Keeping(S, kept) IN
           /\ K \in Seq(Session)
           /\ \A k \in DOMAIN K : \E i \in kept : K[k] = S[i]
           /\ \A u : Cardinality(Places(K, Own(u))) <= Cardinality(Places(S, Own(u)))
           /\ \A u : Cardinality(Places(K, Own(u))) = Cardinality(kept \cap Places(S, Own(u)))
  <1> DEFINE K == Keeping(S, kept)
  <1>1. /\ K \in Seq(Session)
        /\ \A k \in DOMAIN K : \E i \in kept : K[k] = S[i]
    BY KeepingType
  <1>2. ASSUME NEW u
        PROVE  /\ Cardinality(Places(K, Own(u))) <= Cardinality(Places(S, Own(u)))
               /\ Cardinality(Places(K, Own(u))) = Cardinality(kept \cap Places(S, Own(u)))
    <2>1. Cardinality(Places(K, Own(u))) = Cardinality(kept \cap Places(S, Own(u)))
      BY KeepingCount
    <2>2. IsFiniteSet(Places(S, Own(u)))
      BY OwnPlaces
    <2>3. kept \cap Places(S, Own(u)) \in SUBSET Places(S, Own(u))
      OBVIOUS
    <2>4. Cardinality(kept \cap Places(S, Own(u))) <= Cardinality(Places(S, Own(u)))
      BY <2>2, <2>3, FS_Subset
    <2> QED BY <2>1, <2>4
  <1> QED BY <1>1, <1>2

\* Of a set of positions, fewer than m have fewer than m positions from them on.
LEMMA FewLast ==
    ASSUME NEW P \in SUBSET Nat, IsFiniteSet(P), NEW m \in Nat \ {0}
    PROVE  Cardinality({i \in P : Cardinality({j \in P : j >= i}) < m}) < m
  <1> DEFINE rest(i) == {j \in P : j >= i}
             L == {i \in P : Cardinality(rest(i)) < m}
  <1>1. CASE L = {}
    <2>1. Cardinality(L) = 0
      BY <1>1, FS_EmptySet
    <2> QED BY <2>1
  <1>2. CASE L # {}
    <2>1. PICK i \in L : \A j \in L : i <= j
      <3>1. L \in SUBSET Nat
        OBVIOUS
      <3> HIDE DEF L
      <3> QED BY <1>2, <3>1, Least
    <2>2. L \in SUBSET rest(i) /\ rest(i) \in SUBSET P /\ Cardinality(rest(i)) < m
      BY <2>1
    <2> HIDE DEF L, rest
    <2>3. IsFiniteSet(rest(i)) /\ Cardinality(rest(i)) \in Nat
      BY <2>2, FS_Subset, FS_CardinalityType
    <2>4. IsFiniteSet(L) /\ Cardinality(L) <= Cardinality(rest(i)) /\ Cardinality(L) \in Nat
      BY <2>2, <2>3, FS_Subset, FS_CardinalityType
    <2>5. Cardinality(L) < m
      BY <2>2, <2>3, <2>4
    <2> QED BY <2>5 DEF L, rest
  <1> QED BY <1>1, <1>2

\* create_session: the new session is of a token newer than the ban, and there
\* was a place for it.
LEMMA SessionCreated ==
    ASSUME TokenInv, AuthInv, NEW u \in Users, NEW k \in Nat, barred[u] < k,
           sessions' = CreateSession(u, FreshId, k), barred' = barred
    PROVE  sessions' \in Seq(Session) /\ SessionsSound'
  <1> DEFINE S == sessions
             valid == {i \in DOMAIN S : S[i].exp > now}
             mine == SessionsOf(u) \cap valid
             last == {i \in mine : Cardinality({j \in mine : j >= i}) < MaxSessions}
             kept == {i \in valid : i \in mine => i \in last}
             x == [id |-> FreshId, user |-> u, exp |-> now + AccessTTL, tok |-> k]
             K == Keeping(S, kept)
  <1>1. /\ S \in Seq(Session) /\ kept \in SUBSET DOMAIN S
        /\ barred \in [Users -> Nat] /\ MaxSessions \in Nat \ {0}
        /\ now \in Nat /\ AccessTTL \in Nat
    BY AuthAssumption DEF AuthInv, RestTypes, TokenInv, TokenTypes
  <1>2. x \in Session /\ x.user = u /\ x.tok = k
    <2>1. FreshId \in Nat
      BY FreshIdType DEF AuthInv
    <2> HIDE DEF S, kept
    <2> QED BY <1>1, <2>1 DEF Session
  <1>3. sessions' = Append(K, x)
    <2>1. kept = {i \in valid : i \in mine => Cardinality({j \in mine : j >= i}) < MaxSessions}
      OBVIOUS
    <2> QED BY <2>1 DEF CreateSession
  <1>4. mine = SessionsOf(u) \cap valid /\ SessionsOf(u) = Places(S, Own(u))
    BY <1>1, OwnPlaces DEF SessionsOf
  <1>5. kept \cap Places(S, Own(u)) = last
    BY <1>4
  <1>6. Cardinality(last) < MaxSessions
    <2>1. mine \in SUBSET Nat
      BY <1>1
    <2>2. IsFiniteSet(SessionsOf(u)) /\ mine \in SUBSET SessionsOf(u)
      BY <1>1, <1>4, OwnPlaces
    <2> HIDE DEF mine
    <2>3. IsFiniteSet(mine)
      BY <2>2, FS_Subset
    <2> QED BY <1>1, <2>1, <2>3, FewLast
  <1> HIDE DEF K, x, kept, last, mine, valid, S
  <1>7. /\ K \in Seq(Session)
        /\ \A i \in DOMAIN K : \E j \in kept : K[i] = S[j]
        /\ \A v : Cardinality(Places(K, Own(v))) <= Cardinality(Places(S, Own(v)))
        /\ \A v : Cardinality(Places(K, Own(v))) = Cardinality(kept \cap Places(S, Own(v)))
    BY <1>1, FewerSessions DEF K
  <1>8. /\ sessions' \in Seq(Session) /\ Len(K) \in Nat
        /\ DOMAIN sessions' = 1..(Len(K) + 1) /\ DOMAIN K = 1..Len(K)
        /\ sessions'[Len(K) + 1] = x
        /\ \A i \in DOMAIN K : sessions'[i] = K[i]
    BY <1>2, <1>3, <1>7
  <1>9. \A i \in DOMAIN sessions' : sessions'[i].tok > barred[sessions'[i].user]
    <2>1. \A j \in DOMAIN S : S[j].tok > barred[S[j].user]
      BY DEF S, AuthInv, SessionsSound
    <2>2. ASSUME NEW i \in DOMAIN sessions'
          PROVE  sessions'[i].tok > barred[sessions'[i].user]
      <3>1. CASE i \in DOMAIN K
        BY <1>1, <1>7, <1>8, <2>1, <3>1
      <3>2. CASE i \notin DOMAIN K
        <4>1. sessions'[i] = x
          BY <1>8, <3>2
        <4> QED BY <1>1, <1>2, <4>1
      <3> QED BY <3>1, <3>2
    <2> QED BY <2>2
  <1>10. ASSUME NEW v \in Users
         PROVE  Cardinality(Places(sessions', Own(v))) <= MaxSessions
    <2>1. IsFiniteSet(Places(K, Own(v))) /\ Cardinality(Places(K, Own(v))) \in Nat
      BY <1>7, OwnPlaces, FS_CardinalityType
    <2>2. CASE v # u
      <3>1. Places(sessions', Own(v)) = Places(K, Own(v))
        BY <1>2, <1>8, <2>2 DEF Places, Own
      <3>2. Cardinality(Places(S, Own(v))) <= MaxSessions
        <4>1. SessionsOf(v) = Places(S, Own(v))
          BY <1>1, OwnPlaces DEF SessionsOf, S
        <4> QED BY <4>1 DEF AuthInv, SessionsSound
      <3>3. IsFiniteSet(Places(S, Own(v))) /\ Cardinality(Places(S, Own(v))) \in Nat
        BY <1>1, OwnPlaces, FS_CardinalityType
      <3> QED BY <1>1, <1>7, <2>1, <3>1, <3>2, <3>3
    <2>3. CASE v = u
      <3>1. Places(sessions', Own(u)) = Places(K, Own(u)) \cup {Len(K) + 1}
        BY <1>2, <1>8 DEF Places, Own
      <3>2. Cardinality(Places(K, Own(u))) < MaxSessions
        BY <1>5, <1>6, <1>7
      <3>3. Cardinality(Places(K, Own(u)) \cup {Len(K) + 1})
               <= Cardinality(Places(K, Own(u))) + 1
        <4> DEFINE P == Places(K, Own(u))
                   n == Len(K) + 1
        <4> HIDE DEF P, n
        <4>1. IsFiniteSet(P) /\ Cardinality(P) \in Nat
          BY <2>1, <2>3 DEF P
        <4>2. Cardinality(P \cup {n}) = IF n \in P THEN Cardinality(P) ELSE Cardinality(P) + 1
          BY <4>1, FS_AddElement
        <4>3. Cardinality(P \cup {n}) <= Cardinality(P) + 1
          BY <4>1, <4>2
        <4> QED BY <4>3 DEF P, n
      <3>4. Cardinality(Places(K, Own(u)) \cup {Len(K) + 1}) \in Nat
        BY <2>1, <2>3, FS_AddElement, FS_CardinalityType
      <3> QED BY <1>1, <2>1, <2>3, <3>1, <3>2, <3>3, <3>4
    <2> QED BY <2>2, <2>3
  <1>11. \A v \in Users : Cardinality(SessionsOf(v)') <= MaxSessions
    <2>1. ASSUME NEW v \in Users
          PROVE  SessionsOf(v)' = Places(sessions', Own(v))
      BY <1>8, OwnPlaces DEF SessionsOf
    <2> QED BY <1>10, <2>1
  <1> QED BY <1>8, <1>9, <1>11 DEF SessionsSound

LEMMA SessionsDropped ==
    ASSUME AuthInv, NEW kept \in SUBSET DOMAIN sessions,
           sessions' = Keeping(sessions, kept), barred' \in [Users -> Nat],
           \A i \in kept : sessions[i].tok > barred'[sessions[i].user]
    PROVE  sessions' \in Seq(Session) /\ SessionsSound'
  <1>1. sessions \in Seq(Session)
    BY DEF AuthInv, RestTypes
  <1>2. /\ sessions' \in Seq(Session)
        /\ \A k \in DOMAIN sessions' : \E i \in kept : sessions'[k] = sessions[i]
        /\ \A u : Cardinality(Places(sessions', Own(u))) <= Cardinality(Places(sessions, Own(u)))
    BY <1>1, FewerSessions
  <1>3. \A k \in DOMAIN sessions' : sessions'[k].tok > barred'[sessions'[k].user]
    BY <1>2
  <1>4. ASSUME NEW u \in Users
        PROVE  Cardinality(SessionsOf(u)') <= MaxSessions
    <2>1. SessionsOf(u) = Places(sessions, Own(u)) /\ SessionsOf(u)' = Places(sessions', Own(u))
      BY <1>1, <1>2, OwnPlaces DEF SessionsOf
    <2>2. /\ IsFiniteSet(Places(sessions, Own(u))) /\ IsFiniteSet(Places(sessions', Own(u)))
          /\ Cardinality(Places(sessions, Own(u))) \in Nat
          /\ Cardinality(Places(sessions', Own(u))) \in Nat
      BY <1>1, <1>2, OwnPlaces, FS_CardinalityType
    <2>3. Cardinality(Places(sessions, Own(u))) <= MaxSessions
      BY <2>1 DEF AuthInv, SessionsSound
    <2> QED BY <1>2, <2>1, <2>2, <2>3, AuthAssumption
  <1> QED BY <1>2, <1>3, <1>4 DEF SessionsSound

\* Sessions stay, or are lost with the process.
LEMMA SessionsSame ==
    ASSUME AuthInv, sessions' = sessions \/ sessions' = <<>>, barred' = barred
    PROVE  sessions' \in Seq(Session) /\ SessionsSound'
  <1>1. CASE sessions' = sessions
    BY <1>1 DEF AuthInv, RestTypes, SessionsSound, SessionsOf
  <1>2. CASE sessions' = <<>>
    <2>1. sessions' \in Seq(Session) /\ DOMAIN sessions' = {}
      BY <1>2
    <2>2. \A u \in Users : SessionsOf(u)' = {}
      BY <2>1 DEF SessionsOf
    <2>3. Cardinality({}) <= MaxSessions
      BY FS_EmptySet, AuthAssumption
    <2> QED BY <2>1, <2>2, <2>3 DEF SessionsSound
  <1> QED BY <1>1, <1>2

LEMMA AnswerTyped ==
    ASSUME RestTypes, NEW d \in Devices, NEW r \in Reply, Answer(d, r)
    PROVE  /\ replies' \in [Devices -> SUBSET Reply]
           /\ \A e \in Devices : IsFiniteSet(replies'[e])
  <1>1. /\ replies \in [Devices -> SUBSET Reply]
        /\ replies' = [replies EXCEPT ![d] = replies[d] \cup {r}]
    BY DEF RestTypes, Answer
  <1>2. IsFiniteSet(replies[d] \cup {r})
    BY FS_AddElement DEF RestTypes
  <1> QED BY <1>1, <1>2 DEF RestTypes

\* The row a session is issued with: a login's or a rotation's new row, or the
\* successor that is sent again.
LEMMA NewerThanBan ==
    ASSUME TokenInv, AuthInv, NEW u \in Users
    PROVE  /\ barred[u] < NextRow /\ NextRow \in Nat
           /\ \A t \in DOMAIN tokens : Live(t) /\ tokens[t].user = u => barred[u] < t
  <1>1. /\ Len(tokens) \in Nat /\ DOMAIN tokens = 1..Len(tokens)
        /\ cut[u] \in Nat /\ barred[u] \in Nat
        /\ barred[u] <= cut[u] /\ cut[u] <= Len(tokens)
    BY DEF TokenInv, TokenTypes, ChainInv, AuthInv, RestTypes, BarInv
  <1>2. \A t \in DOMAIN tokens : Live(t) /\ tokens[t].user = u => cut[u] < t
    BY DEF TokenInv, CutIsFinal
  <1> QED BY <1>1, <1>2 DEF NextRow

LEMMA GrantRest ==
    ASSUME TokenInv, AuthInv, NEW d \in Devices, NEW u \in Users, Grant(d, u), barred' = barred
    PROVE  /\ Len(tokens') <= MaxTokens
           /\ sessions' \in Seq(Session) /\ SessionsSound'
           /\ replies' \in [Devices -> SUBSET Reply]
           /\ \A e \in Devices : IsFiniteSet(replies'[e])
  <1>1. barred[u] < NextRow /\ NextRow \in Nat
    BY NewerThanBan
  <1>2. sessions' \in Seq(Session) /\ SessionsSound'
    BY <1>1, SessionCreated DEF Grant
  <1>3. [tok |-> NextRow, acc |-> FreshId] \in Reply
    BY <1>1, FreshIdType DEF Reply, AuthInv
  <1>4. /\ replies' \in [Devices -> SUBSET Reply]
        /\ \A e \in Devices : IsFiniteSet(replies'[e])
    <2>1. Answer(d, [tok |-> NextRow, acc |-> FreshId]) /\ RestTypes
      BY DEF Grant, AuthInv
    <2> QED BY <1>3, <2>1, AnswerTyped
  <1>5. Len(tokens') <= MaxTokens
    BY DEF Grant, NextRow, TokenInv, TokenTypes
  <1> QED BY <1>2, <1>4, <1>5

LEMMA AuthInit == Init => AuthInv
  <1> SUFFICES ASSUME Init PROVE AuthInv
    OBVIOUS
  <1>1. /\ tokens = <<>> /\ Len(tokens) = 0 /\ DOMAIN sessions = {} /\ sessions \in Seq(Session)
        /\ now = 0 /\ MaxTime \in Nat /\ MaxTokens \in Nat /\ MaxSessions \in Nat
    BY AuthAssumption DEF Init
  <1>2. \A u \in Users : SessionsOf(u) = {}
    BY <1>1 DEF SessionsOf
  <1>3. IsFiniteSet({}) /\ Cardinality({}) = 0
    BY FS_EmptySet
  <1>4. SessionsSound
    <2>1. \A u \in Users : Cardinality(SessionsOf(u)) <= MaxSessions
      <3> SUFFICES ASSUME NEW u \in Users PROVE Cardinality(SessionsOf(u)) <= MaxSessions
        OBVIOUS
      <3>1. Cardinality(SessionsOf(u)) = 0
        BY <1>2, <1>3
      <3> QED BY <1>1, <3>1
    <2>2. \A i \in DOMAIN sessions : FALSE
      BY <1>1
    <2> QED BY <2>1, <2>2 DEF SessionsSound
  <1>5. RestTypes /\ BarInv
    BY <1>1, <1>3 DEF Init, RestTypes, BarInv
  <1> QED BY <1>4, <1>5 DEF AuthInv

LEMMA RefreshRest ==
    ASSUME TokenInv, AuthInv, NEW d \in Devices, NEW fits,
           \/ RefreshRotates(d, fits) \/ RefreshReplays(d, fits)
           \/ RefreshReuse(d, fits) \/ RefreshExpired(d, fits)
           \/ RefreshRefused(d, fits) \/ CrashInRotation(d, fits)
    PROVE  AuthInv'
  <1> DEFINE t == held[d]
             u == tokens[t].user
  <1>1. t \in DOMAIN tokens /\ u \in Users
    BY Presented
    DEF RefreshRotates, RefreshReplays, RefreshReuse, RefreshExpired, RefreshRefused,
        CrashInRotation
  <1>2. /\ RestTypes /\ Len(tokens) \in Nat /\ tokens \in Seq(Token)
        /\ barred[u] < NextRow /\ NextRow \in Nat
        /\ Failure \in Reply
    BY <1>1, NewerThanBan DEF AuthInv, TokenInv, TokenTypes, Reply
  <1>3. UNCHANGED <<now, banned, held, access, barred>>
    BY DEF RefreshRotates, RefreshReplays, RefreshReuse, RefreshExpired, RefreshRefused,
           CrashInRotation, history, serverVars
  <1>4. BarInv'
    <2>1. cut' = cut \/ cut' = [cut EXCEPT ![u] = Len(tokens)]
      BY DEF RefreshRotates, RefreshReplays, RefreshReuse, RefreshExpired, RefreshRefused,
             CrashInRotation, history
    <2>2. \A v \in Users : barred[v] <= cut[v] /\ barred[v] < NextRow /\ barred[v] \in Nat
      BY <1>2, NewerThanBan DEF AuthInv, BarInv, RestTypes
    <2> QED BY <1>2, <1>3, <2>1, <2>2 DEF BarInv, NextRow, TokenInv, TokenTypes
  <1>5. CASE RefreshRotates(d, fits)
    <2>1. sessions' \in Seq(Session) /\ SessionsSound'
      BY <1>1, <1>2, <1>3, <1>5, SessionCreated DEF RefreshRotates
    <2>2. [tok |-> NextRow, acc |-> FreshId] \in Reply
      BY <1>2, FreshIdType DEF Reply
    <2>3. Answer(d, [tok |-> NextRow, acc |-> FreshId])
      BY <1>5 DEF RefreshRotates
    <2>4. /\ replies' \in [Devices -> SUBSET Reply]
          /\ \A e \in Devices : IsFiniteSet(replies'[e])
      BY <1>2, <2>2, <2>3, AnswerTyped
    <2>5. Len(tokens') <= MaxTokens
      BY <1>2, <1>5 DEF RefreshRotates, Rotate, NextRow
    <2> QED BY <1>2, <1>3, <1>4, <2>1, <2>4, <2>5 DEF AuthInv, RestTypes
  <1>6. CASE RefreshReplays(d, fits)
    <2> DEFINE s == tokens[t].next
    <2>1. s \in DOMAIN tokens /\ tokens[s].user = u /\ Live(s) /\ s \in Nat
      <3>1. Follows(tokens, t) /\ s # None
        BY <1>1, <1>6 DEF TokenInv, SentInv, RefreshReplays, Rotated
      <3>2. Live(s)
        BY <1>6 DEF RefreshReplays, Replayable
      <3> QED BY <1>2, <3>1, <3>2 DEF Follows
    <2>2. barred[u] < s
      BY <1>1, <2>1, NewerThanBan
    <2>3. sessions' = CreateSession(u, FreshId, s) /\ Answer(d, [tok |-> s, acc |-> FreshId])
      BY <1>6 DEF RefreshReplays
    <2> HIDE DEF s
    <2>4. sessions' \in Seq(Session) /\ SessionsSound'
      BY <1>1, <1>3, <2>1, <2>2, <2>3, SessionCreated
    <2>5. [tok |-> s, acc |-> FreshId] \in Reply
      BY <1>2, <2>1, FreshIdType DEF Reply
    <2>6. /\ replies' \in [Devices -> SUBSET Reply]
          /\ \A e \in Devices : IsFiniteSet(replies'[e])
      BY <1>2, <2>3, <2>5, AnswerTyped
    <2>7. tokens' = tokens
      BY <1>6 DEF RefreshReplays
    <2> QED BY <1>2, <1>3, <1>4, <2>4, <2>6, <2>7 DEF AuthInv, RestTypes
  <1>7. CASE RefreshReuse(d, fits) \/ RefreshExpired(d, fits) \/ RefreshRefused(d, fits)
    <2>1. sessions' = sessions /\ Answer(d, Failure)
      BY <1>7 DEF RefreshReuse, RefreshExpired, RefreshRefused, serverVars
    <2>2. sessions' \in Seq(Session) /\ SessionsSound'
      BY <1>3, <2>1, SessionsSame
    <2>3. /\ replies' \in [Devices -> SUBSET Reply]
          /\ \A e \in Devices : IsFiniteSet(replies'[e])
      BY <1>2, <2>1, AnswerTyped
    <2>4. Len(tokens') = Len(tokens)
      <3>1. CASE RefreshReuse(d, fits)
        <4>1. tokens' = RevokeFamily(u)
          BY <3>1 DEF RefreshReuse
        <4> QED BY <1>1, <4>1, RevokedFamily DEF TokenInv
      <3>2. CASE RefreshExpired(d, fits)
        BY <1>2, <3>2 DEF RefreshExpired
      <3>3. CASE RefreshRefused(d, fits)
        BY <3>3 DEF RefreshRefused, serverVars
      <3> QED BY <1>7, <3>1, <3>2, <3>3
    <2> QED BY <1>2, <1>3, <1>4, <2>2, <2>3, <2>4 DEF AuthInv, RestTypes
  <1>8. CASE CrashInRotation(d, fits)
    <2>1. Forget /\ Len(tokens') <= MaxTokens
      BY <1>2, <1>8 DEF CrashInRotation, NextRow
    <2>2. sessions' \in Seq(Session) /\ SessionsSound'
      BY <1>3, <2>1, SessionsSame DEF Forget
    <2>3. /\ replies' \in [Devices -> SUBSET Reply]
          /\ \A e \in Devices : IsFiniteSet(replies'[e])
      BY <2>1, FS_EmptySet DEF Forget
    <2> QED BY <1>2, <1>3, <1>4, <2>1, <2>2, <2>3 DEF AuthInv, RestTypes
  <1> QED BY <1>5, <1>6, <1>7, <1>8

LEMMA AuthStep == TokenInv /\ AuthInv /\ [Next]_vars => AuthInv'
  <1> SUFFICES ASSUME TokenInv, AuthInv, [Next]_vars PROVE AuthInv'
    OBVIOUS
  <1> USE DEF serverVars, deviceVars, history
  <1>t. RestTypes /\ BarInv /\ AccessTTL \in Nat /\ None \notin Nat
    BY AuthAssumption DEF AuthInv
  <1>1. ASSUME NEW d \in Devices, NEW u \in Users, PasswordLogin(d, u)
        PROVE  AuthInv'
    <2>1. SessionsSound'
      BY <1>1, SessionsSame DEF PasswordLogin
    <2> QED BY <1>1, <1>t, <2>1 DEF PasswordLogin, AuthInv, RestTypes, BarInv
  <1>2. ASSUME NEW d \in Devices, NEW u \in Users, Grant(d, u),
               UNCHANGED <<now, banned, held, access, cut, barred>>
        PROVE  AuthInv'
    BY <1>2, <1>t, GrantRest DEF AuthInv, RestTypes, BarInv
  <1>3. ASSUME NEW d \in Devices, PasswordVerified(d)
        PROVE  AuthInv'
    <2>1. attempt[d] \in Users
      BY <1>3 DEF PasswordVerified, TokenInv, TokenTypes
    <2> QED BY <1>2, <1>3, <2>1 DEF PasswordVerified
  <1>4. ASSUME NEW d \in Devices, SessionLogin(d)
        PROVE  AuthInv'
    BY <1>2, <1>4 DEF SessionLogin
  <1>5. ASSUME NEW d \in Devices, SessionRejected(d)
        PROVE  AuthInv'
    <2> DEFINE kept == {i \in DOMAIN sessions : sessions[i].id # access[d]}
    <2>1. /\ sessions' = Keeping(sessions, kept)
          /\ access' = [access EXCEPT ![d] = None]
          /\ UNCHANGED <<now, tokens, banned, replies, held, cut, barred>>
      BY <1>5 DEF SessionRejected
    <2>2. \A i \in kept : sessions[i].tok > barred[sessions[i].user]
      BY DEF AuthInv, SessionsSound
    <2>3. kept \in SUBSET DOMAIN sessions
      OBVIOUS
    <2> HIDE DEF kept
    <2>4. sessions' \in Seq(Session) /\ SessionsSound'
      BY <1>t, <2>1, <2>2, <2>3, SessionsDropped DEF RestTypes
    <2> QED BY <1>t, <2>1, <2>4 DEF AuthInv, RestTypes, BarInv
  <1>6. ASSUME NEW d \in Devices, NEW r \in replies[d], Deliver(d, r) \/ Lose(d, r)
        PROVE  AuthInv'
    <2>1. SessionsSound'
      BY <1>6, SessionsSame DEF Deliver, Lose
    <2>2. r \in Reply
      BY <1>t DEF RestTypes
    <2>3. r.tok \in Nat \cup {None} /\ r.acc \in Nat \cup {None}
      BY <2>2 DEF Reply, Failure
    <2>4. /\ held' \in [Devices -> Nat \cup {None}]
          /\ access' \in [Devices -> Nat \cup {None}]
      BY <1>6, <1>t, <2>3 DEF Deliver, Lose, RestTypes
    <2>5. /\ replies' \in [Devices -> SUBSET Reply]
          /\ \A e \in Devices : IsFiniteSet(replies'[e])
      <3>1. replies' = [replies EXCEPT ![d] = replies[d] \ {r}]
        BY <1>6 DEF Deliver, Lose
      <3>2. IsFiniteSet(replies[d] \ {r})
        BY <1>t, FS_RemoveElement DEF RestTypes
      <3> QED BY <1>t, <3>1, <3>2 DEF RestTypes
    <2> QED BY <1>6, <1>t, <2>1, <2>4, <2>5 DEF Deliver, Lose, AuthInv, RestTypes, BarInv
  <1>7. ASSUME NEW u \in Users, Ban(u)
        PROVE  AuthInv'
    <2> DEFINE kept == DOMAIN sessions \ SessionsOf(u)
    <2>1. /\ sessions' = Keeping(sessions, kept)
          /\ banned' = banned \cup {u}
          /\ tokens' = RevokeFamily(u)
          /\ cut' = [cut EXCEPT ![u] = Len(tokens)]
          /\ barred' = [barred EXCEPT ![u] = Len(tokens)]
          /\ UNCHANGED <<now, replies, held, access>>
      BY <1>7 DEF Ban
    <2>2. /\ Len(tokens) \in Nat /\ barred \in [Users -> Nat] /\ cut \in [Users -> Nat]
          /\ sessions \in Seq(Session)
      BY <1>t DEF TokenInv, TokenTypes, RestTypes
    <2>3. \A i \in kept : sessions[i].tok > barred'[sessions[i].user]
      <3> SUFFICES ASSUME NEW i \in kept PROVE sessions[i].tok > barred'[sessions[i].user]
        OBVIOUS
      <3>1. i \in DOMAIN sessions /\ sessions[i].user # u
        BY DEF SessionsOf
      <3>2. sessions[i].user \in Users
        <4>1. sessions[i] \in Session
          BY <2>2, <3>1
        <4> QED BY <4>1 DEF Session
      <3>3. sessions[i].tok > barred[sessions[i].user]
        BY <3>1 DEF AuthInv, SessionsSound
      <3> QED BY <2>1, <2>2, <3>1, <3>2, <3>3
    <2>4. kept \in SUBSET DOMAIN sessions
      OBVIOUS
    <2>5. barred' \in [Users -> Nat]
      BY <2>1, <2>2
    <2> HIDE DEF kept
    <2>6. sessions' \in Seq(Session) /\ SessionsSound'
      BY <2>1, <2>3, <2>4, <2>5, SessionsDropped
    <2>7. Len(tokens') = Len(tokens)
      BY <2>1, RevokedFamily DEF TokenInv
    <2>8. BarInv'
      BY <1>t, <2>1, <2>2 DEF BarInv
    <2> QED BY <1>t, <2>1, <2>5, <2>6, <2>7, <2>8 DEF AuthInv, RestTypes
  <1>8. ASSUME NEW u \in Users, Unban(u)
        PROVE  AuthInv'
    <2>1. SessionsSound'
      BY <1>8, SessionsSame DEF Unban
    <2> QED BY <1>8, <1>t, <2>1 DEF Unban, AuthInv, RestTypes, BarInv
  <1>9. CASE Tick
    <2>1. SessionsSound'
      BY <1>9, SessionsSame DEF Tick
    <2>2. now' <= MaxTime
      BY <1>9, AuthAssumption DEF Tick, TokenInv, TokenTypes
    <2> QED BY <1>9, <1>t, <2>1, <2>2 DEF Tick, AuthInv, RestTypes, BarInv
  <1>10. CASE Restart
    <2>1. sessions' \in Seq(Session) /\ SessionsSound'
      BY <1>10, SessionsSame DEF Restart, Forget
    <2>2. /\ replies' \in [Devices -> SUBSET Reply]
          /\ \A e \in Devices : IsFiniteSet(replies'[e])
      BY <1>10, FS_EmptySet DEF Restart, Forget
    <2> QED BY <1>10, <1>t, <2>1, <2>2 DEF Restart, AuthInv, RestTypes, BarInv
  <1>11. CASE UNCHANGED vars
    <2>1. SessionsSound'
      BY <1>11, SessionsSame DEF vars
    <2> QED BY <1>11, <1>t, <2>1 DEF vars, AuthInv, RestTypes, BarInv
  <1>12. Bannable \subseteq Users
    BY AuthAssumption
  <1> QED
    BY <1>1, <1>3, <1>4, <1>5, <1>6, <1>7, <1>8, <1>9, <1>10, <1>11, <1>12, RefreshRest
    DEF Next

LEMMA AuthHolds == Spec => [](TokenInv /\ AuthInv)
  BY TokenInit, TokenStep, AuthInit, AuthStep, PTL DEF Spec

\* The tables of tokens and sessions, the packets under way and what devices
\* store keep their types and bounds.
THEOREM AuthTypeCorrect == Spec => []TypeOK
  <1>1. TokenInv /\ AuthInv => TypeOK
    <2> SUFFICES ASSUME TokenInv, AuthInv PROVE TypeOK
      OBVIOUS
    <2>1. RestTypes /\ TokenTypes /\ SentInv
      BY DEF TokenInv, AuthInv
    <2>2. held \in [Devices -> DOMAIN tokens \cup {None}]
      BY <2>1 DEF RestTypes, SentInv, Known
    <2>3. \A t \in DOMAIN tokens : tokens[t].next # None => tokens[t].next \in DOMAIN tokens
      BY <2>1 DEF SentInv, Follows
    <2>4. now \in 0..MaxTime
      BY <2>1, AuthAssumption DEF RestTypes, TokenTypes
    <2> QED BY <2>1, <2>2, <2>3, <2>4 DEF TypeOK, RestTypes, TokenTypes
  <1> QED BY <1>1, AuthHolds, PTL

\* An access session issued before a ban never outlives it, not even one that
\* an answer still under way or a replayed rotation carries, and no user holds
\* more than _MAX_SESSIONS_PER_USER (create_session, invalidate_user_sessions).
THEOREM SessionsStaySound == Spec => []SessionsSound
  BY AuthHolds, PTL DEF AuthInv
-----------------------------------------------------------------------------
(* Devices that ask one thing at a time and retry in time.                 *)

\* The rows a device has, or is being sent.
Of(d) == {t \in DOMAIN tokens : t = held[d] \/ \E r \in replies[d] : r.tok = t}

\* A successor is of the same login and lives as long at least; a live row has none.
RowSound(t) ==
    /\ tokens[t].exp <= now + RefreshTTL
    /\ Live(t) => ~Rotated(t)
    /\ Rotated(t) => /\ tokens[tokens[t].next].chain = tokens[t].chain
                     /\ tokens[tokens[t].next].exp >= tokens[t].exp
RowsInv == \A t \in DOMAIN tokens : RowSound(t)

\* No two devices have rows of one login.
AloneInv ==
    \A d, e \in Devices : d # e =>
        \A s \in Of(d), t \in Of(e) : tokens[s].chain # tokens[t].chain

\* Nothing is answered while a password is verified, and one answer is under way.
OneAtATime ==
    \A d \in Devices : /\ attempt[d] # None => replies[d] = {}
                       /\ \A q, r \in replies[d] : q = r

\* The token in the answer can be exchanged when the device has it.
AnsweredLive == \A d \in Devices : \A r \in replies[d] : r.tok \in DOMAIN tokens /\ Live(r.tok)

HonestInv ==
    /\ banned = {} /\ RowsInv /\ AloneInv /\ OneAtATime /\ AnsweredLive
    /\ HonestDeviceKeepsToken

LEMMA Rows ==
    ASSUME TokenInv
    PROVE  /\ tokens \in Seq(Token) /\ DOMAIN tokens = 1..Len(tokens) /\ Len(tokens) \in Nat
           /\ now \in Nat /\ RefreshTTL \in Nat /\ None \notin Nat
           /\ \A t \in DOMAIN tokens :
                /\ tokens[t] \in Token /\ tokens[t].exp \in Nat /\ tokens[t].chain \in 1..t
                /\ tokens[t].user \in Users
                /\ tokens[t].next # None => tokens[t].next \in DOMAIN tokens
  <1>1. /\ tokens \in Seq(Token) /\ DOMAIN tokens = 1..Len(tokens) /\ Len(tokens) \in Nat
        /\ now \in Nat /\ RefreshTTL \in Nat /\ None \notin Nat
    BY AuthAssumption DEF TokenInv, TokenTypes
  <1>2. ASSUME NEW t \in DOMAIN tokens
        PROVE  /\ tokens[t] \in Token /\ tokens[t].exp \in Nat /\ tokens[t].user \in Users
    <2>1. tokens[t] \in Token
      BY <1>1, <1>2
    <2> QED BY <2>1 DEF Token
  <1>3. \A t \in DOMAIN tokens :
           /\ tokens[t].chain \in 1..t
           /\ tokens[t].next # None => tokens[t].next \in DOMAIN tokens
    BY DEF TokenInv, ChainInv, SentInv, Follows
  <1> QED BY <1>1, <1>2, <1>3

\* A login of one device starts a chain nobody has; nobody else comes to anything new.
LEMMA StayAlone ==
    ASSUME TokenInv, AloneInv, NEW d \in Devices,
           \A e \in Devices : \A t \in Of(e)' :
               \/ \E s \in Of(e) : tokens'[t].chain = tokens[s].chain
               \/ e = d /\ tokens'[t].chain = Len(tokens) + 1
    PROVE  AloneInv'
  <1> SUFFICES ASSUME NEW e \in Devices, NEW f \in Devices, e # f,
                      NEW s \in Of(e)', NEW t \in Of(f)'
               PROVE  tokens'[s].chain # tokens'[t].chain
    BY DEF AloneInv
  <1>1. \A g \in Devices : \A q \in Of(g) : tokens[q].chain \in Nat /\ tokens[q].chain # Len(tokens) + 1
    BY Rows DEF Of
  <1>2. CASE e # d /\ f # d
    BY <1>2 DEF AloneInv
  <1>3. CASE e = d
    <2>1. PICK q \in Of(f) : tokens'[t].chain = tokens[q].chain
      BY <1>3
    <2> QED BY <1>1, <1>3, <2>1 DEF AloneInv
  <1>4. CASE f = d
    <2>1. PICK q \in Of(e) : tokens'[s].chain = tokens[q].chain
      BY <1>4
    <2> QED BY <1>1, <1>4, <2>1 DEF AloneInv
  <1> QED BY <1>2, <1>3, <1>4

\* Who asks has no answer under way.
LEMMA NothingUnderWay ==
    ASSUME MaxFlight = 1, RestTypes, TokenInv, NEW d \in Devices, MayAsk(d)
    PROVE  replies[d] = {} /\ attempt[d] = None
  <1>1. IsFiniteSet(replies[d]) /\ Cardinality(replies[d]) \in Nat
    BY FS_CardinalityType DEF RestTypes
  <1>2. Cardinality(replies[d]) = 0 /\ attempt[d] = None
    BY <1>1 DEF MayAsk, InFlight
  <1> QED BY <1>1, <1>2, FS_EmptySet

\* The table does not change, and devices come to nothing new, or to the successor of
\* what they have.
LEMMA SameRows ==
    ASSUME TokenInv, HonestInv, UNCHANGED tokens, banned' = {}, now' \in Nat, now' >= now,
           \A d \in Devices :
               /\ attempt'[d] # None => replies'[d] = {}
               /\ \A q, r \in replies'[d] : q = r
               /\ \A r \in replies'[d] :
                     \/ \E q \in replies[d] : q.tok = r.tok
                     \/ /\ held[d] # None /\ Rotated(held[d]) /\ r.tok = tokens[held[d]].next
                        /\ Live(tokens[held[d]].next)
               /\ \/ held'[d] = held[d]
                  \/ \E r \in replies[d] : held'[d] = r.tok
    PROVE  HonestInv'
  <1>1. RowsInv'
    BY Rows DEF HonestInv, RowsInv, RowSound, Live, Rotated
  <1>2. AnsweredLive'
    BY Rows DEF HonestInv, AnsweredLive, Live, TokenInv, SentInv, Rotated, Known
  <1>3. AloneInv'
    <2> SUFFICES ASSUME NEW e \in Devices, NEW t \in Of(e)'
                 PROVE  \E s \in Of(e) : tokens'[t].chain = tokens[s].chain
      BY StayAlone DEF HonestInv, AloneInv
    <2>1. CASE t \in Of(e)
      BY <2>1
    <2>2. CASE held[e] # None /\ Rotated(held[e]) /\ t = tokens[held[e]].next
      <3>1. held[e] \in DOMAIN tokens /\ held[e] \in Of(e)
        BY <2>2 DEF TokenInv, SentInv, Known, Of
      <3> QED BY <2>2, <3>1 DEF HonestInv, RowsInv, RowSound
    <2> QED BY <2>1, <2>2 DEF Of
  <1>4. HonestDeviceKeepsToken'
    <2> SUFFICES ASSUME NEW d \in Devices, held'[d] # None
                 PROVE  \/ tokens[held'[d]].revoked = None
                        \/ /\ tokens[held'[d]].next # None
                           /\ tokens[tokens[held'[d]].next].revoked = None
      BY DEF HonestDeviceKeepsToken, Live, Rotated
    <2>1. CASE held'[d] = held[d]
      BY <2>1 DEF HonestInv, HonestDeviceKeepsToken, Live, Rotated
    <2>2. CASE \E r \in replies[d] : held'[d] = r.tok
      BY <2>2 DEF HonestInv, AnsweredLive, Live
    <2> QED BY <2>1, <2>2
  <1> QED BY <1>1, <1>2, <1>3, <1>4 DEF HonestInv, OneAtATime

\* A row is added to a table in which a row may have been stamped with it as successor.
LEMMA RowAdded ==
    ASSUME TokenInv, RowsInv, NEW u \in Users, NEW c \in 1..(Len(tokens) + 1),
           NEW b \in BOOLEAN, now' = now,
           NEW E \in Seq(Token), Len(E) = Len(tokens),
           tokens' = Append(E, NewToken(u, c, b)),
           \A t \in DOMAIN tokens :
               \/ E[t] = tokens[t]
               \/ /\ E[t].exp = tokens[t].exp /\ E[t].chain = tokens[t].chain
                  /\ E[t].revoked # None /\ E[t].next = Len(tokens) + 1 /\ tokens[t].chain = c
    PROVE  /\ RowsInv'
           /\ DOMAIN tokens' = 1..(Len(tokens) + 1)
           /\ \A t \in DOMAIN tokens : t \in DOMAIN tokens' /\ tokens'[t] = E[t]
           /\ tokens'[Len(tokens) + 1].revoked = None
           /\ tokens'[Len(tokens) + 1].chain = c
  <1> DEFINE x == NewToken(u, c, b)
             n == Len(tokens) + 1
  <1>1. /\ now \in Nat /\ RefreshTTL \in Nat /\ None \notin Nat /\ Len(tokens) \in Nat
        /\ DOMAIN tokens = 1..Len(tokens) /\ c \in Nat /\ n \in Nat
    BY Rows
  <1>2. /\ x \in Token /\ x.revoked = None /\ x.next = None /\ x.chain = c
        /\ x.exp = now + RefreshTTL
    BY <1>1 DEF NewToken, Token
  <1>3. tokens' = Append(E, x)
    OBVIOUS
  <1> HIDE DEF x
  <1>4. /\ DOMAIN tokens' = 1..n /\ tokens'[n] = x
        /\ \A t \in DOMAIN tokens : t \in DOMAIN tokens' /\ tokens'[t] = E[t]
    BY <1>1, <1>2, <1>3, AppendRow
  <1>5. ASSUME NEW t \in DOMAIN tokens' PROVE RowSound(t)'
    <2>1. CASE t = n
      BY <1>1, <1>2, <1>4, <2>1 DEF RowSound, Live, Rotated
    <2>2. CASE t \in DOMAIN tokens /\ tokens'[t] = tokens[t]
      <3>1. RowSound(t) /\ tokens[t].exp \in Nat
        BY <2>2, Rows DEF RowsInv
      <3>2. CASE tokens[t].next = None
        BY <1>1, <2>2, <3>1, <3>2 DEF RowSound, Live, Rotated
      <3>3. CASE tokens[t].next # None
        <4> DEFINE s == tokens[t].next
        <4>1. s \in DOMAIN tokens /\ tokens[s].exp \in Nat
          BY <2>2, <3>3, Rows
        <4>2. tokens'[s].exp = tokens[s].exp /\ tokens'[s].chain = tokens[s].chain
          BY <1>4, <4>1
        <4> QED BY <1>1, <2>2, <3>1, <3>3, <4>1, <4>2 DEF RowSound, Live, Rotated
      <3> QED BY <3>2, <3>3
    <2>3. CASE /\ t \in DOMAIN tokens /\ tokens'[t].exp = tokens[t].exp
               /\ tokens'[t].chain = tokens[t].chain /\ tokens'[t].revoked # None
               /\ tokens'[t].next = n /\ tokens[t].chain = c
      <3>1. RowSound(t) /\ tokens[t].exp \in Nat
        BY <2>3, Rows DEF RowsInv
      <3> QED BY <1>1, <1>2, <1>4, <2>3, <3>1 DEF RowSound, Live, Rotated
    <2>4. t = n \/ t \in DOMAIN tokens
      BY <1>1, <1>4
    <2> QED BY <1>4, <2>1, <2>2, <2>3, <2>4
  <1> QED BY <1>2, <1>4, <1>5 DEF RowsInv

\* The device that asked has the answer under way; the others know of nothing new.
LEMMA AnswerOnly ==
    ASSUME TokenInv, OneAtATime, NEW d \in Devices, NEW r, Answer(d, r), replies[d] = {},
           attempt'[d] = None, \A e \in Devices \ {d} : attempt'[e] = attempt[e]
    PROVE  /\ OneAtATime' /\ replies'[d] = {r}
           /\ \A e \in Devices \ {d} : replies'[e] = replies[e]
  <1>1. replies'[d] = {r} /\ \A e \in Devices \ {d} : replies'[e] = replies[e]
    BY DEF Answer, TokenInv, TokenTypes
  <1> QED BY <1>1 DEF OneAtATime

\* A login: a row of a chain of its own, which the device is sent.
LEMMA HonestGrant ==
    ASSUME TokenInv, HonestInv, NEW d \in Devices, NEW u \in Users, Grant(d, u),
           replies[d] = {}, attempt'[d] = None,
           \A e \in Devices \ {d} : attempt'[e] = attempt[e],
           UNCHANGED <<now, banned, held>>
    PROVE  HonestInv'
  <1> DEFINE n == Len(tokens) + 1
             r == [tok |-> NextRow, acc |-> FreshId]
  <1>1. Len(tokens) \in Nat /\ tokens \in Seq(Token) /\ DOMAIN tokens = 1..Len(tokens)
    BY Rows
  <1>2. /\ RowsInv' /\ DOMAIN tokens' = 1..n
        /\ \A t \in DOMAIN tokens : t \in DOMAIN tokens' /\ tokens'[t] = tokens[t]
        /\ tokens'[n].revoked = None /\ tokens'[n].chain = n
    <2>1. n \in 1..(Len(tokens) + 1) /\ tokens' = Append(tokens, NewToken(u, n, TRUE))
      BY <1>1 DEF Grant, NextRow
    <2> HIDE DEF n
    <2> QED BY <1>1, <2>1, RowAdded DEF HonestInv, n
  <1>3. Answer(d, r) /\ r.tok = n
    BY DEF Grant, NextRow
  <1> HIDE DEF r
  <1>4. /\ OneAtATime' /\ replies'[d] = {r}
        /\ \A e \in Devices \ {d} : replies'[e] = replies[e]
    BY <1>3, AnswerOnly DEF HonestInv
  <1>5. AnsweredLive'
    <2> SUFFICES ASSUME NEW e \in Devices, NEW q \in replies'[e]
                 PROVE  q.tok \in DOMAIN tokens' /\ tokens'[q.tok].revoked = None
      BY DEF AnsweredLive, Live
    <2>1. CASE e = d
      BY <1>1, <1>2, <1>3, <1>4, <2>1
    <2>2. CASE e # d
      BY <1>2, <1>4, <2>2 DEF HonestInv, AnsweredLive, Live
    <2> QED BY <2>1, <2>2
  <1>6. AloneInv'
    <2> SUFFICES ASSUME NEW e \in Devices, NEW t \in Of(e)'
                 PROVE  \/ \E s \in Of(e) : tokens'[t].chain = tokens[s].chain
                        \/ e = d /\ tokens'[t].chain = n
      BY StayAlone DEF HonestInv
    <2>1. CASE e = d /\ t = n
      BY <1>2, <2>1
    <2>2. CASE t = held[e]
      <3>1. t # None /\ held[e] \in DOMAIN tokens
        <4>1. t \in 1..n
          BY <1>2 DEF Of
        <4>2. t # None
          BY <1>1, <4>1, Rows
        <4> QED BY <2>2, <4>2 DEF TokenInv, SentInv, Known
      <3>2. t \in Of(e)
        BY <2>2, <3>1 DEF Of
      <3> QED BY <1>2, <3>2 DEF Of
    <2>3. CASE e # d /\ \E q \in replies[e] : q.tok = t
      <3>1. t \in Of(e)
        BY <2>3 DEF Of, HonestInv, AnsweredLive
      <3> QED BY <1>2, <3>1 DEF Of
    <2> QED BY <1>3, <1>4, <2>1, <2>2, <2>3 DEF Of
  <1>7. HonestDeviceKeepsToken'
    <2> SUFFICES ASSUME NEW e \in Devices, held[e] # None
                 PROVE  \/ tokens'[held[e]].revoked = None
                        \/ /\ tokens'[held[e]].next # None
                           /\ tokens'[tokens'[held[e]].next].revoked = None
      BY DEF HonestDeviceKeepsToken, Live, Rotated
    <2>1. held[e] \in DOMAIN tokens
      BY DEF TokenInv, SentInv, Known
    <2>2. tokens[held[e]].next # None => tokens[held[e]].next \in DOMAIN tokens
      BY <2>1, Rows
    <2> QED BY <1>2, <2>1, <2>2 DEF HonestInv, HonestDeviceKeepsToken, Live, Rotated
  <1> QED BY <1>2, <1>4, <1>5, <1>6, <1>7 DEF HonestInv

\* A rotation: the device has the answer under way, nobody else had the row.
LEMMA HonestRotates ==
    ASSUME MaxFlight = 1, TokenInv, AuthInv, HonestInv, NEW d \in Devices, NEW fits,
           RefreshRotates(d, fits)
    PROVE  HonestInv'
  <1> DEFINE n == Len(tokens) + 1
             t == held[d]
             E == [tokens EXCEPT ![t].revoked = now, ![t].next = n]
             r == [tok |-> NextRow, acc |-> FreshId]
  <1>1. /\ Len(tokens) \in Nat /\ tokens \in Seq(Token) /\ DOMAIN tokens = 1..Len(tokens)
        /\ now \in Nat /\ None \notin Nat /\ n \in Nat
    BY Rows
  <1>2. /\ t \in DOMAIN tokens /\ tokens[t].user \in Users /\ tokens[t].chain \in 1..n
        /\ t # None /\ tokens[t].revoked = None
    <2>1. t \in DOMAIN tokens
      BY Presented DEF RefreshRotates
    <2>2. tokens[t].chain \in 1..t /\ t \in 1..Len(tokens) /\ tokens[t].user \in Users
      BY <1>1, <2>1, Rows
    <2> QED BY <1>1, <2>1, <2>2 DEF RefreshRotates, Live
  <1>3. /\ Answer(d, r) /\ r.tok = n /\ UNCHANGED <<now, banned, attempt, held>>
        /\ tokens' = Append(E, NewToken(tokens[t].user, tokens[t].chain, TRUE))
    BY DEF RefreshRotates, Rotate, NextRow
  <1>4. replies[d] = {} /\ attempt[d] = None
    BY NothingUnderWay DEF RefreshRotates, Presents, AuthInv
  <1>5. /\ E \in Seq(Token) /\ Len(E) = Len(tokens)
        /\ E[t].user = tokens[t].user /\ E[t].chain = tokens[t].chain
        /\ E[t].sent = tokens[t].sent /\ E[t].next = n /\ E[t].revoked = now
        /\ \A s \in DOMAIN tokens \ {t} : E[s] = tokens[s]
    <2>1. t \in DOMAIN tokens /\ n \in Nat
      BY <1>1, <1>2
    <2> HIDE DEF t, n
    <2> QED BY <2>1, StampRow
  <1>6. E[t].exp = tokens[t].exp
    <2>1. tokens[t] \in Token
      BY <1>1, <1>2
    <2>2. E = [tokens EXCEPT ![t] = [tokens[t] EXCEPT !.revoked = now, !.next = n]]
      BY <1>1, <1>2
    <2> QED BY <1>2, <2>1, <2>2 DEF Token
  <1> HIDE DEF E, r, n
  <1>7. /\ RowsInv' /\ DOMAIN tokens' = 1..n
        /\ \A s \in DOMAIN tokens : s \in DOMAIN tokens' /\ tokens'[s] = E[s]
        /\ tokens'[n].revoked = None /\ tokens'[n].chain = tokens[t].chain
    <2> DEFINE u == tokens[t].user
               c == tokens[t].chain
    <2>1. u \in Users /\ c \in 1..(Len(tokens) + 1) /\ tokens' = Append(E, NewToken(u, c, TRUE))
      BY <1>2, <1>3 DEF n
    <2>2. \A s \in DOMAIN tokens :
             \/ E[s] = tokens[s]
             \/ /\ E[s].exp = tokens[s].exp /\ E[s].chain = tokens[s].chain
                /\ E[s].revoked # None /\ E[s].next = Len(tokens) + 1 /\ tokens[s].chain = c
      BY <1>1, <1>5, <1>6 DEF n
    <2> HIDE DEF u
    <2>3. /\ RowsInv' /\ DOMAIN tokens' = 1..(Len(tokens) + 1)
          /\ \A s \in DOMAIN tokens : s \in DOMAIN tokens' /\ tokens'[s] = E[s]
          /\ tokens'[Len(tokens) + 1].revoked = None /\ tokens'[Len(tokens) + 1].chain = c
      <3>1. now' = now /\ RowsInv /\ E \in Seq(Token) /\ Len(E) = Len(tokens) /\ TRUE \in BOOLEAN
        BY <1>3, <1>5 DEF HonestInv
      <3> HIDE DEF c
      <3> QED BY <2>1, <2>2, <3>1, RowAdded
    <2> QED BY <2>3 DEF n
  <1>8. \A s \in DOMAIN tokens : tokens'[s].chain = tokens[s].chain
    BY <1>5, <1>7
  <1>9. /\ OneAtATime' /\ replies'[d] = {r}
        /\ \A e \in Devices \ {d} : replies'[e] = replies[e]
    BY <1>3, <1>4, AnswerOnly DEF HonestInv
  <1>10. t \in Of(d) /\ \A e \in Devices \ {d} : \A s \in Of(e) : s # t
    <2>1. t \in Of(d)
      BY <1>2 DEF Of
    <2> QED BY <2>1 DEF HonestInv, AloneInv
  <1>11. AnsweredLive'
    <2> SUFFICES ASSUME NEW e \in Devices, NEW q \in replies'[e]
                 PROVE  q.tok \in DOMAIN tokens' /\ tokens'[q.tok].revoked = None
      BY DEF AnsweredLive, Live
    <2>1. CASE e = d
      <3>1. n \in DOMAIN tokens'
        BY <1>1, <1>7 DEF n
      <3> QED BY <1>3, <1>7, <1>9, <2>1, <3>1
    <2>2. CASE e # d
      <3>1. q \in replies[e] /\ q.tok \in DOMAIN tokens /\ tokens[q.tok].revoked = None
        BY <1>9, <2>2 DEF HonestInv, AnsweredLive, Live
      <3>2. q.tok \in Of(e)
        BY <3>1 DEF Of
      <3> QED BY <1>5, <1>7, <1>10, <2>2, <3>1, <3>2
    <2> QED BY <2>1, <2>2
  <1>12. AloneInv'
    <2> SUFFICES ASSUME NEW e \in Devices, NEW s \in Of(e)'
                 PROVE  \E q \in Of(e) : tokens'[s].chain = tokens[q].chain
      BY StayAlone DEF HonestInv
    <2>1. CASE e = d /\ s = n
      BY <1>7, <1>10, <2>1
    <2>2. CASE s = held[e]
      <3>1. s # None /\ held[e] \in DOMAIN tokens
        <4>1. s \in 1..n
          BY <1>7 DEF Of
        <4>2. s # None
          BY <1>1, <4>1
        <4> QED BY <2>2, <4>2 DEF TokenInv, SentInv, Known
      <3>2. s \in Of(e)
        BY <2>2, <3>1 DEF Of
      <3> QED BY <1>8, <3>2 DEF Of
    <2>3. CASE e # d /\ \E q \in replies[e] : q.tok = s
      <3>1. s \in Of(e)
        BY <2>3 DEF Of, HonestInv, AnsweredLive
      <3> QED BY <1>8, <3>1 DEF Of
    <2> QED BY <1>3, <1>9, <2>1, <2>2, <2>3 DEF Of
  <1>13. HonestDeviceKeepsToken'
    <2> SUFFICES ASSUME NEW e \in Devices, held[e] # None
                 PROVE  \/ tokens'[held[e]].revoked = None
                        \/ /\ tokens'[held[e]].next # None
                           /\ tokens'[tokens'[held[e]].next].revoked = None
      BY <1>3 DEF HonestDeviceKeepsToken, Live, Rotated
    <2>1. held[e] \in DOMAIN tokens
      BY DEF TokenInv, SentInv, Known
    <2>2. CASE e = d
      BY <1>1, <1>2, <1>5, <1>7, <2>2
    <2>3. CASE e # d
      <3>1. held[e] \in Of(e) /\ held[e] # t
        BY <1>10, <2>1, <2>3 DEF Of
      <3>2. CASE tokens[held[e]].revoked = None
        BY <1>5, <1>7, <2>1, <3>1, <3>2
      <3>3. CASE tokens[held[e]].revoked # None
        <4> DEFINE s == tokens[held[e]].next
        <4>1. s # None /\ s \in DOMAIN tokens /\ tokens[s].revoked = None
          BY <2>1, <3>3, Rows DEF HonestInv, HonestDeviceKeepsToken, Live, Rotated
        <4>2. tokens[s].chain = tokens[held[e]].chain
          BY <2>1, <4>1 DEF HonestInv, RowsInv, RowSound, Rotated
        <4>3. s # t
          BY <1>10, <2>3, <3>1, <4>2 DEF HonestInv, AloneInv
        <4> QED BY <1>5, <1>7, <2>1, <3>1, <4>1, <4>3
      <3> QED BY <3>2, <3>3
    <2> QED BY <2>2, <2>3
  <1> QED BY <1>3, <1>7, <1>9, <1>11, <1>12, <1>13 DEF HonestInv

\* The process dies in a rotation: the token presented lives on.
LEMMA HonestCrash ==
    ASSUME TokenInv, HonestInv, NEW d \in Devices, NEW fits, CrashInRotation(d, fits)
    PROVE  HonestInv'
  <1> DEFINE n == Len(tokens) + 1
             u == tokens[held[d]].user
             c == tokens[held[d]].chain
  <1>1. Len(tokens) \in Nat /\ tokens \in Seq(Token) /\ DOMAIN tokens = 1..Len(tokens)
        /\ None \notin Nat
    BY Rows
  <1>2. /\ UNCHANGED <<now, banned, held>> /\ Forget
        /\ tokens' = Append(tokens, NewToken(u, c, FALSE))
    BY DEF CrashInRotation
  <1>3. held[d] \in DOMAIN tokens /\ u \in Users /\ c \in 1..n
    <2>1. held[d] \in DOMAIN tokens
      BY Presented DEF CrashInRotation
    <2>2. c \in 1..held[d] /\ held[d] \in 1..Len(tokens) /\ u \in Users
      BY <1>1, <2>1, Rows
    <2> QED BY <1>1, <2>1, <2>2
  <1>4. /\ RowsInv' /\ DOMAIN tokens' = 1..n
        /\ \A t \in DOMAIN tokens : t \in DOMAIN tokens' /\ tokens'[t] = tokens[t]
    <2>1. now' = now /\ RowsInv /\ FALSE \in BOOLEAN
      BY <1>2 DEF HonestInv
    <2> HIDE DEF u, c
    <2> QED BY <1>1, <1>2, <1>3, <2>1, RowAdded
  <1>5. \A e \in Devices : replies'[e] = {} /\ attempt'[e] = None
    BY <1>2 DEF Forget
  <1>6. AloneInv'
    <2> SUFFICES ASSUME NEW e \in Devices, NEW t \in Of(e)'
                 PROVE  \E s \in Of(e) : tokens'[t].chain = tokens[s].chain
      BY StayAlone DEF HonestInv
    <2>1. t = held[e] /\ t \in 1..n
      BY <1>2, <1>4, <1>5 DEF Of
    <2>2. t # None
      BY <1>1, <2>1
    <2>3. t \in DOMAIN tokens
      BY <2>1, <2>2 DEF TokenInv, SentInv, Known
    <2>4. t \in Of(e)
      BY <2>1, <2>3 DEF Of
    <2> QED BY <1>4, <2>3, <2>4
  <1>7. HonestDeviceKeepsToken'
    <2> SUFFICES ASSUME NEW e \in Devices, held[e] # None
                 PROVE  \/ tokens'[held[e]].revoked = None
                        \/ /\ tokens'[held[e]].next # None
                           /\ tokens'[tokens'[held[e]].next].revoked = None
      BY <1>2 DEF HonestDeviceKeepsToken, Live, Rotated
    <2>1. held[e] \in DOMAIN tokens
      BY DEF TokenInv, SentInv, Known
    <2>2. tokens[held[e]].next # None => tokens[held[e]].next \in DOMAIN tokens
      BY <2>1, Rows
    <2> QED BY <1>4, <2>1, <2>2 DEF HonestInv, HonestDeviceKeepsToken, Live, Rotated
  <1> QED BY <1>2, <1>4, <1>5, <1>6, <1>7 DEF HonestInv, OneAtATime, AnsweredLive

\* A retry within the grace window is sent the successor again.
LEMMA HonestReplays ==
    ASSUME MaxFlight = 1, TokenInv, AuthInv, HonestInv, NEW d \in Devices, NEW fits,
           RefreshReplays(d, fits)
    PROVE  HonestInv'
  <1> DEFINE s == tokens[held[d]].next
             r == [tok |-> s, acc |-> FreshId]
  <1>1. /\ held[d] # None /\ Rotated(held[d]) /\ Live(s) /\ Answer(d, r) /\ r.tok = s
        /\ UNCHANGED <<now, tokens, banned, attempt, held>>
    BY DEF RefreshReplays, Presents, Replayable
  <1>2. replies[d] = {} /\ attempt[d] = None
    BY NothingUnderWay DEF RefreshReplays, Presents, AuthInv
  <1> HIDE DEF r
  <1>3. /\ OneAtATime' /\ replies'[d] = {r}
        /\ \A e \in Devices \ {d} : replies'[e] = replies[e]
    BY <1>1, <1>2, AnswerOnly DEF HonestInv
  <1>4. now \in Nat /\ now' \in Nat /\ now' >= now
    BY <1>1, Rows
  <1>5. ASSUME NEW e \in Devices
        PROVE  /\ attempt'[e] # None => replies'[e] = {}
               /\ \A q, p \in replies'[e] : q = p
               /\ \A p \in replies'[e] :
                     \/ \E q \in replies[e] : q.tok = p.tok
                     \/ /\ held[e] # None /\ Rotated(held[e]) /\ p.tok = tokens[held[e]].next
                        /\ Live(tokens[held[e]].next)
    <2>1. CASE e = d
      BY <1>1, <1>2, <1>3, <2>1
    <2>2. CASE e # d
      BY <1>1, <1>3, <2>2 DEF HonestInv, OneAtATime
    <2> QED BY <2>1, <2>2
  <1>6. banned' = {}
    BY <1>1 DEF HonestInv
  <1> QED BY <1>1, <1>4, <1>5, <1>6, SameRows

\* What a punctual device presents is exchanged or replayed, never refused.
LEMMA NeverRefused ==
    ASSUME Punctual, TokenInv, HonestInv, NEW d \in Devices, NEW fits,
           RefreshReuse(d, fits) \/ RefreshExpired(d, fits) \/ RefreshRefused(d, fits)
    PROVE  FALSE
  <1> DEFINE t == held[d]
             s == tokens[t].next
  <1>1. t # None /\ fits /\ ~Expired(t) /\ (Live(t) \/ InGrace(t))
    BY DEF RefreshReuse, RefreshExpired, RefreshRefused, Presents
  <1>2. t \in DOMAIN tokens /\ RowSound(t) /\ banned = {}
    BY <1>1 DEF TokenInv, SentInv, Known, HonestInv, RowsInv
  <1>3. RefreshReuse(d, fits)
    BY <1>1, <1>2 DEF RefreshExpired, RefreshRefused
  <1>4. ~Live(t)
    BY <1>2, <1>3 DEF RefreshReuse, RowSound
  <1>5. Rotated(t) /\ Live(s) /\ s \in DOMAIN tokens
    BY <1>1, <1>2, <1>4, Rows DEF HonestInv, HonestDeviceKeepsToken, Rotated
  <1>6. ~Rotated(s)
    BY <1>5 DEF HonestInv, RowsInv, RowSound
  <1>7. ~Expired(s)
    <2>1. tokens[s].exp >= tokens[t].exp
      BY <1>2, <1>5 DEF RowSound
    <2>2. tokens[s].exp \in Nat /\ tokens[t].exp \in Nat /\ now \in Nat
      BY <1>2, <1>5, Rows
    <2> QED BY <1>1, <2>1, <2>2 DEF Expired
  <1>8. Replayable(t, fits)
    BY <1>1, <1>2, <1>4, <1>5, <1>6, <1>7 DEF Replayable
  <1> QED BY <1>3, <1>5, <1>8 DEF RefreshReuse

LEMMA HonestStep ==
    ASSUME Punctual, MaxFlight = 1, Bannable = {}, TokenInv, AuthInv, HonestInv, [Next]_vars
    PROVE  HonestInv'
  <1> USE DEF serverVars, deviceVars, history
  <1>h. /\ banned = {} /\ OneAtATime /\ now \in Nat
        /\ DOMAIN replies = Devices /\ DOMAIN held = Devices /\ DOMAIN attempt = Devices
    BY DEF HonestInv, TokenInv, TokenTypes
  <1>1. ASSUME NEW d \in Devices, NEW u \in Users, PasswordLogin(d, u) PROVE HonestInv'
    <2>1. replies[d] = {} /\ UNCHANGED <<now, tokens, banned, replies, held>>
          /\ \A e \in Devices \ {d} : attempt'[e] = attempt[e]
      BY <1>1, <1>h, NothingUnderWay DEF PasswordLogin, AuthInv
    <2>2. \A e \in Devices : /\ attempt'[e] # None => replies'[e] = {}
                             /\ \A q, r \in replies'[e] : q = r
      BY <1>h, <2>1 DEF OneAtATime
    <2>3. now' \in Nat /\ now' >= now
      BY <1>h, <2>1
    <2> QED BY <1>h, <2>1, <2>2, <2>3, SameRows
  <1>2. ASSUME NEW d \in Devices, PasswordVerified(d) PROVE HonestInv'
    <2>1. /\ attempt[d] \in Users /\ Grant(d, attempt[d]) /\ replies[d] = {}
          /\ attempt'[d] = None /\ \A e \in Devices \ {d} : attempt'[e] = attempt[e]
          /\ UNCHANGED <<now, banned, held>>
      BY <1>2, <1>h DEF PasswordVerified, OneAtATime, TokenInv, TokenTypes
    <2> QED BY <2>1, HonestGrant
  <1>3. ASSUME NEW d \in Devices, SessionLogin(d) PROVE HonestInv'
    <2>1. PICK u \in Users : Grant(d, u)
      BY <1>3 DEF SessionLogin
    <2>2. replies[d] = {} /\ attempt[d] = None /\ UNCHANGED <<now, banned, attempt, held>>
      BY <1>3, NothingUnderWay DEF SessionLogin, AuthInv
    <2> QED BY <2>1, <2>2, HonestGrant
  <1>4. ASSUME NEW d \in Devices, NEW fits \in BOOLEAN,
               \/ RefreshRotates(d, fits) \/ RefreshReplays(d, fits)
               \/ RefreshReuse(d, fits) \/ RefreshExpired(d, fits)
               \/ RefreshRefused(d, fits) \/ CrashInRotation(d, fits)
        PROVE  HonestInv'
    BY <1>4, HonestRotates, HonestReplays, HonestCrash, NeverRefused
  <1>5. ASSUME NEW d \in Devices, NEW r \in replies[d], Deliver(d, r) \/ Lose(d, r)
        PROVE  HonestInv'
    <2>1. /\ replies' = [replies EXCEPT ![d] = @ \ {r}]
          /\ held' = held \/ held' = [held EXCEPT ![d] = r.tok]
          /\ UNCHANGED <<now, tokens, banned, attempt>>
      BY <1>5 DEF Deliver, Lose
    <2>2. \A e \in Devices : replies'[e] \subseteq replies[e]
      BY <1>h, <2>1
    <2>3. \A e \in Devices : /\ attempt'[e] # None => replies'[e] = {}
                             /\ \A q, p \in replies'[e] : q = p
      BY <1>h, <2>1, <2>2 DEF OneAtATime
    <2>4. \A e \in Devices : held'[e] = held[e] \/ \E q \in replies[e] : held'[e] = q.tok
      BY <1>h, <2>1
    <2>5. now' \in Nat /\ now' >= now
      BY <1>h, <2>1
    <2> QED BY <1>h, <2>1, <2>2, <2>3, <2>4, <2>5, SameRows
  <1>6. ASSUME UNCHANGED <<tokens, banned, held>>, now' \in Nat, now' >= now,
               \/ UNCHANGED <<attempt, replies>>
               \/ Forget
        PROVE  HonestInv'
    <2>1. \A e \in Devices : /\ attempt'[e] # None => replies'[e] = {}
                             /\ \A q, r \in replies'[e] : q = r
                             /\ replies'[e] \subseteq replies[e]
      BY <1>6, <1>h DEF OneAtATime, Forget
    <2> QED BY <1>6, <1>h, <2>1, SameRows
  <1>7. ASSUME NEW d \in Devices, SessionRejected(d) PROVE HonestInv'
    BY <1>6, <1>7, <1>h DEF SessionRejected
  <1>8. CASE Tick \/ Restart \/ UNCHANGED vars
    BY <1>6, <1>8, <1>h DEF Tick, Restart, vars
  <1> QED BY <1>1, <1>2, <1>3, <1>4, <1>5, <1>7, <1>8 DEF Next

\* A device that asks one thing at a time and retries within the grace window is not
\* taken for a thief, whatever packets it missed and whenever the server died: the
\* token it holds can be exchanged, or was exchanged for one that can
\* (refresh_session, _replay_rotation_within_grace).  For any window and any time to
\* live, one that is shorter than the window included.
THEOREM HonestDevicesKeepToken ==
    ASSUME Punctual, MaxFlight = 1, Bannable = {}
    PROVE  Spec => []HonestDeviceKeepsToken
  <1>1. Init => HonestInv
    <2> SUFFICES ASSUME Init PROVE HonestInv
      OBVIOUS
    <2>1. DOMAIN tokens = {}
      BY DEF Init
    <2> QED BY <2>1 DEF Init, HonestInv, RowsInv, AloneInv, Of, OneAtATime, AnsweredLive,
                        HonestDeviceKeepsToken
  <1>2. TokenInv /\ AuthInv /\ HonestInv /\ [Next]_vars => HonestInv'
    BY HonestStep
  <1>3. HonestInv => HonestDeviceKeepsToken
    BY DEF HonestInv
  <1> QED BY <1>1, <1>2, <1>3, AuthHolds, PTL DEF Spec
=============================================================================

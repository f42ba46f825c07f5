-------------------------- MODULE BalanceFeed_proofs --------------------------
(***************************************************************************)
(* Proofs about BalanceFeed, for any requests, clients and buffer size.     *)
(*                                                                         *)
(* The feed changes nothing of the service: FeedSpec implements Spec, so    *)
(* that every theorem about the service holds beside the feed.              *)
(*                                                                         *)
(* FeedInv is the inductive invariant of the feed itself.  An update is     *)
(* true from the commit that makes it (AnnouncedTrue) to the buffer it ends *)
(* in (BuffersTrue), and as long as nothing disturbs its account it is      *)
(* current as well (AnnouncedCurrent).  What a page will show when it has   *)
(* read its buffer is then the balance, unless an update of the account is  *)
(* still on the way to it (Fresh).                                          *)
(*                                                                         *)
(* Nothing keeps a user from exchanging into someone else's account, and    *)
(* then both updates go to that user.  MayHear says who that leaves to be   *)
(* told of an account, and OwnerOnly of which accounts only the owner is.   *)
(***************************************************************************)
EXTENDS BalanceFeed, TransactionService_proofs, SequenceTheorems

UpdateRecord == [user : User, account : Account, balance : Int]

FeedTypeOK ==
  /\ announcing \in [Request -> Seq(UpdateRecord)]
  /\ sending \in [Request -> SUBSET Client]
  /\ hub \subseteq Client
  /\ conn \in [Client -> {"none", "open", "lost", "closed"}]
  /\ buffer \in [Client -> Seq(UpdateRecord)]
  /\ shown \in [Client -> [Account -> Int]]
  /\ disturbed \subseteq Client \X Account

\* A request announces what it has committed, when it is done.
AnnouncersDone == \A r \in Request : announcing[r] # <<>> => pc[r] = "done"

\* A broadcast serves the registered clients of the update's user.
SendingHead ==
  \A r \in Request : \A c \in sending[r] :
    /\ announcing[r] # <<>>
    /\ c \in hub
    /\ ClientUser[c] = Head(announcing[r]).user

\* Open connections are registered, and nothing was sent before.
HubOpen == \A c \in Client : /\ conn[c] = "open" => c \in hub
                             /\ c \in hub => conn[c] # "none"
                             /\ conn[c] = "none" => buffer[c] = <<>>

\* Of the rows of transactions, those that tell their user of the account.
PaidInto(row, a) == row.in.kind = "exchange" /\ row.in.to = a

MayHear(user, a, rows) ==
  \/ user = Owner[a]
  \/ \E row \in rows : PaidInto(row, a) /\ row.in.user = user

OwnerOnly(a, rows) ==
  \A row \in rows : PaidInto(row, a) => row.in.user = Owner[a]

TrueUpdate(update, rows, had) ==
  /\ MayHear(update.user, update.account, rows)
  /\ Owner[update.account] \in User =>
       <<update.account, update.balance>> \in had

AnnouncedTrue ==
  \A r \in Request : \A n \in DOMAIN announcing[r] :
    TrueUpdate(announcing[r][n], transactions, past)

BuffersTrue ==
  \A c \in Client : \A n \in DOMAIN buffer[c] :
    /\ buffer[c][n].user = ClientUser[c]
    /\ TrueUpdate(buffer[c][n], transactions, past)

AnnouncedCurrent ==
  \A r \in Request : \A n \in DOMAIN announcing[r] : \A c \in Client :
    LET update == announcing[r][n]
    IN  <<c, update.account>> \notin disturbed /\ Owner[update.account] \in User =>
          update.balance = balance[update.account]

\* An update of the account is still to be sent to the client.
Pending(r, c, a) ==
  \E n \in DOMAIN announcing[r] :
    /\ announcing[r][n].account = a
    /\ n = 1 /\ sending[r] # {} => c \in sending[r]

\* What the page will show of the account when it has read its buffer.
WillShow(c, a, amount) ==
  \/ \E n \in DOMAIN buffer[c] :
       /\ buffer[c][n].account = a
       /\ buffer[c][n].balance = amount
       /\ \A k \in DOMAIN buffer[c] : k > n => buffer[c][k].account # a
  \/ /\ \A n \in DOMAIN buffer[c] : buffer[c][n].account # a
     /\ shown[c][a] = amount

Fresh ==
  \A c \in Client, a \in Account :
    /\ conn[c] = "open" /\ Owner[a] = ClientUser[c]
    /\ OwnerOnly(a, transactions) /\ <<c, a>> \notin disturbed
    =>
      \/ \E r \in Request : Pending(r, c, a)
      \/ WillShow(c, a, balance[a])

OnTheWay == /\ FeedTypeOK
            /\ AnnouncersDone
            /\ SendingHead
            /\ HubOpen
            /\ AnnouncedTrue
            /\ BuffersTrue
            /\ AnnouncedCurrent
            /\ Fresh

FeedInv == OnceInv /\ OnTheWay

----------------------------------------------------------------------------
(* The feed beside the service. *)

\* Every step of the feed is a step of the service, or none of its business.
LEMMA FeedStepServes == [FeedNext]_allVars => [Next]_vars
<1>1. FeedClientsAct => Next
  BY DEF FeedClientsAct, Next
<1>2. ASSUME NEW r \in Request
      PROVE  /\ FeedServe(r) => Next
             /\ FeedCommit(r) => Next
             /\ Broadcast(r) => UNCHANGED vars
  BY DEF FeedServe, FeedCommit, Broadcast, StartBroadcast, Send, Serve, Next
<1>3. ASSUME NEW c \in Client
      PROVE  /\ Connect(c) \/ Leave(c) \/ WriteMessage(c) => UNCHANGED vars
             /\ \A p \in Pumps : EndPump(c, p) => UNCHANGED vars
  BY DEF Connect, Leave, WriteMessage, EndPump
<1>4. UNCHANGED allVars => UNCHANGED vars
  BY DEF allVars
<1>5. QED
  BY <1>1, <1>2, <1>3, <1>4 DEF FeedNext

\* The service keeps its specification, and so its theorems, beside the feed.
THEOREM FeedServes == FeedSpec => Spec
<1>1. FeedInit => Init
  BY DEF FeedInit
<1>2. QED
  BY <1>1, FeedStepServes, PTL DEF FeedSpec, Spec

LEMMA FeedOnceInvariance == FeedSpec => []OnceInv
BY FeedServes, OnceInvariance, PTL

----------------------------------------------------------------------------
(* Steps of the service. *)

\* A step that adds no transaction changes no balance.
LEMMA ServeKeepsBalances ==
  ASSUME OnceInv, FeedClientsAct \/ \E r \in Request : FeedServe(r)
  PROVE  UNCHANGED <<balance, transactions>> /\ UNCHANGED feedVars
<1>1. IInv /\ RowsDone
  BY DEF OnceInv
<1>2. [Next]_vars
  BY FeedStepServes DEF FeedNext
<1>3. UNCHANGED feedVars
  BY DEF FeedClientsAct, FeedServe
<1>4. ASSUME NEW s \in Request, Commit(s)
      PROVE  transactions' # transactions
  <2>1. /\ pc[s] = "commit" /\ RowOf(s) \in transactions'
        /\ RowOf(s).request = s
    BY <1>1, <1>4, CommitRow, SoundRequest
  <2>2. \A row \in transactions : pc[row.request] = "done"
    BY <1>1 DEF RowsDone
  <2>3. RowOf(s) \notin transactions
    BY <2>1, <2>2
  <2>4. QED
    BY <2>1, <2>3
<1>5. CASE FeedClientsAct
  <2>1. UNCHANGED transactions
    BY <1>5 DEF FeedClientsAct, Arrive, Abandon, QuoteStep, QuoteExchange,
                  KeyShare, QuoteFails, Expire, tables
  <2>2. QED
    BY <1>1, <1>2, <1>3, <1>4, <2>1, OnlyCommitPosts
<1>6. CASE \E r \in Request : FeedServe(r)
  BY <1>1, <1>2, <1>3, <1>4, <1>6, OnlyCommitPosts DEF FeedServe
<1>7. QED
  BY <1>5, <1>6

\* Rows and past balances do not go away, so that what is true stays true.
LEMMA StaysTrue ==
  ASSUME NEW rows, NEW more, rows \subseteq more, NEW had, NEW have,
         had \subseteq have, NEW u, TrueUpdate(u, rows, had)
  PROVE  TrueUpdate(u, more, have)
BY Zenon DEF TrueUpdate, MayHear

\* A request that announces one update.
LEMMA OneUpdate ==
  ASSUME NEW r \in Request, NEW u \in UpdateRecord, Updates(r) = <<u>>
  PROVE  /\ Updates(r) \in Seq(UpdateRecord)
         /\ \A n \in DOMAIN Updates(r) : Updates(r)[n] = u
         /\ \E n \in DOMAIN Updates(r) : Updates(r)[n] = u
<1>1. DOMAIN Updates(r) = 1..1 /\ Updates(r)[1] = u
  BY SMT
<1>2. 1 \in 1..1 /\ \A n \in 1..1 : n = 1
  BY SMT
<1>3. Updates(r) \in Seq(UpdateRecord)
  BY SMT
<1>4. QED
  BY <1>1, <1>2, <1>3, Zenon

\* A request that announces two: the sequence holds both, and nothing else.
LEMMA TwoUpdates ==
  ASSUME NEW r \in Request, NEW u \in UpdateRecord, NEW v \in UpdateRecord,
         Updates(r) = <<u, v>>
  PROVE  /\ Updates(r) \in Seq(UpdateRecord)
         /\ \A n \in DOMAIN Updates(r) : Updates(r)[n] = u \/ Updates(r)[n] = v
         /\ \E n \in DOMAIN Updates(r) : Updates(r)[n] = u
         /\ \E n \in DOMAIN Updates(r) : Updates(r)[n] = v
<1>1. DOMAIN Updates(r) = 1..2 /\ Updates(r)[1] = u /\ Updates(r)[2] = v
  BY SMT
<1>2. 1 \in 1..2 /\ 2 \in 1..2 /\ \A n \in 1..2 : n = 1 \/ n = 2
  BY SMT
<1>3. Updates(r) \in Seq(UpdateRecord)
  BY SMT
<1>4. QED
  BY <1>1, <1>2, <1>3, Zenon

\* What a request announces of accounts that have an owner are the balances it
\* has committed, all of them.  It tells the owner or, of the account that an
\* exchange pays into, the user of the exchange.
LEMMA CommitUpdates ==
  ASSUME IInv, NEW r \in Request, Commit(r)
  PROVE  /\ Updates(r) \in Seq(UpdateRecord)
         /\ \A n \in DOMAIN Updates(r) :
              /\ Updates(r)[n].account \in Written(req[r])
              /\ MayHear(Updates(r)[n].user, Updates(r)[n].account, transactions')
              /\ Owner[Updates(r)[n].account] \in User =>
                   Updates(r)[n].balance = balance'[Updates(r)[n].account]
         /\ \A a \in Written(req[r]) : Owner[a] \in User =>
              \E n \in DOMAIN Updates(r) : Updates(r)[n].account = a
<1> DEFINE i == req[r]
           s == snapshot[r]
<1>1. pc[r] = "commit" /\ pc[r] \in Decided /\ pc[r] \notin Outside
  BY DEF Commit, Decided, Writing, Outside
<1>2. /\ i.from \in Account /\ i.to \in Account
      /\ SystemFrom(i) \in Account /\ SystemTo(i) \in Account
      /\ i.amount \in Int /\ Converted(i) \in Int
      /\ i.kind \in {"transfer", "exchange"}
  BY <1>1, PostingType, SoundRequest
<1>3. i.user \in User /\ Owner[i.from] = i.user
  BY <1>1, InputType DEF IInv, Local, Approved
<1>4. s \in [Account -> Int]
  BY DEF IInv, TypeOK
<1>5. \A a \in Written(i) : balance'[a] = Staged(r)[a]
  <2>1. Written(i) \subseteq Account
    BY <1>2 DEF Written
  <2>2. QED
    BY <2>1 DEF Commit, CommitTx
<1> DEFINE debit == Update(i.user, i.from, s[i.from] - i.amount)
<1>6. CASE i.kind = "transfer"
  <2>1. i.from # i.to /\ Written(i) = {i.from, i.to}
    BY <1>1, <1>6 DEF IInv, Local, Validated, Written
  <2>2. /\ Staged(r)[i.from] = s[i.from] - i.amount
        /\ Staged(r)[i.to] = s[i.to] + i.amount
    BY <1>2, <1>4, <1>6, <2>1 DEF Staged
  <2>3. CASE Owner[i.to] = NoUser
    <3>1. Updates(r) = <<debit>>
      BY <1>6, <2>3 DEF Updates
    <3>2. debit \in UpdateRecord
      BY <1>2, <1>3, <1>4 DEF Update, UpdateRecord
    <3>3. Owner[i.to] \notin User
      BY <2>3, ConfigAssumption
    <3>4. /\ debit.account = i.from /\ debit.user = i.user
          /\ debit.balance = s[i.from] - i.amount
      BY DEF Update
    <3> HIDE DEF debit, i, s
    <3>5. /\ Updates(r) \in Seq(UpdateRecord)
          /\ \A n \in DOMAIN Updates(r) : Updates(r)[n] = debit
          /\ \E n \in DOMAIN Updates(r) : Updates(r)[n] = debit
      BY <3>1, <3>2, OneUpdate, Zenon
    <3>6. i = req[r]
      BY DEF i
    <3>7. balance'[i.from] = s[i.from] - i.amount
      BY <1>5, <2>1, <2>2
    <3>8. /\ debit.account \in Written(i)
          /\ MayHear(debit.user, debit.account, transactions')
          /\ debit.balance = balance'[debit.account]
      BY <1>3, <2>1, <3>4, <3>7 DEF MayHear
    <3>9. QED
      BY <2>1, <3>3, <3>4, <3>5, <3>6, <3>8, Zenon
  <2>4. CASE Owner[i.to] # NoUser
    <3> DEFINE credit == Update(Owner[i.to], i.to, s[i.to] + i.amount)
    <3>1. Updates(r) = <<debit, credit>>
      BY <1>6, <2>4 DEF Updates
    <3>2. Owner[i.to] \in User
      BY <1>2, <2>4, ConfigAssumption
    <3>3. debit \in UpdateRecord /\ credit \in UpdateRecord
      BY <1>2, <1>3, <1>4, <3>2 DEF Update, UpdateRecord
    <3>4. /\ debit.account = i.from /\ debit.user = i.user
          /\ debit.balance = s[i.from] - i.amount
          /\ credit.account = i.to /\ credit.user = Owner[i.to]
          /\ credit.balance = s[i.to] + i.amount
      BY DEF Update
    <3> HIDE DEF debit, credit, i, s
    <3>5. /\ Updates(r) \in Seq(UpdateRecord)
          /\ \A n \in DOMAIN Updates(r) :
               Updates(r)[n] = debit \/ Updates(r)[n] = credit
          /\ \E n \in DOMAIN Updates(r) : Updates(r)[n] = debit
          /\ \E n \in DOMAIN Updates(r) : Updates(r)[n] = credit
      BY <3>1, <3>3, TwoUpdates, Zenon
    <3>6. i = req[r]
      BY DEF i
    <3>7. /\ balance'[i.from] = s[i.from] - i.amount
          /\ balance'[i.to] = s[i.to] + i.amount
      BY <1>5, <2>1, <2>2
    <3>8. /\ debit.account \in Written(i) /\ credit.account \in Written(i)
          /\ MayHear(debit.user, debit.account, transactions')
          /\ MayHear(credit.user, credit.account, transactions')
          /\ debit.balance = balance'[debit.account]
          /\ credit.balance = balance'[credit.account]
      BY <1>3, <2>1, <3>4, <3>7 DEF MayHear
    <3>9. \A a \in Written(i) : \E n \in DOMAIN Updates(r) : Updates(r)[n].account = a
      BY <2>1, <3>4, <3>5
    <3>10. QED
      BY <3>5, <3>6, <3>8, <3>9, Zenon
  <2>5. QED
    BY <2>3, <2>4
<1>7. CASE i.kind = "exchange"
  <2>1. Owner[SystemFrom(i)] \notin User /\ Owner[SystemTo(i)] \notin User
    BY <1>2, SystemAccounts, ConfigAssumption
  <2>2. /\ i.from # i.to
        /\ i.from \notin {SystemFrom(i), SystemTo(i)}
        /\ Owner[i.to] \in User => i.to \notin {SystemFrom(i), SystemTo(i)}
    BY <1>1, <1>2, <1>3, <1>7, <2>1
    DEF IInv, Local, Approved, ExchangePairAllowed
  <2>3. /\ Staged(r)[i.from] = s[i.from] - i.amount
        /\ Owner[i.to] \in User => Staged(r)[i.to] = s[i.to] + Converted(i)
    BY <1>2, <1>4, <1>7, <2>2 DEF Staged
  <2> DEFINE credit == Update(i.user, i.to, s[i.to] + Converted(i))
  <2>4. Updates(r) = <<debit, credit>>
    BY <1>7 DEF Updates
  <2>5. debit \in UpdateRecord /\ credit \in UpdateRecord
    BY <1>2, <1>3, <1>4 DEF Update, UpdateRecord
  <2>6. Written(i) = {i.from, i.to, SystemFrom(i), SystemTo(i)}
    BY <1>7 DEF Written
  <2>7. /\ RowOf(r) \in transactions'
        /\ PaidInto(RowOf(r), i.to) /\ RowOf(r).in.user = i.user
    BY <1>7, CommitRow, SoundRequest DEF PaidInto
  <2>8. /\ debit.account = i.from /\ debit.user = i.user
        /\ debit.balance = s[i.from] - i.amount
        /\ credit.account = i.to /\ credit.user = i.user
        /\ credit.balance = s[i.to] + Converted(i)
    BY DEF Update
  <2> HIDE DEF debit, credit, i, s
  <2>9. /\ Updates(r) \in Seq(UpdateRecord)
        /\ \A n \in DOMAIN Updates(r) :
             Updates(r)[n] = debit \/ Updates(r)[n] = credit
        /\ \E n \in DOMAIN Updates(r) : Updates(r)[n] = debit
        /\ \E n \in DOMAIN Updates(r) : Updates(r)[n] = credit
    BY <2>4, <2>5, TwoUpdates, Zenon
  <2>10. i = req[r]
    BY DEF i
  <2>11. /\ balance'[i.from] = s[i.from] - i.amount
         /\ Owner[i.to] \in User => balance'[i.to] = s[i.to] + Converted(i)
    BY <1>5, <2>3, <2>6
  <2>12. /\ debit.account \in Written(i) /\ credit.account \in Written(i)
         /\ debit.balance = balance'[debit.account]
         /\ Owner[credit.account] \in User =>
              credit.balance = balance'[credit.account]
    BY <2>6, <2>8, <2>11
  <2>13. /\ MayHear(debit.user, debit.account, transactions')
         /\ MayHear(credit.user, credit.account, transactions')
    BY <1>3, <2>7, <2>8 DEF MayHear
  <2>14. \A a \in Written(i) : Owner[a] \in User =>
           \E n \in DOMAIN Updates(r) : Updates(r)[n].account = a
    BY <2>1, <2>6, <2>8, <2>9
  <2>15. QED
    BY <2>9, <2>10, <2>12, <2>13, <2>14, Zenon
<1>8. QED
  BY <1>2, <1>6, <1>7

\* A broadcast that ends takes the first update off what a request announces.
LEMMA TailOf ==
  ASSUME NEW s \in Seq(UpdateRecord), s # <<>>
  PROVE  /\ Tail(s) \in Seq(UpdateRecord)
         /\ Head(s) \in UpdateRecord
         /\ 1 \in DOMAIN s
         /\ Head(s) = s[1]
         /\ \A n \in DOMAIN Tail(s) : /\ n \in Nat \ {0} /\ n + 1 \in DOMAIN s
                                      /\ Tail(s)[n] = s[n + 1]
         /\ \A n \in DOMAIN s : n # 1 => /\ n - 1 \in DOMAIN Tail(s)
                                         /\ Tail(s)[n - 1] = s[n]
<1>1. /\ Len(s) \in Nat /\ DOMAIN s = 1..Len(s) /\ Len(s) # 0
  BY LenProperties, EmptySeq
<1>2. /\ Head(s) \in UpdateRecord
      /\ Tail(s) \in Seq(UpdateRecord)
      /\ Len(Tail(s)) = Len(s) - 1
      /\ \A n \in 1..Len(Tail(s)) : Tail(s)[n] = s[n + 1]
  BY HeadTailProperties
<1>3. DOMAIN Tail(s) = 1..Len(Tail(s))
  BY <1>2, LenProperties
<1>4. Head(s) = s[1]
  OBVIOUS
<1>5. \A n \in DOMAIN s : n # 1 => /\ n - 1 \in 1..Len(Tail(s))
                                   /\ Tail(s)[n - 1] = s[(n - 1) + 1]
  BY <1>1, <1>2
<1>6. \A n \in DOMAIN s : (n - 1) + 1 = n
  BY <1>1
<1>7. \A n \in DOMAIN Tail(s) : n \in Nat \ {0} /\ n + 1 \in DOMAIN s
  BY <1>1, <1>2, <1>3
<1>8. 1 \in DOMAIN s
  BY <1>1
<1>9. QED
  BY <1>2, <1>3, <1>4, <1>5, <1>6, <1>7, <1>8

\* What is put into a buffer comes after all that is in it.
LEMMA AppendTo ==
  ASSUME NEW s \in Seq(UpdateRecord), NEW u \in UpdateRecord
  PROVE  /\ Append(s, u) \in Seq(UpdateRecord)
         /\ Len(s) + 1 \in DOMAIN Append(s, u)
         /\ Append(s, u)[Len(s) + 1] = u
         /\ \A n \in DOMAIN s : /\ n \in DOMAIN Append(s, u)
                                /\ Append(s, u)[n] = s[n]
         /\ \A n \in DOMAIN Append(s, u) : /\ ~(n > Len(s) + 1)
                                           /\ n = Len(s) + 1 \/ n \in DOMAIN s
<1>1. /\ Len(s) \in Nat /\ DOMAIN s = 1..Len(s)
  BY LenProperties
<1>2. /\ Append(s, u) \in Seq(UpdateRecord)
      /\ Len(Append(s, u)) = Len(s) + 1
      /\ \A n \in 1..Len(s) : Append(s, u)[n] = s[n]
      /\ Append(s, u)[Len(s) + 1] = u
  BY AppendProperties
<1>3. DOMAIN Append(s, u) = 1..(Len(s) + 1)
  BY <1>2, LenProperties
<1>4. /\ Len(s) + 1 \in 1..(Len(s) + 1)
      /\ \A n \in 1..Len(s) : n \in 1..(Len(s) + 1)
      /\ \A n \in 1..(Len(s) + 1) : /\ ~(n > Len(s) + 1)
                                    /\ n = Len(s) + 1 \/ n \in 1..Len(s)
  BY <1>1
<1>5. QED
  BY <1>1, <1>2, <1>3, <1>4

\* The last update of an account in the buffer is what the page will show.
LEMMA WillShowSent ==
  ASSUME FeedTypeOK, NEW c \in Client, NEW u \in UpdateRecord, shown' = shown,
         buffer' = [buffer EXCEPT ![c] = Append(@, u)]
  PROVE  /\ WillShow(c, u.account, u.balance)'
         /\ \A a \in Account, amount \in Int :
              a # u.account /\ WillShow(c, a, amount) => WillShow(c, a, amount)'
<1> DEFINE s == buffer[c]
           t == Append(s, u)
<1>1. s \in Seq(UpdateRecord) /\ buffer'[c] = t
  BY DEF FeedTypeOK
<1>2. Len(s) \in Nat /\ DOMAIN s = 1..Len(s)
  BY <1>1, LenProperties
<1>3. /\ Len(s) + 1 \in DOMAIN t
      /\ t[Len(s) + 1] = u
      /\ \A n \in DOMAIN s : n \in DOMAIN t /\ t[n] = s[n]
      /\ \A n \in DOMAIN t : /\ ~(n > Len(s) + 1)
                             /\ n = Len(s) + 1 \/ n \in DOMAIN s
  BY <1>1, AppendTo, Zenon
<1> HIDE DEF t
<1>4. WillShow(c, u.account, u.balance)'
  BY <1>1, <1>3, Zenon DEF WillShow
<1>5. ASSUME NEW a \in Account, NEW amount \in Int, a # u.account,
             WillShow(c, a, amount)
      PROVE  WillShow(c, a, amount)'
  <2>1. CASE \E n \in DOMAIN s : /\ s[n].account = a
                                 /\ s[n].balance = amount
                                 /\ \A k \in DOMAIN s : k > n => s[k].account # a
    <3>1. PICK n \in DOMAIN s : /\ s[n].account = a
                                /\ s[n].balance = amount
                                /\ \A k \in DOMAIN s : k > n => s[k].account # a
      BY <2>1
    <3>2. n \in DOMAIN t /\ t[n] = s[n]
      BY <1>3
    <3>3. ASSUME NEW k \in DOMAIN t, k > n
          PROVE  t[k].account # a
      BY <1>3, <1>5, <3>1, <3>3, Zenon
    <3>4. QED
      BY <1>1, <3>1, <3>2, <3>3, Zenon DEF WillShow
  <2>2. CASE /\ \A n \in DOMAIN s : s[n].account # a
             /\ shown[c][a] = amount
    <3>1. \A n \in DOMAIN t : t[n].account # a
      BY <1>3, <1>5, <2>2, Zenon
    <3>2. QED
      BY <1>1, <2>2, <3>1, Zenon DEF WillShow
  <2>3. QED
    BY <1>5, <2>1, <2>2 DEF WillShow
<1>6. QED
  BY <1>4, <1>5

\* A page that reads its buffer shows in the end what it would have shown.
LEMMA WillShowRead ==
  ASSUME FeedTypeOK, NEW c \in Client, WriteMessage(c), conn[c] = "open"
  PROVE  \A a \in Account, amount \in Int :
           WillShow(c, a, amount) => WillShow(c, a, amount)'
<1> DEFINE s == buffer[c]
           t == Tail(s)
           u == Head(s)
<1>1. s \in Seq(UpdateRecord) /\ s # <<>> /\ buffer'[c] = t
  BY DEF FeedTypeOK, WriteMessage
<1>2. /\ u \in UpdateRecord
      /\ 1 \in DOMAIN s
      /\ u = s[1]
      /\ \A n \in DOMAIN t : n \in Nat \ {0} /\ n + 1 \in DOMAIN s /\ t[n] = s[n + 1]
      /\ \A n \in DOMAIN s : n # 1 => n - 1 \in DOMAIN t /\ t[n - 1] = s[n]
  BY <1>1, TailOf, Zenon
<1>3. DOMAIN s \subseteq Nat \ {0}
  BY <1>1, LenProperties
<1>4. u.account \in Account /\ u.balance \in Int
  BY <1>2 DEF UpdateRecord
<1>5. shown' = [shown EXCEPT ![c][u.account] = u.balance]
  BY DEF WriteMessage
<1>6. shown'[c] = [shown[c] EXCEPT ![u.account] = u.balance]
  BY <1>5 DEF FeedTypeOK
<1>7. \A a \in Account :
        shown'[c][a] = IF a = u.account THEN u.balance ELSE shown[c][a]
  BY <1>4, <1>6 DEF FeedTypeOK
<1> HIDE DEF t, u
<1> SUFFICES ASSUME NEW a \in Account, NEW amount \in Int,
                    WillShow(c, a, amount)
             PROVE  WillShow(c, a, amount)'
  OBVIOUS
<1>8. CASE \E n \in DOMAIN s : /\ s[n].account = a
                               /\ s[n].balance = amount
                               /\ \A k \in DOMAIN s : k > n => s[k].account # a
  <2>1. PICK n \in DOMAIN s : /\ s[n].account = a
                              /\ s[n].balance = amount
                              /\ \A k \in DOMAIN s : k > n => s[k].account # a
    BY <1>8
  <2>2. CASE n = 1
    <3>1. \A k \in DOMAIN t : t[k].account # a
      <4>1. \A k \in DOMAIN t : k + 1 > n
        BY <1>2, <2>2
      <4>2. QED
        BY <1>2, <2>1, <4>1, Zenon
    <3>2. shown'[c][a] = amount
      BY <1>2, <1>7, <2>1, <2>2
    <3>3. QED
      BY <1>1, <3>1, <3>2, Zenon DEF WillShow
  <2>3. CASE n # 1
    <3>1. n - 1 \in DOMAIN t /\ t[n - 1] = s[n]
      BY <1>2, <2>3
    <3>2. ASSUME NEW k \in DOMAIN t, k > n - 1
          PROVE  t[k].account # a
      <4>1. k + 1 \in DOMAIN s /\ t[k] = s[k + 1] /\ k \in Nat
        BY <1>2
      <4>2. k + 1 > n
        BY <1>3, <3>2, <4>1
      <4>3. QED
        BY <2>1, <4>1, <4>2, Zenon
    <3>3. QED
      BY <1>1, <2>1, <3>1, <3>2, Zenon DEF WillShow
  <2>4. QED
    BY <2>2, <2>3
<1>9. CASE /\ \A n \in DOMAIN s : s[n].account # a
           /\ shown[c][a] = amount
  <2>1. \A n \in DOMAIN t : t[n].account # a
    BY <1>2, <1>9, Zenon
  <2>2. shown'[c][a] = amount
    BY <1>2, <1>7, <1>9
  <2>3. QED
    BY <1>1, <2>1, <2>2, Zenon DEF WillShow
<1>10. QED
  BY <1>8, <1>9 DEF WillShow

----------------------------------------------------------------------------
(* Steps of the feed. *)

\* A step of the service that posts nothing changes nothing of the feed.
LEMMA ServeOnTheWay ==
  ASSUME FeedInv, FeedClientsAct \/ \E r \in Request : FeedServe(r)
  PROVE  OnTheWay'
<1>1. UNCHANGED <<balance, transactions>> /\ UNCHANGED feedVars
  BY ServeKeepsBalances DEF FeedInv
<1>2. Next /\ IInv
  BY FeedStepServes DEF FeedInv, OnceInv, FeedClientsAct, FeedServe, Serve, Next
<1>3. AnnouncersDone'
  BY <1>1, <1>2, DoneStays DEF FeedInv, OnTheWay, AnnouncersDone, feedVars
<1>4. (FeedTypeOK /\ SendingHead /\ HubOpen)'
  BY <1>1 DEF FeedInv, OnTheWay, feedVars, clientVars, FeedTypeOK, SendingHead,
     HubOpen
<1>5. (AnnouncedTrue /\ BuffersTrue /\ AnnouncedCurrent)'
  BY <1>1 DEF FeedInv, OnTheWay, feedVars, clientVars, AnnouncedTrue,
     BuffersTrue, AnnouncedCurrent
<1>6. Fresh'
  BY <1>1 DEF FeedInv, OnTheWay, feedVars, clientVars, Fresh, Pending, WillShow
<1>7. QED
  BY <1>3, <1>4, <1>5, <1>6 DEF OnTheWay

\* A commit has nothing announced before, and its own updates afterwards.
LEMMA CommitAnnounces ==
  ASSUME FeedInv, NEW r \in Request, FeedCommit(r)
  PROVE  /\ announcing[r] = <<>> /\ sending[r] = {}
         /\ announcing' = [announcing EXCEPT ![r] = announcing'[r]]
         /\ announcing'[r] \in Seq(UpdateRecord)
         /\ announcing'[r] # <<>> => pc'[r] = "done"
         /\ \A n \in DOMAIN announcing'[r] :
              LET update == announcing'[r][n]
              IN  /\ update.account \in Account
                  /\ MayHear(update.user, update.account, transactions')
                  /\ Owner[update.account] \in User =>
                       update.balance = balance'[update.account]
<1>1. Commit(r) /\ IInv
  BY DEF FeedCommit, FeedInv, OnceInv
<1>2. pc[r] = "commit" /\ pc'[r] = "done"
  BY <1>1, CommitRow, SoundRequest
<1>3. announcing[r] = <<>>
  BY <1>2 DEF FeedInv, OnTheWay, AnnouncersDone
<1>4. sending[r] = {}
  BY <1>3 DEF FeedInv, OnTheWay, SendingHead
<1>5. announcing \in [Request -> Seq(UpdateRecord)]
  BY DEF FeedInv, OnTheWay, FeedTypeOK
<1>6. announcing' = [announcing EXCEPT ![r] = announcing'[r]]
  BY <1>5 DEF FeedCommit
<1>7. announcing'[r] = Updates(r) \/ announcing'[r] = <<>>
  BY <1>5 DEF FeedCommit
<1>8. \A u \in UpdateRecord : u.account \in Account
  BY DEF UpdateRecord
<1>9. CASE announcing'[r] = Updates(r)
  <2> DEFINE s == Updates(r)
  <2>1. /\ s \in Seq(UpdateRecord)
        /\ \A n \in DOMAIN s :
             /\ MayHear(s[n].user, s[n].account, transactions')
             /\ Owner[s[n].account] \in User => s[n].balance = balance'[s[n].account]
    BY <1>1, CommitUpdates
  <2> HIDE DEF s
  <2>2. \A n \in DOMAIN s : s[n] \in UpdateRecord
    BY <2>1, LenProperties, ElementOfSeq
  <2>3. announcing'[r] = s
    BY <1>9 DEF s
  <2>4. QED
    BY <1>2, <1>3, <1>4, <1>6, <1>8, <2>1, <2>2, <2>3, Zenon
<1>10. CASE announcing'[r] = <<>>
  <2>1. /\ announcing'[r] \in Seq(UpdateRecord)
        /\ DOMAIN announcing'[r] = {}
    BY <1>10
  <2>2. QED
    BY <1>2, <1>3, <1>4, <1>6, <2>1, Zenon
<1>11. QED
  BY <1>7, <1>9, <1>10

\* A commit disturbs whoever may miss one of its balances; for the others it
\* changes the balances it announces.
LEMMA CommitDisturbs ==
  ASSUME FeedInv, NEW r \in Request, FeedCommit(r),
         NEW c \in Client, NEW a \in Account, <<c, a>> \notin disturbed'
  PROVE  /\ <<c, a>> \notin disturbed
         /\ a \in Written(req[r]) =>
              /\ \A s \in Request : ~Announces(s, a)
              /\ Owner[a] \in User =>
                   \E n \in DOMAIN announcing'[r] : announcing'[r][n].account = a
         /\ a \notin Written(req[r]) => balance'[a] = balance[a]
<1>1. Commit(r) /\ IInv
  BY DEF FeedCommit, FeedInv, OnceInv
<1>2. balance' = [b \in Account |-> IF b \in Written(req[r]) THEN Staged(r)[b]
                                                              ELSE balance[b]]
  BY <1>1 DEF Commit, CommitTx
<1>3. a \in Written(req[r]) =>
        answer'[r] = "ok" /\ \A s \in Request : ~Announces(s, a)
  BY DEF FeedCommit
<1>4. answer'[r] = "ok" => announcing'[r] = Updates(r)
  BY DEF FeedCommit, FeedInv, OnTheWay, FeedTypeOK
<1>5. \A b \in Written(req[r]) : Owner[b] \in User =>
        \E n \in DOMAIN Updates(r) : Updates(r)[n].account = b
  BY <1>1, CommitUpdates
<1>6. <<c, a>> \notin disturbed
  BY DEF FeedCommit
<1>7. QED
  BY <1>2, <1>3, <1>4, <1>5, <1>6

LEMMA CommitOnTheWay ==
  ASSUME FeedInv, NEW r \in Request, FeedCommit(r)
  PROVE  OnTheWay'
<1>1. /\ announcing[r] = <<>> /\ sending[r] = {}
      /\ announcing' = [announcing EXCEPT ![r] = announcing'[r]]
      /\ announcing'[r] \in Seq(UpdateRecord)
      /\ announcing'[r] # <<>> => pc'[r] = "done"
      /\ \A n \in DOMAIN announcing'[r] :
           /\ announcing'[r][n].account \in Account
           /\ MayHear(announcing'[r][n].user, announcing'[r][n].account, transactions')
           /\ Owner[announcing'[r][n].account] \in User =>
                announcing'[r][n].balance = balance'[announcing'[r][n].account]
  BY CommitAnnounces
<1>2. UNCHANGED <<sending, hub, conn, running, buffer, shown>>
  BY DEF FeedCommit, clientVars
<1>3. /\ past \subseteq past'
      /\ \A a \in Account : <<a, balance'[a]>> \in past'
      /\ disturbed \subseteq disturbed'
      /\ transactions \subseteq transactions'
  BY DEF FeedCommit, Commit
<1>4. Next /\ IInv
  BY DEF FeedCommit, FeedInv, OnceInv, Serve, Next
<1>5. FeedTypeOK
  BY DEF FeedInv, OnTheWay
<1>6. \A s \in Request \ {r} : announcing'[s] = announcing[s]
  BY <1>1, <1>5 DEF FeedTypeOK
<1>7. FeedTypeOK'
  <2>1. announcing' \in [Request -> Seq(UpdateRecord)]
    BY <1>1, <1>5 DEF FeedTypeOK
  <2>2. Written(req[r]) \subseteq Account
    BY <1>4, PostingType, SoundRequest DEF FeedCommit, Commit, Decided, Writing, Written
  <2>3. disturbed' \subseteq Client \X Account
    BY <1>5, <2>2 DEF FeedCommit, FeedTypeOK
  <2>4. QED
    BY <1>2, <1>5, <2>1, <2>3 DEF FeedTypeOK
<1>8. AnnouncersDone'
  BY <1>1, <1>4, <1>6, DoneStays DEF FeedInv, OnTheWay, AnnouncersDone
<1>9. SendingHead'
  BY <1>1, <1>2, <1>6 DEF FeedInv, OnTheWay, SendingHead
<1>10. HubOpen'
  BY <1>2 DEF FeedInv, OnTheWay, HubOpen
<1>11. AnnouncedTrue'
  <2>1. ASSUME NEW s \in Request, s # r, NEW n \in DOMAIN announcing'[s]
        PROVE  TrueUpdate(announcing'[s][n], transactions', past')
    BY <1>3, <1>6, <2>1, StaysTrue DEF FeedInv, OnTheWay, AnnouncedTrue
  <2>2. ASSUME NEW n \in DOMAIN announcing'[r]
        PROVE  TrueUpdate(announcing'[r][n], transactions', past')
    BY <1>1, <1>3 DEF TrueUpdate
  <2>3. QED
    BY <2>1, <2>2 DEF AnnouncedTrue
<1>12. BuffersTrue'
  BY <1>2, <1>3, StaysTrue DEF FeedInv, OnTheWay, BuffersTrue
<1>13. AnnouncedCurrent'
  <2>1. ASSUME NEW s \in Request, s # r, NEW n \in DOMAIN announcing'[s],
               NEW c \in Client, <<c, announcing'[s][n].account>> \notin disturbed',
               Owner[announcing'[s][n].account] \in User
        PROVE  announcing'[s][n].balance = balance'[announcing'[s][n].account]
    <3> DEFINE a == announcing[s][n].account
    <3>1. /\ announcing'[s] = announcing[s]
          /\ n \in DOMAIN announcing[s]
      BY <1>6, <2>1
    <3>2. a \in Account
      <4>1. announcing[s] \in Seq(UpdateRecord)
        BY <1>5 DEF FeedTypeOK
      <4>2. announcing[s][n] \in UpdateRecord
        BY <3>1, <4>1, LenProperties, ElementOfSeq
      <4>3. QED
        BY <4>2 DEF UpdateRecord
    <3>3. Announces(s, a)
      BY <3>1 DEF Announces
    <3>4. <<c, a>> \notin disturbed /\ balance'[a] = balance[a]
      BY <2>1, <3>1, <3>2, <3>3, CommitDisturbs
    <3>5. announcing[s][n].balance = balance[a]
      BY <2>1, <3>1, <3>4 DEF FeedInv, OnTheWay, AnnouncedCurrent
    <3>6. QED
      BY <3>1, <3>4, <3>5
  <2>2. ASSUME NEW n \in DOMAIN announcing'[r],
               Owner[announcing'[r][n].account] \in User
        PROVE  announcing'[r][n].balance = balance'[announcing'[r][n].account]
    BY <1>1, <2>2
  <2>3. QED
    BY <2>1, <2>2 DEF AnnouncedCurrent
<1>14. Fresh'
  <2> SUFFICES ASSUME NEW c \in Client, NEW a \in Account, conn'[c] = "open",
                      Owner[a] = ClientUser[c], OwnerOnly(a, transactions'),
                      <<c, a>> \notin disturbed'
               PROVE  \/ \E s \in Request : Pending(s, c, a)'
                      \/ WillShow(c, a, balance[a])'
    BY DEF Fresh
  <2>1. Owner[a] \in User
    BY FeedAssumption
  <2>2. <<c, a>> \notin disturbed /\ OwnerOnly(a, transactions)
    BY <1>3, CommitDisturbs DEF OwnerOnly
  <2>3. CASE a \in Written(req[r])
    <3>1. \E n \in DOMAIN announcing'[r] : announcing'[r][n].account = a
      BY <2>1, <2>3, CommitDisturbs
    <3>2. Pending(r, c, a)'
      BY <1>1, <1>2, <3>1 DEF Pending
    <3>3. QED
      BY <3>2
  <2>4. CASE a \notin Written(req[r])
    <3>1. balance'[a] = balance[a]
      BY <2>4, CommitDisturbs
    <3>2. CASE \E s \in Request : Pending(s, c, a)
      <4>1. PICK s \in Request : Pending(s, c, a)
        BY <3>2
      <4>2. s # r
        BY <1>1, <4>1 DEF Pending
      <4>3. Pending(s, c, a)'
        BY <1>2, <1>6, <4>1, <4>2 DEF Pending
      <4>4. QED
        BY <4>3
    <3>3. CASE WillShow(c, a, balance[a])
      BY <1>2, <3>1, <3>3 DEF WillShow
    <3>4. QED
      BY <1>2, <2>2, <3>2, <3>3 DEF FeedInv, OnTheWay, Fresh
  <2>5. QED
    BY <2>3, <2>4
<1>15. QED
  BY <1>7, <1>8, <1>9, <1>10, <1>11, <1>12, <1>13, <1>14 DEF OnTheWay

\* What is left of a request's updates when a broadcast has ended.
LEMMA BroadcastEnded ==
  ASSUME FeedTypeOK, NEW r \in Request, announcing[r] # <<>>, BroadcastEnds(r)
  PROVE  /\ announcing' \in [Request -> Seq(UpdateRecord)]
         /\ \A s \in Request \ {r} : announcing'[s] = announcing[s]
         /\ announcing'[r] = Tail(announcing[r])
         /\ \A n \in DOMAIN announcing'[r] :
              /\ n + 1 \in DOMAIN announcing[r]
              /\ announcing'[r][n] = announcing[r][n + 1]
         /\ \A n \in DOMAIN announcing[r] : n # 1 =>
              /\ n - 1 \in DOMAIN announcing'[r]
              /\ announcing'[r][n - 1] = announcing[r][n]
<1> DEFINE s == announcing[r]
<1>1. s \in Seq(UpdateRecord)
  BY DEF FeedTypeOK
<1>2. announcing'[r] = Tail(s)
  BY DEF BroadcastEnds, FeedTypeOK
<1>3. /\ Tail(s) \in Seq(UpdateRecord)
      /\ \A n \in DOMAIN Tail(s) : n + 1 \in DOMAIN s /\ Tail(s)[n] = s[n + 1]
      /\ \A n \in DOMAIN s : n # 1 => /\ n - 1 \in DOMAIN Tail(s)
                                      /\ Tail(s)[n - 1] = s[n]
  BY <1>1, TailOf, Zenon
<1>4. announcing' \in [Request -> Seq(UpdateRecord)]
  BY <1>3 DEF BroadcastEnds, FeedTypeOK
<1>5. \A q \in Request \ {r} : announcing'[q] = announcing[q]
  BY DEF BroadcastEnds, FeedTypeOK
<1>6. QED
  BY <1>2, <1>3, <1>4, <1>5, Zenon

\* What is announced stays true and current when a broadcast ends.
LEMMA StillAnnounced ==
  ASSUME OnTheWay, NEW r \in Request, announcing[r] # <<>>,
         BroadcastEnds(r) \/ UNCHANGED announcing,
         UNCHANGED <<balance, pc, transactions, past>>, disturbed \subseteq disturbed'
  PROVE  /\ announcing' \in [Request -> Seq(UpdateRecord)]
         /\ AnnouncersDone' /\ AnnouncedTrue' /\ AnnouncedCurrent'
<1>1. /\ announcing' \in [Request -> Seq(UpdateRecord)]
      /\ \A s \in Request : \A n \in DOMAIN announcing'[s] :
           \E k \in DOMAIN announcing[s] : announcing'[s][n] = announcing[s][k]
  <2>1. CASE UNCHANGED announcing
    BY <2>1 DEF OnTheWay, FeedTypeOK
  <2>2. CASE BroadcastEnds(r)
    <3>1. /\ announcing' \in [Request -> Seq(UpdateRecord)]
          /\ \A s \in Request \ {r} : announcing'[s] = announcing[s]
          /\ \A n \in DOMAIN announcing'[r] :
               /\ n + 1 \in DOMAIN announcing[r]
               /\ announcing'[r][n] = announcing[r][n + 1]
      BY <2>2, BroadcastEnded, Zenon DEF OnTheWay
    <3>2. QED
      BY <3>1, Zenon
  <2>3. QED
    BY <2>1, <2>2
<1>2. AnnouncersDone'
  <2>1. ASSUME NEW s \in Request, announcing'[s] # <<>>
        PROVE  pc[s] = "done"
    <3>1. announcing[s] # <<>>
      BY <2>1, BroadcastEnded DEF OnTheWay, BroadcastEnds, FeedTypeOK
    <3>2. QED
      BY <3>1 DEF OnTheWay, AnnouncersDone
  <2>2. QED
    BY <2>1 DEF AnnouncersDone
<1>3. AnnouncedTrue'
  <2>1. ASSUME NEW s \in Request, NEW n \in DOMAIN announcing'[s]
        PROVE  TrueUpdate(announcing'[s][n], transactions, past)
    <3>1. PICK k \in DOMAIN announcing[s] : announcing'[s][n] = announcing[s][k]
      BY <1>1
    <3>2. QED
      BY <3>1 DEF OnTheWay, AnnouncedTrue
  <2>2. QED
    BY <2>1 DEF AnnouncedTrue
<1>4. AnnouncedCurrent'
  <2>1. ASSUME NEW s \in Request, NEW n \in DOMAIN announcing'[s], NEW c \in Client,
               <<c, announcing'[s][n].account>> \notin disturbed',
               Owner[announcing'[s][n].account] \in User
        PROVE  announcing'[s][n].balance = balance'[announcing'[s][n].account]
    <3>1. PICK k \in DOMAIN announcing[s] : announcing'[s][n] = announcing[s][k]
      BY <1>1
    <3>2. <<c, announcing[s][k].account>> \notin disturbed
      BY <2>1, <3>1
    <3>3. announcing[s][k].balance = balance[announcing[s][k].account]
      BY <2>1, <3>1, <3>2 DEF OnTheWay, AnnouncedCurrent
    <3>4. QED
      BY <3>1, <3>3
  <2>2. QED
    BY <2>1 DEF AnnouncedCurrent
<1>5. QED
  BY <1>1, <1>2, <1>3, <1>4

\* The first update of a request is for a client its broadcast serves.
LEMMA HeadUpdate ==
  ASSUME OnTheWay, NEW r \in Request, announcing[r] # <<>>, NEW u,
         u = Head(announcing[r])
  PROVE  /\ u \in UpdateRecord
         /\ 1 \in DOMAIN announcing[r]
         /\ u = announcing[r][1]
         /\ TrueUpdate(u, transactions, past)
         /\ \A c \in sending[r] : c \in Client /\ c \in hub /\ ClientUser[c] = u.user
         /\ \A c \in Client :
              <<c, u.account>> \notin disturbed /\ Owner[u.account] \in User =>
                u.balance = balance[u.account]
<1>1. announcing[r] \in Seq(UpdateRecord)
  BY DEF OnTheWay, FeedTypeOK
<1>2. u \in UpdateRecord /\ 1 \in DOMAIN announcing[r] /\ u = announcing[r][1]
  BY <1>1, TailOf
<1>3. TrueUpdate(u, transactions, past)
  BY <1>2 DEF OnTheWay, AnnouncedTrue
<1>4. \A c \in sending[r] : c \in Client /\ c \in hub /\ ClientUser[c] = u.user
  BY DEF OnTheWay, SendingHead, FeedTypeOK
<1>5. \A c \in Client :
        <<c, u.account>> \notin disturbed /\ Owner[u.account] \in User =>
          u.balance = balance[u.account]
  BY <1>2 DEF OnTheWay, AnnouncedCurrent
<1>6. QED
  BY <1>2, <1>3, <1>4, <1>5

\* The lock of the hub is taken for the registered clients of the user, and
\* an open page whose update is still on the way is one of them.
LEMMA StartOnTheWay ==
  ASSUME OnTheWay, NEW r \in Request, StartBroadcast(r)
  PROVE  OnTheWay'
<1> DEFINE u == Head(announcing[r])
           clients == Registered(u.user)
<1>1. /\ announcing[r] # <<>> /\ sending[r] = {}
      /\ sending' = [sending EXCEPT ![r] = clients]
      /\ IF clients = {} THEN BroadcastEnds(r) ELSE UNCHANGED announcing
      /\ UNCHANGED <<balance, pc, transactions, past, disturbed>>
      /\ UNCHANGED <<hub, conn, running, buffer, shown>>
  BY DEF StartBroadcast, vars, txVars, clientVars
<1>2. /\ 1 \in DOMAIN announcing[r] /\ u = announcing[r][1]
      /\ TrueUpdate(u, transactions, past)
  BY <1>1, HeadUpdate
<1>3. /\ announcing' \in [Request -> Seq(UpdateRecord)]
      /\ AnnouncersDone' /\ AnnouncedTrue' /\ AnnouncedCurrent'
  BY <1>1, StillAnnounced
<1>4. FeedTypeOK
  BY DEF OnTheWay
<1>5. \A c \in clients : c \in hub /\ c \in Client /\ ClientUser[c] = u.user
  BY <1>4 DEF Registered, FeedTypeOK
<1>6. /\ sending' \in [Request -> SUBSET Client]
      /\ sending'[r] = clients
      /\ \A s \in Request \ {r} : sending'[s] = sending[s]
  BY <1>1, <1>4, <1>5 DEF FeedTypeOK
<1>7. \A s \in Request \ {r} : announcing'[s] = announcing[s]
  BY <1>1, <1>4, BroadcastEnded
<1>8. FeedTypeOK'
  BY <1>1, <1>3, <1>4, <1>6 DEF FeedTypeOK
<1>9. SendingHead'
  <2>1. ASSUME NEW s \in Request, NEW c \in sending'[s]
        PROVE  /\ announcing'[s] # <<>>
               /\ c \in hub'
               /\ ClientUser[c] = Head(announcing'[s]).user
    <3>1. CASE s = r
      <4>1. c \in clients
        BY <1>6, <2>1, <3>1
      <4>2. announcing' = announcing
        BY <1>1, <4>1
      <4>3. QED
        BY <1>1, <1>5, <3>1, <4>1, <4>2
    <3>2. CASE s # r
      <4>1. sending'[s] = sending[s] /\ announcing'[s] = announcing[s]
        BY <1>6, <1>7, <3>2
      <4>2. QED
        BY <1>1, <4>1 DEF OnTheWay, SendingHead
    <3>3. QED
      BY <3>1, <3>2
  <2>2. QED
    BY <2>1 DEF SendingHead
<1>10. HubOpen' /\ BuffersTrue'
  BY <1>1 DEF OnTheWay, HubOpen, BuffersTrue
<1>11. Fresh'
  <2> SUFFICES ASSUME NEW c \in Client, NEW a \in Account, conn[c] = "open",
                      Owner[a] = ClientUser[c], OwnerOnly(a, transactions),
                      <<c, a>> \notin disturbed,
                      NEW s \in Request, Pending(s, c, a)
               PROVE  Pending(s, c, a)'
    BY <1>1 DEF OnTheWay, Fresh, WillShow
  <2>1. CASE s # r
    BY <1>6, <1>7, <2>1 DEF Pending
  <2>2. CASE s = r
    <3>1. PICK n \in DOMAIN announcing[r] : announcing[r][n].account = a
      BY <2>2 DEF Pending
    <3>2. CASE n = 1
      <4>0. u.user = Owner[a]
        BY <1>2, <3>1, <3>2 DEF TrueUpdate, MayHear, OwnerOnly
      <4>1. c \in clients
        BY <4>0 DEF OnTheWay, HubOpen, Registered
      <4>2. announcing' = announcing
        BY <1>1, <4>1
      <4>3. QED
        BY <1>6, <2>2, <3>1, <4>1, <4>2 DEF Pending
    <3>3. CASE n # 1 /\ clients # {}
      <4>1. announcing' = announcing
        BY <1>1, <3>3
      <4>2. QED
        BY <2>2, <3>1, <3>3, <4>1 DEF Pending
    <3>4. CASE n # 1 /\ clients = {}
      <4>1. /\ n - 1 \in DOMAIN announcing'[r]
            /\ announcing'[r][n - 1] = announcing[r][n]
        BY <1>1, <1>4, <3>4, BroadcastEnded, Zenon
      <4>2. sending'[r] = {}
        BY <1>6, <3>4
      <4>3. QED
        BY <2>2, <3>1, <4>1, <4>2, Zenon DEF Pending
    <3>5. QED
      BY <3>2, <3>3, <3>4
  <2>3. QED
    BY <2>1, <2>2
<1>12. QED
  BY <1>3, <1>8, <1>9, <1>10, <1>11 DEF OnTheWay

\* An update reaches a buffer with room; of a full one it is known to be lost.
LEMMA SendOnTheWay ==
  ASSUME OnTheWay, TypeOK, NEW r \in Request, NEW d \in Client, Send(r, d)
  PROVE  OnTheWay'
<1>0. PICK u : u = Head(announcing[r])
  OBVIOUS
<1>1. /\ d \in sending[r]
      /\ sending' = [sending EXCEPT ![r] = sending[r] \ {d}]
      /\ IF sending[r] = {d} THEN BroadcastEnds(r) ELSE UNCHANGED announcing
      /\ UNCHANGED <<balance, pc, transactions, past, hub, conn, running, shown>>
  BY DEF Send, vars, txVars
<1>2. \/ disturbed' = disturbed \cup {<<d, u.account>>} /\ buffer' = buffer
      \/ disturbed' = disturbed /\ buffer' = [buffer EXCEPT ![d] = Append(@, u)]
  BY <1>0 DEF Send
<1>3. announcing[r] # <<>>
  BY <1>1 DEF OnTheWay, SendingHead
<1>4. /\ u \in UpdateRecord
      /\ 1 \in DOMAIN announcing[r] /\ u = announcing[r][1]
      /\ TrueUpdate(u, transactions, past)
      /\ \A c \in sending[r] : c \in Client /\ c \in hub /\ ClientUser[c] = u.user
      /\ <<d, u.account>> \notin disturbed /\ Owner[u.account] \in User =>
           u.balance = balance[u.account]
  BY <1>0, <1>3, HeadUpdate
<1>5. u.account \in Account /\ u.balance \in Int
  BY <1>4 DEF UpdateRecord
<1>6. disturbed \subseteq disturbed' /\ disturbed' \subseteq Client \X Account
  BY <1>2, <1>5 DEF OnTheWay, FeedTypeOK
<1>7. /\ announcing' \in [Request -> Seq(UpdateRecord)]
      /\ AnnouncersDone' /\ AnnouncedTrue' /\ AnnouncedCurrent'
  BY <1>1, <1>3, <1>6, StillAnnounced
<1>8. FeedTypeOK
  BY DEF OnTheWay
<1>9. /\ sending' \in [Request -> SUBSET Client]
      /\ sending'[r] = sending[r] \ {d}
      /\ \A s \in Request \ {r} : sending'[s] = sending[s]
  BY <1>1, <1>8 DEF FeedTypeOK
<1>10. \A s \in Request \ {r} : announcing'[s] = announcing[s]
  BY <1>1, <1>3, <1>8, BroadcastEnded
<1>11. /\ buffer' \in [Client -> Seq(UpdateRecord)]
       /\ \A c \in Client \ {d} : buffer'[c] = buffer[c]
  <2>1. Append(buffer[d], u) \in Seq(UpdateRecord)
    BY <1>4, <1>8, AppendTo DEF FeedTypeOK
  <2>2. QED
    BY <1>2, <1>8, <2>1 DEF FeedTypeOK
<1>12. FeedTypeOK'
  BY <1>1, <1>6, <1>7, <1>8, <1>9, <1>11 DEF FeedTypeOK
<1>13. SendingHead'
  <2>1. ASSUME NEW s \in Request, NEW c \in sending'[s]
        PROVE  /\ announcing'[s] # <<>>
               /\ c \in hub'
               /\ ClientUser[c] = Head(announcing'[s]).user
    <3>1. c \in sending[s] /\ announcing'[s] = announcing[s]
      BY <1>1, <1>9, <1>10, <2>1
    <3>2. QED
      BY <1>1, <3>1 DEF OnTheWay, SendingHead
  <2>2. QED
    BY <2>1 DEF SendingHead
<1>14. HubOpen'
  <2>1. conn[d] # "none"
    BY <1>1, <1>4 DEF OnTheWay, HubOpen
  <2>2. QED
    BY <1>1, <1>11, <2>1 DEF OnTheWay, HubOpen
<1>15. BuffersTrue'
  <2>1. ASSUME NEW c \in Client, NEW n \in DOMAIN buffer'[c]
        PROVE  /\ buffer'[c][n].user = ClientUser[c]
               /\ TrueUpdate(buffer'[c][n], transactions, past)
    <3>1. CASE n \in DOMAIN buffer[c] /\ buffer'[c][n] = buffer[c][n]
      BY <3>1 DEF OnTheWay, BuffersTrue
    <3>2. CASE c = d /\ buffer'[c][n] = u
      BY <1>1, <1>4, <3>2
    <3>3. CASE c = d /\ buffer'[c] = Append(buffer[c], u)
      <4>1. buffer[c] \in Seq(UpdateRecord)
        BY <1>8 DEF FeedTypeOK
      <4>2. \/ n \in DOMAIN buffer[c] /\ buffer'[c][n] = buffer[c][n]
            \/ buffer'[c][n] = u
        BY <1>4, <2>1, <3>3, <4>1, AppendTo
      <4>3. QED
        BY <3>1, <3>2, <3>3, <4>2
    <3>4. QED
      BY <1>2, <1>8, <1>11, <2>1, <3>1, <3>3 DEF FeedTypeOK
  <2>2. QED
    BY <1>1, <2>1 DEF BuffersTrue
<1>16. Fresh'
  <2> SUFFICES ASSUME NEW c \in Client, NEW a \in Account, conn[c] = "open",
                      Owner[a] = ClientUser[c], OwnerOnly(a, transactions),
                      <<c, a>> \notin disturbed'
               PROVE  \/ \E s \in Request : Pending(s, c, a)'
                      \/ WillShow(c, a, balance[a])'
    BY <1>1 DEF Fresh
  <2>1. <<c, a>> \notin disturbed /\ balance[a] \in Int /\ Owner[a] \in User
    BY <1>6, FeedAssumption DEF TypeOK
  <2>2. CASE c = d /\ a = u.account
    <3>1. buffer' = [buffer EXCEPT ![d] = Append(@, u)]
      BY <1>2, <2>2
    <3>2. WillShow(d, u.account, u.balance)'
      BY <1>1, <1>4, <1>8, <3>1, WillShowSent
    <3>3. u.balance = balance'[a]
      BY <1>1, <1>4, <2>1, <2>2
    <3>4. QED
      BY <2>2, <3>2, <3>3 DEF WillShow
  <2>3. CASE ~(c = d /\ a = u.account)
    <3>1. ASSUME NEW s \in Request, Pending(s, c, a)
          PROVE  Pending(s, c, a)'
      <4>1. CASE s # r
        BY <1>9, <1>10, <3>1, <4>1 DEF Pending
      <4>2. CASE s = r
        <5>1. PICK n \in DOMAIN announcing[r] :
                /\ announcing[r][n].account = a
                /\ n = 1 /\ sending[r] # {} => c \in sending[r]
          BY <3>1, <4>2 DEF Pending
        <5>2. CASE n = 1
          <6>1. c # d /\ c \in sending[r]
            BY <1>1, <1>4, <2>3, <5>1, <5>2
          <6>2. c \in sending'[r] /\ announcing' = announcing
            BY <1>1, <1>9, <6>1
          <6>3. QED
            BY <4>2, <5>1, <6>2 DEF Pending
        <5>3. CASE n # 1 /\ announcing' = announcing
          BY <4>2, <5>1, <5>3 DEF Pending
        <5>4. CASE n # 1 /\ sending[r] = {d}
          <6>1. /\ n - 1 \in DOMAIN announcing'[r]
                /\ announcing'[r][n - 1] = announcing[r][n]
            BY <1>1, <1>3, <1>8, <5>1, <5>4, BroadcastEnded
          <6>2. sending'[r] = {}
            BY <1>9, <5>4
          <6>3. QED
            BY <4>2, <5>1, <6>1, <6>2, Zenon DEF Pending
        <5>5. QED
          BY <1>1, <5>2, <5>3, <5>4
      <4>3. QED
        BY <4>1, <4>2
    <3>2. ASSUME WillShow(c, a, balance[a])
          PROVE  WillShow(c, a, balance[a])'
      <4>1. CASE buffer'[c] = buffer[c]
        BY <1>1, <3>2, <4>1 DEF WillShow
      <4>2. CASE c = d /\ buffer' = [buffer EXCEPT ![d] = Append(@, u)]
        <5>1. PICK amount \in Int : amount = balance[a]
          BY <2>1
        <5>2. WillShow(c, a, amount)
          BY <3>2, <5>1 DEF WillShow
        <5>3. WillShow(c, a, amount)'
          BY <1>1, <1>4, <1>8, <2>3, <4>2, <5>2, WillShowSent
        <5>4. balance'[a] = amount
          BY <1>1, <5>1
        <5>5. QED
          BY <5>3, <5>4 DEF WillShow
      <4>3. QED
        BY <1>2, <1>11, <4>1, <4>2
    <3>3. QED
      BY <1>1, <2>1, <3>1, <3>2 DEF OnTheWay, Fresh
  <2>4. QED
    BY <2>2, <2>3
<1>17. QED
  BY <1>7, <1>12, <1>13, <1>14, <1>15, <1>16 DEF OnTheWay

\* A page that has just connected has read the balances, and no broadcast is
\* under way; one that leaves or whose pump ends is not looked at any more.
LEMMA ComeAndGoOnTheWay ==
  ASSUME OnTheWay, TypeOK, NEW d \in Client, NEW p \in Pumps,
         Connect(d) \/ Leave(d) \/ EndPump(d, p)
  PROVE  OnTheWay'
<1>1. UNCHANGED <<balance, pc, transactions, announcing, sending, past, disturbed>>
  BY DEF Connect, Leave, EndPump, vars, txVars
<1>2. /\ \A c \in Client \ {d} : /\ conn'[c] = conn[c]
                                 /\ buffer'[c] = buffer[c]
                                 /\ shown'[c] = shown[c]
                                 /\ c \in hub' <=> c \in hub
      /\ conn'[d] = "open" =>
           /\ d \in hub' /\ shown'[d] = balance
           /\ buffer'[d] = <<>>
      /\ conn'[d] # "none"
  BY DEF Connect, Leave, EndPump, OnTheWay, FeedTypeOK, HubOpen, Removed
<1>3. \A c \in Client : buffer'[c] = buffer[c] \/ buffer'[c] = <<>>
  BY DEF Connect, Leave, EndPump, OnTheWay, FeedTypeOK
<1>4. hub' \subseteq Client
  BY DEF Connect, Leave, EndPump, OnTheWay, FeedTypeOK
<1>5. conn' \in [Client -> {"none", "open", "lost", "closed"}]
  BY DEF Connect, Leave, EndPump, OnTheWay, FeedTypeOK
<1>6. buffer' \in [Client -> Seq(UpdateRecord)]
  <2>1. \/ buffer' = buffer
        \/ buffer' = [buffer EXCEPT ![d] = <<>>]
    BY DEF Connect, Leave, EndPump
  <2>2. <<>> \in Seq(UpdateRecord)
    BY EmptySeq
  <2>3. QED
    BY <2>1, <2>2 DEF OnTheWay, FeedTypeOK
<1>7. shown' \in [Client -> [Account -> Int]]
  <2>1. NoSnapshot \in [Account -> Int] /\ balance \in [Account -> Int]
    BY DEF NoSnapshot, TypeOK
  <2>2. \/ shown' = shown
        \/ shown' = [shown EXCEPT ![d] = balance]
        \/ shown' = [shown EXCEPT ![d] = NoSnapshot]
    BY DEF Connect, Leave, EndPump
  <2>3. QED
    BY <2>1, <2>2 DEF OnTheWay, FeedTypeOK
<1>8. FeedTypeOK'
  BY <1>1, <1>4, <1>5, <1>6, <1>7 DEF OnTheWay, FeedTypeOK
<1>9. AnnouncersDone' /\ AnnouncedTrue' /\ AnnouncedCurrent'
  BY <1>1 DEF OnTheWay, AnnouncersDone, AnnouncedTrue, AnnouncedCurrent
<1>10. SendingHead'
  <2>1. CASE hub \subseteq hub'
    BY <1>1, <2>1 DEF OnTheWay, SendingHead
  <2>2. CASE HubFree
    BY <1>1, <2>2 DEF HubFree, SendingHead
  <2>3. QED
    BY <2>1, <2>2 DEF Connect, Leave, EndPump
<1>11. HubOpen'
  BY <1>2 DEF OnTheWay, HubOpen
<1>12. BuffersTrue'
  <2>1. ASSUME NEW c \in Client, NEW n \in DOMAIN buffer'[c]
        PROVE  n \in DOMAIN buffer[c] /\ buffer'[c][n] = buffer[c][n]
    BY <1>3, <2>1
  <2>2. QED
    BY <1>1, <2>1 DEF OnTheWay, BuffersTrue
<1>13. Fresh'
  <2> SUFFICES ASSUME NEW c \in Client, NEW a \in Account, conn'[c] = "open",
                      Owner[a] = ClientUser[c], OwnerOnly(a, transactions),
                      <<c, a>> \notin disturbed
               PROVE  \/ \E s \in Request : Pending(s, c, a)'
                      \/ WillShow(c, a, balance[a])'
    BY <1>1 DEF Fresh
  <2>1. CASE c = d
    <3>1. buffer'[c] = <<>> /\ shown'[c][a] = balance'[a]
      BY <1>1, <1>2, <2>1
    <3>2. \A n \in DOMAIN buffer'[c] : buffer'[c][n].account # a
      BY <3>1
    <3>3. QED
      BY <3>1, <3>2 DEF WillShow
  <2>2. CASE c # d
    <3>1. /\ conn[c] = "open" /\ buffer'[c] = buffer[c] /\ shown'[c] = shown[c]
      BY <1>2, <2>2
    <3>2. (\E s \in Request : Pending(s, c, a)) \/ WillShow(c, a, balance[a])
      BY <3>1 DEF OnTheWay, Fresh
    <3>3. QED
      BY <1>1, <3>1, <3>2 DEF Pending, WillShow
  <2>3. QED
    BY <2>1, <2>2
<1>14. QED
  BY <1>8, <1>9, <1>10, <1>11, <1>12, <1>13 DEF OnTheWay

\* The write pump takes the oldest update and shows it.
LEMMA WriteOnTheWay ==
  ASSUME OnTheWay, TypeOK, NEW d \in Client, WriteMessage(d)
  PROVE  OnTheWay'
<1>1. UNCHANGED <<balance, pc, transactions, announcing, sending, past, disturbed>>
      /\ UNCHANGED <<hub, conn>>
  BY DEF WriteMessage, vars, txVars
<1>2. FeedTypeOK
  BY DEF OnTheWay
<1>3. buffer[d] \in Seq(UpdateRecord) /\ buffer[d] # <<>>
  BY <1>2 DEF WriteMessage, FeedTypeOK
<1>4. /\ Tail(buffer[d]) \in Seq(UpdateRecord)
      /\ Head(buffer[d]) \in UpdateRecord
      /\ \A n \in DOMAIN Tail(buffer[d]) :
           /\ n + 1 \in DOMAIN buffer[d]
           /\ Tail(buffer[d])[n] = buffer[d][n + 1]
  BY <1>3, TailOf
<1>5. /\ buffer' \in [Client -> Seq(UpdateRecord)]
      /\ buffer'[d] = Tail(buffer[d])
      /\ \A c \in Client \ {d} : buffer'[c] = buffer[c]
  BY <1>2, <1>4 DEF WriteMessage, FeedTypeOK
<1>6. /\ shown' \in [Client -> [Account -> Int]]
      /\ \A c \in Client \ {d} : shown'[c] = shown[c]
  <2>1. /\ Head(buffer[d]).account \in Account
        /\ Head(buffer[d]).balance \in Int
    BY <1>4 DEF UpdateRecord
  <2> DEFINE u == Head(buffer[d])
  <2>2. \/ shown' = shown
        \/ shown' = [shown EXCEPT ![d] = [@ EXCEPT ![u.account] = u.balance]]
    BY DEF WriteMessage
  <2>3. [shown[d] EXCEPT ![u.account] = u.balance] \in [Account -> Int]
    BY <1>2, <2>1 DEF FeedTypeOK
  <2>4. QED
    BY <1>2, <2>2, <2>3 DEF FeedTypeOK
<1>7. FeedTypeOK'
  BY <1>1, <1>2, <1>5, <1>6 DEF FeedTypeOK
<1>8. AnnouncersDone' /\ AnnouncedTrue' /\ AnnouncedCurrent' /\ SendingHead'
  BY <1>1 DEF OnTheWay, AnnouncersDone, AnnouncedTrue, AnnouncedCurrent, SendingHead
<1>9. HubOpen'
  <2>1. conn[d] # "none"
    BY DEF WriteMessage
  <2>2. QED
    BY <1>1, <1>5, <2>1 DEF OnTheWay, HubOpen
<1>10. BuffersTrue'
  <2>1. ASSUME NEW c \in Client, NEW n \in DOMAIN buffer'[c]
        PROVE  \E k \in DOMAIN buffer[c] : buffer'[c][n] = buffer[c][k]
    BY <1>4, <1>5, <2>1, Zenon
  <2>2. ASSUME NEW c \in Client, NEW n \in DOMAIN buffer'[c]
        PROVE  /\ buffer'[c][n].user = ClientUser[c]
               /\ TrueUpdate(buffer'[c][n], transactions, past)
    BY <2>1 DEF OnTheWay, BuffersTrue
  <2>3. QED
    BY <1>1, <2>2 DEF BuffersTrue
<1>11. Fresh'
  <2> SUFFICES ASSUME NEW c \in Client, NEW a \in Account, conn[c] = "open",
                      WillShow(c, a, balance[a])
               PROVE  WillShow(c, a, balance[a])'
    BY <1>1 DEF OnTheWay, Fresh, Pending
  <2>1. CASE c # d
    BY <1>1, <1>5, <1>6, <2>1 DEF WillShow
  <2>2. CASE c = d
    <3>1. PICK amount : amount = balance[a]
      OBVIOUS
    <3>2. amount \in Int /\ balance'[a] = amount
      BY <1>1, <3>1 DEF TypeOK
    <3>3. WillShow(c, a, amount)
      BY <3>1 DEF WillShow
    <3>4. WillShow(c, a, amount)'
      BY <1>2, <2>2, <3>2, <3>3, WillShowRead
    <3>5. QED
      BY <3>2, <3>4 DEF WillShow
  <2>3. QED
    BY <2>1, <2>2
<1>12. QED
  BY <1>7, <1>8, <1>9, <1>10, <1>11 DEF OnTheWay

----------------------------------------------------------------------------
(* The theorems. *)

LEMMA InitOnTheWay == FeedInit => OnTheWay
<1> SUFFICES ASSUME FeedInit
             PROVE  OnTheWay
  OBVIOUS
<1>1. FeedTypeOK
  <2>1. <<>> \in Seq(UpdateRecord) /\ NoSnapshot \in [Account -> Int]
    BY EmptySeq DEF NoSnapshot
  <2>2. QED
    BY <2>1 DEF FeedInit, FeedTypeOK
<1>2. \A r \in Request : announcing[r] = <<>> /\ DOMAIN announcing[r] = {}
  BY DEF FeedInit
<1>3. AnnouncersDone /\ AnnouncedTrue /\ AnnouncedCurrent
  BY <1>2 DEF AnnouncersDone, AnnouncedTrue, AnnouncedCurrent
<1>4. SendingHead /\ HubOpen /\ Fresh
  BY DEF FeedInit, SendingHead, HubOpen, Fresh
<1>5. BuffersTrue
  <2>1. \A c \in Client : DOMAIN buffer[c] = {}
    BY DEF FeedInit
  <2>2. QED
    BY <2>1 DEF BuffersTrue
<1>6. QED
  BY <1>1, <1>3, <1>4, <1>5 DEF OnTheWay

LEMMA StepOnTheWay ==
  ASSUME FeedInv, [FeedNext]_allVars
  PROVE  OnTheWay'
<1>1. OnTheWay /\ TypeOK
  BY DEF FeedInv, OnceInv, IInv
<1>2. CASE FeedClientsAct \/ \E r \in Request : FeedServe(r)
  BY <1>2, ServeOnTheWay
<1>3. CASE \E r \in Request : FeedCommit(r)
  BY <1>3, CommitOnTheWay
<1>4. CASE \E r \in Request : Broadcast(r)
  BY <1>1, <1>4, StartOnTheWay, SendOnTheWay DEF Broadcast
<1>5. CASE \E c \in Client : WriteMessage(c)
  BY <1>1, <1>5, WriteOnTheWay
<1>6. CASE \E c \in Client, p \in Pumps : Connect(c) \/ Leave(c) \/ EndPump(c, p)
  BY <1>1, <1>6, ComeAndGoOnTheWay
<1>7. CASE UNCHANGED allVars
  <2>1. UNCHANGED feedVars /\ UNCHANGED <<balance, pc, transactions>>
    BY <1>7 DEF allVars, vars, txVars
  <2>2. (FeedTypeOK /\ AnnouncersDone /\ SendingHead /\ HubOpen)'
    BY <1>1, <2>1 DEF OnTheWay, feedVars, clientVars, FeedTypeOK, AnnouncersDone,
       SendingHead, HubOpen
  <2>3. (AnnouncedTrue /\ BuffersTrue /\ AnnouncedCurrent)'
    BY <1>1, <2>1 DEF OnTheWay, feedVars, clientVars, AnnouncedTrue, BuffersTrue,
       AnnouncedCurrent
  <2>4. Fresh'
    <3>1. /\ UNCHANGED <<announcing, sending, conn, buffer, shown, disturbed>>
          /\ UNCHANGED <<balance, transactions>>
      BY <2>1 DEF feedVars, clientVars
    <3>2. \A c \in Client, a \in Account, r \in Request :
            Pending(r, c, a)' <=> Pending(r, c, a)
      BY <3>1 DEF Pending
    <3>3. \A c \in Client, a \in Account :
            WillShow(c, a, balance[a])' <=> WillShow(c, a, balance[a])
      BY <3>1 DEF WillShow
    <3>4. Fresh
      BY <1>1 DEF OnTheWay
    <3>5. QED
      BY <3>1, <3>2, <3>3, <3>4 DEF Fresh
  <2>5. QED
    BY <2>2, <2>3, <2>4 DEF OnTheWay
<1>8. \E p \in Pumps : TRUE
  BY DEF Pumps
<1>9. QED
  BY <1>2, <1>3, <1>4, <1>5, <1>6, <1>7, <1>8 DEF FeedNext

LEMMA FeedInvariance == FeedSpec => []FeedInv
<1>1. FeedInit => OnTheWay
  BY InitOnTheWay
<1>2. OnTheWay /\ OnceInv /\ OnceInv' /\ [FeedNext]_allVars => OnTheWay'
  BY StepOnTheWay DEF FeedInv
<1>3. OnceInv /\ OnTheWay <=> FeedInv
  BY DEF FeedInv
<1>4. QED
  BY <1>1, <1>2, <1>3, FeedOnceInvariance, PTL DEF FeedSpec

\* A websocket client is sent balances of its own user's accounts, and of an
\* account that an exchange of its user has paid into; those of a user's account
\* are balances that were committed.
THEOREM FeedIsTruthful == FeedSpec => []FeedTruthful
<1>1. ASSUME FeedInv
      PROVE  FeedTruthful
  <2>1. ASSUME NEW c \in Client, NEW n \in DOMAIN buffer[c]
        PROVE  LET update == buffer[c][n]
               IN  /\ ClientUser[c] \in {Owner[update.account]}
                                          \cup Payers(update.account)
                   /\ Owner[update.account] \in User =>
                        <<update.account, update.balance>> \in past
    <3>1. /\ buffer[c][n].user = ClientUser[c]
          /\ TrueUpdate(buffer[c][n], transactions, past)
      BY <1>1 DEF FeedInv, OnTheWay, BuffersTrue
    <3>2. QED
      BY <3>1 DEF TrueUpdate, MayHear, PaidInto, Payers
  <2>2. QED
    BY <2>1 DEF FeedTruthful
<1>2. QED
  BY <1>1, FeedInvariance, PTL

\* When every update is announced and written, an open page shows the current
\* balance of each account whose updates were not disturbed and that nobody but
\* its owner has paid into by an exchange.
THEOREM FeedIsOrderly == FeedSpec => []FeedOrderly
<1>1. ASSUME FeedInv
      PROVE  FeedOrderly
  <2> SUFFICES ASSUME \A r \in Request : announcing[r] = <<>>,
                      NEW c \in Client, conn[c] = "open", buffer[c] = <<>>,
                      NEW a \in Account, Owner[a] = ClientUser[c],
                      Payers(a) \subseteq {Owner[a]}, <<c, a>> \notin disturbed
               PROVE  shown[c][a] = balance[a]
    BY DEF FeedOrderly
  <2>1. \A r \in Request : ~Pending(r, c, a)
    BY DEF Pending
  <2>2. OwnerOnly(a, transactions)
    BY DEF OwnerOnly, PaidInto, Payers
  <2>3. WillShow(c, a, balance[a])
    BY <1>1, <2>1, <2>2 DEF FeedInv, OnTheWay, Fresh
  <2>4. QED
    BY <2>3 DEF WillShow
<1>2. QED
  BY <1>1, FeedInvariance, PTL

===============================================================================

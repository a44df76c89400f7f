--------------------------- MODULE AmmClientProofs ---------------------------
(***************************************************************************)
(* What an AmmImpl object holds when its updates are over, for any number  *)
(* of overlapping calls, any cache lifetime and any set of vaults.         *)
(*                                                                         *)
(* The properties speak of idle clients; the invariant has to say what is  *)
(* already true while calls run.  Each part does so call by call: what a   *)
(* call at its first, second or third await has made of the client.  The   *)
(* parts are conditional on what has disturbed the updates so far, and a   *)
(* call that starts while the client is idle begins with all of them.      *)
(***************************************************************************)
EXTENDS AmmClient, TLAPS

Moments == 0..time
Answer  == Moments \cup {Unsent, Sent, Applied}

Client ==
    [depeg : {0} \cup Calls, pool : Moments, supply : Moments, vault : [Vaults -> Moments],
     currentTime : Moments, depegAccounts : Moments, poolInfo : Moments,
     curve : [depeg : {0} \cup Calls, time : Moments]]

\* The times in the client have passed, and the depeg objects are those of create
\* or of a call.
Types ==
    /\ time \in Times /\ chainDepeg \in Moments /\ since \in Moments
    /\ heap \in [{0} \cup Calls -> [price : Moments, updated : Moments]]
    /\ pc \in [Calls -> {"unused", "fetch", "accounts", "depeg", "done", "rejected"}]
    /\ reply \in [Calls -> [Requests -> Answer]]
    /\ client \in Client
    /\ disturbed \in SUBSET {"overlap", "failure", "quote", "orphan"}

\* Which answers are there at which await; the clock is read before the stake pool.
AwaitsAt(c) ==
    /\ pc[c] = "unused" => \A k \in Requests : reply[c][k] = Unsent
    /\ pc[c] = "fetch" =>
         /\ reply[c]["pool"] \in Moments \cup {Sent}
         /\ reply[c]["supply"] # Unsent => reply[c]["pool"] \in Moments
         /\ reply[c]["accounts"] = Unsent /\ reply[c]["depeg"] = Unsent
    /\ pc[c] \in {"accounts", "depeg", "done"} => \A v \in Vaults : reply[c][v] = Applied
    /\ pc[c] = "accounts" => reply[c]["depeg"] = Unsent
    /\ pc[c] = "depeg" =>
         /\ reply[c]["accounts"] \in Moments
         /\ reply[c]["depeg"] \in Moments => reply[c]["depeg"] >= reply[c]["accounts"]
    /\ client.depeg = c => pc[c] \notin {"unused", "fetch"}

Awaits == \A c \in Calls : AwaitsAt(c)

\* Without a failure: what a running call has read, and the parts it has replaced,
\* was read since the client was idle.
RecentAt(c) ==
    /\ pc[c] \in {"fetch", "accounts", "depeg"} =>
         \A k \in Requests : reply[c][k] \in Moments => reply[c][k] >= since
    /\ pc[c] \in {"accounts", "depeg"} => client.pool >= since /\ client.supply >= since
    /\ pc[c] = "depeg" => client.currentTime >= since

\* Unless there were refreshes left behind: there are none, and this is so of the
\* vaults too.
VaultsAt(c) ==
    /\ pc[c] = "rejected" => \A v \in Vaults : reply[c][v] \notin Times \cup {Sent}
    /\ pc[c] \in {"fetch", "accounts", "depeg"} =>
         \A v \in Vaults : reply[c][v] = Applied => client.vault[v] >= since

RecentParts ==
    "failure" \notin disturbed => (\A c \in Calls : RecentAt(c)) /\ (Idle => Recent(OwnParts(client)))

RecentVaults ==
    disturbed \cap {"failure", "orphan"} = {} =>
      (\A c \in Calls : VaultsAt(c)) /\ (Idle => Recent(VaultParts(client)))

\* Without a failure or an overlap: one call runs, and what it has replaced is its
\* own, what it has not is older than the call.
AloneAt(c) ==
    /\ pc[c] \in {"accounts", "depeg"} => client.depeg = c
    /\ pc[c] = "depeg" => client.currentTime = reply[c]["accounts"]
    /\ pc[c] = "fetch" => client.pool <= since /\ client.supply <= since
    /\ pc[c] \in {"fetch", "accounts"} => client.currentTime <= since
    /\ pc[c] \in {"fetch", "accounts", "depeg"} =>
         client.depegAccounts <= since /\ \A d \in Running : d = c

Alone ==
    disturbed \subseteq {"quote", "orphan"} => (\A c \in Calls : AloneAt(c)) /\ (Idle => Coherent)

OldVaultsAt(c) ==
    pc[c] \in {"fetch", "accounts", "depeg"} =>
      \A v \in Vaults : reply[c][v] # Applied => client.vault[v] <= since

OldVaults == disturbed \subseteq {"quote"} => \A c \in Calls : OldVaultsAt(c)

\* Without a failure or a quote during an update: the depeg object that a call has
\* fetched holds a price as new as its time stamp says, and the one of the client
\* does so too or holds one read since the client was idle.
Priced(h) == h.price >= h.updated \/ h.price >= since

PricedAt(c) ==
    /\ \/ pc[c] = "fetch" /\ reply[c]["pool"] # Sent
       \/ pc[c] \in {"accounts", "depeg"}
       => heap[c].price >= heap[c].updated
    /\ pc[c] \in {"accounts", "depeg"} => Priced(heap[client.depeg])

Prices ==
    disturbed \subseteq {"overlap", "orphan"} =>
      (\A c \in Calls : PricedAt(c)) /\ (Idle => Priced(heap[client.depeg]))

\* Without a failure, an overlap or a quote: the price of an idle client has not expired.
FreshPrice ==
    disturbed \subseteq {"orphan"} /\ Idle =>
      /\ heap[client.depeg].price >= heap[client.depeg].updated
      /\ client.currentTime <= heap[client.depeg].updated + CacheLife

Inv ==
    /\ Types /\ Awaits
    /\ RecentParts /\ RecentVaults
    /\ Alone /\ OldVaults
    /\ Prices /\ FreshPrice

\* What marks a request that has no answer is not a time.
LEMMA MarkerFacts ==
    /\ Unsent \notin Moments /\ Sent \notin Moments /\ Applied \notin Moments
    /\ Sent # Unsent /\ Sent # Applied /\ Unsent # Applied
BY DEF Moments, Unsent, Sent, Applied

LEMMA ServePoolEffect ==
    ASSUME Types, NEW c \in Calls, ServePool(c)
    PROVE  /\ reply' \in [Calls -> [Requests -> Answer]]
           /\ heap' \in [{0} \cup Calls -> [price : Moments, updated : Moments]]
           /\ reply'[c]["pool"] = time /\ reply'[c]["supply"] = Sent
           /\ \A k \in Requests \ {"pool", "supply"} : reply'[c][k] = reply[c][k]
           /\ \A d \in Calls \ {c} : reply'[d] = reply[d]
           /\ heap'[c].price = chainDepeg /\ heap'[c].updated = chainDepeg
           /\ \A d \in {0} \cup Calls : d # c => heap'[d] = heap[d]
<1> DEFINE r == [reply[c] EXCEPT !["pool"] = time, !["supply"] = Sent]
<1>1. "pool" \in Requests /\ "supply" \in Requests
  BY DEF Requests
<1>2. time \in Answer /\ Sent \in Answer /\ chainDepeg \in Moments
  BY DEF Types, Moments, Answer, Times
<1>3. reply \in [Calls -> [Requests -> Answer]]
      /\ heap \in [{0} \cup Calls -> [price : Moments, updated : Moments]]
  BY DEF Types
<1>4. r \in [Requests -> Answer] /\ r["pool"] = time /\ r["supply"] = Sent
      /\ \A k \in Requests \ {"pool", "supply"} : r[k] = reply[c][k]
  BY <1>1, <1>2, <1>3
<1>5. reply' = [reply EXCEPT ![c] = r]
      /\ heap' = [heap EXCEPT ![c] = [price |-> chainDepeg, updated |-> chainDepeg]]
  BY DEF ServePool
<1> HIDE DEF r
<1>. QED
  BY <1>2, <1>3, <1>4, <1>5

LEMMA ApplyVaultEffect ==
    ASSUME Types, NEW c \in Calls, NEW v \in Vaults, ApplyVault(c, v)
    PROVE  /\ reply' \in [Calls -> [Requests -> Answer]]
           /\ reply[c][v] \in Moments /\ reply'[c][v] = Applied
           /\ \A k \in Requests \ {v} : reply'[c][k] = reply[c][k]
           /\ \A d \in Calls \ {c} : reply'[d] = reply[d]
           /\ client'.vault[v] = reply[c][v]
           /\ \A u \in Vaults \ {v} : client'.vault[u] = client.vault[u]
           /\ client' \in Client
           /\ client'.depeg = client.depeg /\ client'.pool = client.pool
           /\ client'.supply = client.supply /\ client'.currentTime = client.currentTime
           /\ client'.depegAccounts = client.depegAccounts
           /\ client'.poolInfo = client.poolInfo /\ client'.curve = client.curve
<1>1. v \in Requests /\ Applied \in Answer
  BY DEF Requests, Answer
<1>2. reply \in [Calls -> [Requests -> Answer]]
  BY DEF Types
<1>3. reply[c][v] \in Moments
  BY <1>1, <1>2 DEF ApplyVault, Times, Answer, Unsent, Sent, Applied
<1>4. client.vault \in [Vaults -> Moments]
  BY DEF Types, Client
<1>5. client' = [client EXCEPT !.vault[v] = reply[c][v]]
      /\ reply' = [reply EXCEPT ![c][v] = Applied]
  BY DEF ApplyVault
<1>6. client' = [client EXCEPT !.vault = [client.vault EXCEPT ![v] = reply[c][v]]]
  BY <1>5
<1>. DEFINE w == [client.vault EXCEPT ![v] = reply[c][v]]
<1>7. w \in [Vaults -> Moments] /\ w[v] = reply[c][v] /\ \A u \in Vaults \ {v} : w[u] = client.vault[u]
  BY <1>3, <1>4
<1> HIDE DEF w
<1>8. /\ reply' \in [Calls -> [Requests -> Answer]] /\ reply'[c][v] = Applied
      /\ \A k \in Requests \ {v} : reply'[c][k] = reply[c][k]
      /\ \A d \in Calls \ {c} : reply'[d] = reply[d]
  BY <1>1, <1>2, <1>5
<1>9. client' = [client EXCEPT !.vault = w]
  BY <1>6 DEF w
<1>10. client \in Client
  BY DEF Types
<1>11. client'.vault = w
  BY <1>9, <1>10 DEF Client
<1>12. /\ client'.depeg = client.depeg /\ client'.pool = client.pool
       /\ client'.supply = client.supply /\ client'.currentTime = client.currentTime
       /\ client'.depegAccounts = client.depegAccounts
       /\ client'.poolInfo = client.poolInfo /\ client'.curve = client.curve
  BY <1>9, <1>10 DEF Client
<1>13. client' \in Client
  BY <1>7, <1>9, <1>10 DEF Client
<1>14. client'.vault[v] = reply[c][v] /\ \A u \in Vaults \ {v} : client'.vault[u] = client.vault[u]
  BY <1>7, <1>11, Zenon
<1>. QED
  BY <1>3, <1>8, <1>12, <1>13, <1>14

LEMMA UpdateStateEffect ==
    ASSUME Types, NEW c \in Calls, UpdateState(c)
    PROVE  /\ reply' \in [Calls -> [Requests -> Answer]]
           /\ pc' \in [Calls -> {"unused", "fetch", "accounts", "depeg", "done", "rejected"}]
           /\ \A k \in {"pool"} \cup Vaults : reply'[c][k] = Sent
           /\ \A k \in {"supply", "accounts", "depeg"} : reply'[c][k] = Unsent
           /\ \A d \in Calls \ {c} : reply'[d] = reply[d] /\ pc'[d] = pc[d]
           /\ pc'[c] = "fetch"
<1> DEFINE r == [k \in Requests |-> IF k \in {"pool"} \cup Vaults THEN Sent ELSE Unsent]
<1>1. /\ r \in [Requests -> Answer]
      /\ \A k \in {"pool"} \cup Vaults : r[k] = Sent
      /\ \A k \in {"supply", "accounts", "depeg"} : r[k] = Unsent
  BY ClientConstants DEF Requests, Answer
<1>2. reply' = [reply EXCEPT ![c] = r]
  BY DEF UpdateState
<1> HIDE DEF r
<1>3. /\ reply' \in [Calls -> [Requests -> Answer]] /\ reply'[c] = r
      /\ \A d \in Calls \ {c} : reply'[d] = reply[d]
  BY <1>1, <1>2 DEF Types
<1>4. /\ pc' \in [Calls -> {"unused", "fetch", "accounts", "depeg", "done", "rejected"}]
      /\ \A d \in Calls \ {c} : pc'[d] = pc[d]
      /\ pc'[c] = "fetch"
  BY DEF UpdateState, Types
<1>. QED
  BY <1>1, <1>3, <1>4

LEMMA ServeEffect ==
    ASSUME Types, NEW c \in Calls, NEW k \in Requests, Serve(c, k)
    PROVE  /\ reply' \in [Calls -> [Requests -> Answer]]
           /\ reply'[c][k] = time
           /\ \A j \in Requests \ {k} : reply'[c][j] = reply[c][j]
           /\ \A d \in Calls \ {c} : reply'[d] = reply[d]
<1>1. time \in Answer /\ reply' = [reply EXCEPT ![c][k] = time]
  BY DEF Serve, Types, Answer, Moments, Times
<1>. QED
  BY <1>1 DEF Types

LEMMA ApplyPoolStateEffect ==
    ASSUME Types, Awaits, NEW c \in Calls, ApplyPoolState(c)
    PROVE  /\ reply' \in [Calls -> [Requests -> Answer]]
           /\ pc' \in [Calls -> {"unused", "fetch", "accounts", "depeg", "done", "rejected"}]
           /\ reply'[c]["pool"] = Applied /\ reply'[c]["supply"] = Applied
           /\ reply'[c]["accounts"] = Sent
           /\ \A k \in Requests \ {"pool", "supply", "accounts"} : reply'[c][k] = reply[c][k]
           /\ \A d \in Calls \ {c} : reply'[d] = reply[d] /\ pc'[d] = pc[d]
           /\ pc'[c] = "accounts"
           /\ reply[c]["pool"] \in Moments /\ reply[c]["supply"] \in Moments
           /\ client' \in Client
           /\ client'.depeg = c /\ client'.pool = reply[c]["pool"]
           /\ client'.supply = reply[c]["supply"] /\ client'.vault = client.vault
           /\ client'.currentTime = client.currentTime
           /\ client'.depegAccounts = client.depegAccounts
           /\ client'.poolInfo = client.poolInfo /\ client'.curve = client.curve
<1> DEFINE r == [reply[c] EXCEPT !["pool"] = Applied, !["supply"] = Applied,
                                 !["accounts"] = Sent]
<1>1. /\ {"pool", "supply", "accounts"} \subseteq Requests
      /\ Applied \in Answer /\ Sent \in Answer
  BY DEF Requests, Answer
<1>2. reply \in [Calls -> [Requests -> Answer]] /\ client \in Client
  BY DEF Types
<1>3. /\ r \in [Requests -> Answer] /\ r["pool"] = Applied /\ r["supply"] = Applied
      /\ r["accounts"] = Sent
      /\ \A k \in Requests \ {"pool", "supply", "accounts"} : r[k] = reply[c][k]
  BY <1>1, <1>2
<1>4. reply' = [reply EXCEPT ![c] = r]
  BY DEF ApplyPoolState
<1> HIDE DEF r
<1>5. /\ reply' \in [Calls -> [Requests -> Answer]] /\ reply'[c] = r
      /\ \A d \in Calls \ {c} : reply'[d] = reply[d]
  BY <1>2, <1>3, <1>4
<1>6. reply[c]["supply"] \in Moments
  BY <1>1, <1>2 DEF ApplyPoolState, AllThere, Times, Answer, Unsent, Sent, Applied
<1>7. reply[c]["pool"] \in Moments
  BY <1>6, MarkerFacts DEF ApplyPoolState, Awaits, AwaitsAt
<1>8. /\ pc' \in [Calls -> {"unused", "fetch", "accounts", "depeg", "done", "rejected"}]
      /\ \A d \in Calls \ {c} : pc'[d] = pc[d]
      /\ pc'[c] = "accounts"
  BY DEF ApplyPoolState, Types
<1>9. client' = [client EXCEPT !.depeg = c, !.pool = reply[c]["pool"],
                               !.supply = reply[c]["supply"]]
  BY DEF ApplyPoolState, WithPoolState
<1>10. /\ client'.depeg = c /\ client'.pool = reply[c]["pool"]
       /\ client'.supply = reply[c]["supply"] /\ client'.vault = client.vault
       /\ client'.currentTime = client.currentTime
       /\ client'.depegAccounts = client.depegAccounts
       /\ client'.poolInfo = client.poolInfo /\ client'.curve = client.curve
  BY <1>2, <1>9 DEF Client
<1>11. client' \in Client
  BY <1>2, <1>6, <1>7, <1>9 DEF Client
<1>. QED
  BY <1>3, <1>5, <1>6, <1>7, <1>8, <1>10, <1>11

LEMMA ApplyAccountsEffect ==
    ASSUME Types, NEW c \in Calls, ApplyAccounts(c)
    PROVE  /\ reply' \in [Calls -> [Requests -> Answer]]
           /\ pc' \in [Calls -> {"unused", "fetch", "accounts", "depeg", "done", "rejected"}]
           /\ reply'[c]["depeg"] = Sent
           /\ \A k \in Requests \ {"depeg"} : reply'[c][k] = reply[c][k]
           /\ \A d \in Calls \ {c} : reply'[d] = reply[d] /\ pc'[d] = pc[d]
           /\ pc'[c] = "depeg"
           /\ reply[c]["accounts"] \in Moments
           /\ client' \in Client
           /\ client'.currentTime = reply[c]["accounts"]
           /\ client'.depeg = client.depeg /\ client'.pool = client.pool
           /\ client'.supply = client.supply /\ client'.vault = client.vault
           /\ client'.depegAccounts = client.depegAccounts
           /\ client'.poolInfo = client.poolInfo /\ client'.curve = client.curve
<1>1. {"depeg", "accounts"} \subseteq Requests /\ Sent \in Answer
  BY DEF Requests, Answer
<1>2. reply \in [Calls -> [Requests -> Answer]] /\ client \in Client
  BY DEF Types
<1>3. reply' = [reply EXCEPT ![c]["depeg"] = Sent]
  BY DEF ApplyAccounts
<1>4. /\ reply' \in [Calls -> [Requests -> Answer]] /\ reply'[c]["depeg"] = Sent
      /\ \A k \in Requests \ {"depeg"} : reply'[c][k] = reply[c][k]
      /\ \A d \in Calls \ {c} : reply'[d] = reply[d]
  BY <1>1, <1>2, <1>3
<1>5. reply[c]["accounts"] \in Moments
  BY <1>1, <1>2 DEF ApplyAccounts, Times, Answer, Unsent, Sent, Applied
<1>6. /\ pc' \in [Calls -> {"unused", "fetch", "accounts", "depeg", "done", "rejected"}]
      /\ \A d \in Calls \ {c} : pc'[d] = pc[d]
      /\ pc'[c] = "depeg"
  BY DEF ApplyAccounts, Types
<1>7. client' = [client EXCEPT !.currentTime = reply[c]["accounts"]]
  BY DEF ApplyAccounts
<1>8. /\ client'.currentTime = reply[c]["accounts"]
      /\ client'.depeg = client.depeg /\ client'.pool = client.pool
      /\ client'.supply = client.supply /\ client'.vault = client.vault
      /\ client'.depegAccounts = client.depegAccounts
      /\ client'.poolInfo = client.poolInfo /\ client'.curve = client.curve
  BY <1>2, <1>7 DEF Client
<1>9. client' \in Client
  BY <1>2, <1>5, <1>7 DEF Client
<1>. QED
  BY <1>4, <1>5, <1>6, <1>8, <1>9

LEMMA ApplyDepegEffect ==
    ASSUME Types, Awaits, NEW c \in Calls, ApplyDepeg(c)
    PROVE  /\ reply' \in [Calls -> [Requests -> Answer]]
           /\ pc' \in [Calls -> {"unused", "fetch", "accounts", "depeg", "done", "rejected"}]
           /\ heap' \in [{0} \cup Calls -> [price : Moments, updated : Moments]]
           /\ \A v \in Vaults : reply'[c][v] = reply[c][v]
           /\ \A d \in Calls \ {c} : reply'[d] = reply[d] /\ pc'[d] = pc[d]
           /\ pc'[c] = "done"
           /\ reply[c]["accounts"] \in Moments /\ reply[c]["depeg"] \in Moments
           /\ heap'[c] = UpdateDepegInfoIfExpired(heap[c], reply[c]["depeg"],
                                                  reply[c]["accounts"])
           /\ \A d \in {0} \cup Calls : d # c => heap'[d] = heap[d]
           /\ client' \in Client
           /\ client'.depegAccounts = reply[c]["depeg"]
           /\ client'.poolInfo = reply[c]["accounts"]
           /\ client'.curve = [depeg |-> c, time |-> reply[c]["accounts"]]
           /\ client'.currentTime = client.currentTime
           /\ client'.depeg = client.depeg /\ client'.pool = client.pool
           /\ client'.supply = client.supply /\ client'.vault = client.vault
<1> DEFINE r == [reply[c] EXCEPT !["accounts"] = Applied, !["depeg"] = Applied]
           h == UpdateDepegInfoIfExpired(heap[c], reply[c]["depeg"], reply[c]["accounts"])
           u == [depeg |-> c, time |-> reply[c]["accounts"]]
<1>1. /\ {"depeg", "accounts"} \subseteq Requests /\ Applied \in Answer
      /\ Vaults \subseteq Requests \ {"depeg", "accounts"}
  BY ClientConstants DEF Requests, Answer
<1>2. /\ reply \in [Calls -> [Requests -> Answer]] /\ client \in Client
      /\ heap \in [{0} \cup Calls -> [price : Moments, updated : Moments]]
  BY DEF Types
<1>3. /\ r \in [Requests -> Answer]
      /\ \A k \in Requests \ {"depeg", "accounts"} : r[k] = reply[c][k]
  BY <1>1, <1>2
<1>4. /\ reply' = [reply EXCEPT ![c] = r]
      /\ heap' = [heap EXCEPT ![c] = h]
  BY DEF ApplyDepeg
<1>5. reply[c]["depeg"] \in Moments
  BY <1>1, <1>2 DEF ApplyDepeg, Times, Answer, Unsent, Sent, Applied
<1>6. reply[c]["accounts"] \in Moments
  BY DEF ApplyDepeg, Awaits, AwaitsAt
<1>7. h \in [price : Moments, updated : Moments]
  BY <1>2, <1>5, <1>6 DEF UpdateDepegInfoIfExpired
<1>8. u \in [depeg : {0} \cup Calls, time : Moments]
  BY <1>6
<1>9. client' = [client EXCEPT !.depegAccounts = reply[c]["depeg"], !.curve = u,
                               !.poolInfo = reply[c]["accounts"]]
  BY DEF ApplyDepeg, WithCurve
<1> HIDE DEF r, h, u
<1>10. /\ reply' \in [Calls -> [Requests -> Answer]] /\ reply'[c] = r
       /\ \A d \in Calls \ {c} : reply'[d] = reply[d]
  BY <1>2, <1>3, <1>4
<1>11. /\ heap' \in [{0} \cup Calls -> [price : Moments, updated : Moments]]
       /\ heap'[c] = h
       /\ \A d \in {0} \cup Calls : d # c => heap'[d] = heap[d]
  BY <1>2, <1>4, <1>7
<1>12. /\ pc' \in [Calls -> {"unused", "fetch", "accounts", "depeg", "done", "rejected"}]
       /\ \A d \in Calls \ {c} : pc'[d] = pc[d]
       /\ pc'[c] = "done"
  BY DEF ApplyDepeg, Types
<1>13. /\ client'.depegAccounts = reply[c]["depeg"]
       /\ client'.poolInfo = reply[c]["accounts"]
       /\ client'.curve = u
       /\ client'.currentTime = client.currentTime
       /\ client'.depeg = client.depeg /\ client'.pool = client.pool
       /\ client'.supply = client.supply /\ client'.vault = client.vault
  BY <1>2, <1>9 DEF Client
<1>14. client' \in Client
  BY <1>2, <1>5, <1>6, <1>8, <1>9 DEF Client
<1>15. \A v \in Vaults : reply'[c][v] = reply[c][v]
  BY <1>1, <1>3, <1>10
<1>. QED
  BY <1>5, <1>6, <1>10, <1>11, <1>12, <1>13, <1>14, <1>15 DEF h, u

LEMMA RejectEffect ==
    ASSUME Types, NEW c \in Calls, NEW k \in Requests, Reject(c, k)
    PROVE  /\ reply' \in [Calls -> [Requests -> Answer]]
           /\ pc' \in [Calls -> {"unused", "fetch", "accounts", "depeg", "done", "rejected"}]
           /\ disturbed' \in SUBSET {"overlap", "failure", "quote", "orphan"}
           /\ "failure" \in disturbed'
           /\ \A d \in Calls \ {c} : reply'[d] = reply[d] /\ pc'[d] = pc[d]
           /\ pc'[c] = "rejected"
<1> DEFINE r == [q \in Requests |-> IF q \in Vaults \ {k} THEN reply[c][q] ELSE Applied]
<1>1. Applied \in Answer /\ reply \in [Calls -> [Requests -> Answer]]
  BY DEF Answer, Types
<1>2. r \in [Requests -> Answer]
  BY <1>1
<1>3. reply' = [reply EXCEPT ![c] = r]
  BY DEF Reject
<1> HIDE DEF r
<1>4. /\ reply' \in [Calls -> [Requests -> Answer]]
      /\ \A d \in Calls \ {c} : reply'[d] = reply[d]
  BY <1>1, <1>2, <1>3
<1>5. /\ pc' \in [Calls -> {"unused", "fetch", "accounts", "depeg", "done", "rejected"}]
      /\ \A d \in Calls \ {c} : pc'[d] = pc[d]
      /\ pc'[c] = "rejected"
  BY DEF Reject, Types
<1>6. disturbed' \in SUBSET {"overlap", "failure", "quote", "orphan"} /\ "failure" \in disturbed'
  BY DEF Reject, Types
<1>. QED
  BY <1>4, <1>5, <1>6

LEMMA QuoteEffect ==
    ASSUME Types, GetSwapQuote
    PROVE  /\ heap' \in [{0} \cup Calls -> [price : Moments, updated : Moments]]
           /\ QuoteDepeg \in [price : Moments, updated : Moments]
           /\ heap'[client.depeg] = QuoteDepeg
           /\ \A d \in {0} \cup Calls : d # client.depeg => heap'[d] = heap[d]
<1>1. /\ client.depeg \in {0} \cup Calls /\ client.depegAccounts \in Moments
      /\ client.currentTime \in Moments
      /\ heap \in [{0} \cup Calls -> [price : Moments, updated : Moments]]
  BY DEF Types, Client
<1>2. QuoteDepeg \in [price : Moments, updated : Moments]
  BY <1>1 DEF QuoteDepeg, UpdateDepegInfoIfExpired
<1>. QED
  BY <1>1, <1>2 DEF GetSwapQuote

\* The times that have passed are times that have passed later on.
LEMMA TypesStep ==
    ASSUME Types, Awaits, [Next]_vars
    PROVE  Types'
<1> USE DEF Types
<1>1. CASE Tick
  BY <1>1, ClientConstants DEF Tick, Moments, Answer, Client, Times, Unsent, Sent, Applied
<1>2. CASE UpdateBaseVirtualPrice
  BY <1>2 DEF UpdateBaseVirtualPrice, Moments, Answer, Client, Times
<1>3. CASE GetSwapQuote
  BY <1>3, QuoteEffect DEF GetSwapQuote, Moments, Answer, Client
<1>4. ASSUME NEW c \in Calls, UpdateState(c) PROVE Types'
  BY <1>4, UpdateStateEffect DEF UpdateState, Moments, Answer, Client, Times
<1>5. ASSUME NEW c \in Calls, ServePool(c) PROVE Types'
  BY <1>5, ServePoolEffect DEF ServePool, Moments, Answer, Client
<1>6. ASSUME NEW c \in Calls, NEW k \in Requests, Serve(c, k) PROVE Types'
  BY <1>6, ServeEffect DEF Serve, Moments, Answer, Client
<1>7. ASSUME NEW c \in Calls, NEW v \in Vaults, ApplyVault(c, v) PROVE Types'
  BY <1>7, ApplyVaultEffect DEF ApplyVault, Moments, Answer, Client
<1>8. ASSUME NEW c \in Calls, ApplyPoolState(c) PROVE Types'
  BY <1>8, ApplyPoolStateEffect DEF ApplyPoolState, Moments, Answer, Client
<1>9. ASSUME NEW c \in Calls, ApplyAccounts(c) PROVE Types'
  BY <1>9, ApplyAccountsEffect DEF ApplyAccounts, Moments, Answer, Client
<1>10. ASSUME NEW c \in Calls, ApplyDepeg(c) PROVE Types'
  BY <1>10, ApplyDepegEffect DEF ApplyDepeg, Moments, Answer, Client
<1>11. ASSUME NEW c \in Calls, NEW k \in Requests, Reject(c, k) PROVE Types'
  BY <1>11, RejectEffect DEF Reject, Moments, Answer, Client
<1>12. CASE UNCHANGED vars
  BY <1>12 DEF vars, Moments, Answer, Client
<1>. QED
  BY <1>1, <1>2, <1>3, <1>4, <1>5, <1>6, <1>7, <1>8, <1>9, <1>10, <1>11, <1>12 DEF Next, Progress

\* The four requests of the object's own, apart from the vaults'.
LEMMA RequestFacts ==
    /\ {"pool", "supply", "accounts", "depeg"} \subseteq Requests /\ Vaults \subseteq Requests
    /\ \A v \in Vaults : v \notin {"pool", "supply", "accounts", "depeg"}
BY ClientConstants DEF Requests

\* An answer that is there has a time that has passed, now and after any step.
LEMMA AnswersKept ==
    ASSUME Types, NEW c \in Calls, NEW k \in Requests
    PROVE  /\ reply[c][k] \in Answer /\ Moments \cap {Unsent, Sent, Applied} = {}
           /\ reply[c][k] \in 0..(time + 1) => reply[c][k] \in Moments
BY DEF Types, Answer, Moments, Times, Unsent, Sent, Applied

LEMMA OthersAwait ==
    ASSUME Awaits, NEW c \in Calls, time' = time, client'.depeg \in {client.depeg, c},
           \A d \in Calls \ {c} : reply'[d] = reply[d] /\ pc'[d] = pc[d], AwaitsAt(c)'
    PROVE  Awaits'
<1>1. ASSUME NEW d \in Calls, d # c PROVE AwaitsAt(d)'
  <2>1. reply'[d] = reply[d] /\ pc'[d] = pc[d] /\ Moments' = Moments /\ AwaitsAt(d)
    BY <1>1 DEF Moments, Awaits
  <2>2. client'.depeg = d => client.depeg = d
    BY <1>1
  <2>. QED
    BY <2>1, <2>2 DEF AwaitsAt
<1>. QED
  BY <1>1 DEF Awaits

LEMMA AwaitsStep ==
    ASSUME Types, Awaits, [Next]_vars
    PROVE  Awaits'
<1>1. CASE Tick
  <2>1. /\ time \in Nat /\ time' = time + 1 /\ UNCHANGED <<reply, pc, client>>
        /\ Moments' = 0..(time + 1) /\ Moments \subseteq Moments'
    BY <1>1 DEF Tick, Types, Moments, Times
  <2>. QED
    BY <2>1, AnswersKept, RequestFacts DEF Awaits, AwaitsAt
<1>2. CASE UpdateBaseVirtualPrice
  BY <1>2 DEF UpdateBaseVirtualPrice, Awaits, AwaitsAt, Moments
<1>3. CASE GetSwapQuote
  BY <1>3 DEF GetSwapQuote, Awaits, AwaitsAt, Moments
<1>4. ASSUME NEW c \in Calls, UpdateState(c) PROVE Awaits'
  <2>1. /\ pc[c] = "unused" /\ UNCHANGED <<time, client>>
        /\ AwaitsAt(c) /\ pc'[c] = "fetch" /\ reply'[c]["pool"] = Sent
        /\ reply'[c]["supply"] = Unsent /\ reply'[c]["accounts"] = Unsent
        /\ reply'[c]["depeg"] = Unsent /\ Moments' = Moments
    BY <1>4, UpdateStateEffect DEF UpdateState, Awaits, Moments
  <2>2. AwaitsAt(c)'
    BY <2>1, MarkerFacts DEF AwaitsAt
  <2>. QED
    BY <1>4, <2>1, <2>2, UpdateStateEffect, OthersAwait
<1>5. ASSUME NEW c \in Calls, ServePool(c) PROVE Awaits'
  <2>1. /\ pc[c] = "fetch" /\ UNCHANGED <<time, client, pc>>
        /\ AwaitsAt(c) /\ reply'[c]["pool"] \in Moments
        /\ reply'[c]["accounts"] = reply[c]["accounts"]
        /\ reply'[c]["depeg"] = reply[c]["depeg"]
    BY <1>5, ServePoolEffect, RequestFacts DEF ServePool, Awaits, Types, Moments, Times
  <2>2. AwaitsAt(c)'
    BY <2>1 DEF AwaitsAt, Moments
  <2>. QED
    BY <1>5, <2>1, <2>2, ServePoolEffect, OthersAwait
<1>6. ASSUME NEW c \in Calls, NEW k \in Requests, Serve(c, k) PROVE Awaits'
  <2>1. /\ k # "pool" /\ reply[c][k] = Sent /\ UNCHANGED <<time, client, pc>> /\ AwaitsAt(c)
        /\ reply'[c][k] = time /\ time \in Moments
        /\ \A j \in Requests \ {k} : reply'[c][j] = reply[c][j]
        /\ Moments' = Moments /\ \A t \in Moments : time >= t
    BY <1>6, ServeEffect DEF Serve, Awaits, Types, Moments, Times
  <2>2. CASE k \in Vaults
    <3>1. pc[c] \notin {"unused", "accounts", "depeg", "done"}
      BY <2>1, <2>2, MarkerFacts DEF AwaitsAt
    <3>2. \A j \in {"pool", "supply", "accounts", "depeg"} : reply'[c][j] = reply[c][j]
      BY <2>1, <2>2, RequestFacts
    <3>3. AwaitsAt(c)'
      BY <2>1, <3>1, <3>2 DEF AwaitsAt
    <3>. QED
      BY <1>6, <2>1, <3>3, ServeEffect, OthersAwait
  <2>3. CASE k \in {"supply", "accounts", "depeg"}
    <3>1. /\ pc[c] # "unused" /\ \A v \in Vaults : reply'[c][v] = reply[c][v]
          /\ reply'[c]["pool"] = reply[c]["pool"]
      BY <2>1, <2>3, RequestFacts, MarkerFacts DEF AwaitsAt
    <3>2. AwaitsAt(c)'
      BY <2>1, <2>3, <3>1, RequestFacts, MarkerFacts DEF AwaitsAt
    <3>. QED
      BY <1>6, <2>1, <3>2, ServeEffect, OthersAwait
  <2>4. k \in Vaults \/ k \in {"supply", "accounts", "depeg"}
    BY <2>1 DEF Requests
  <2>. QED
    BY <2>2, <2>3, <2>4
<1>7. ASSUME NEW c \in Calls, NEW v \in Vaults, ApplyVault(c, v) PROVE Awaits'
  <2>1. /\ UNCHANGED <<time, pc>> /\ client'.depeg = client.depeg /\ AwaitsAt(c)
        /\ reply[c][v] \in Moments /\ reply'[c][v] = Applied
        /\ \A j \in Requests \ {v} : reply'[c][j] = reply[c][j]
        /\ Moments' = Moments
    BY <1>7, ApplyVaultEffect DEF ApplyVault, Awaits, Moments
  <2>2. AwaitsAt(c)'
    BY <2>1, RequestFacts, MarkerFacts DEF AwaitsAt
  <2>. QED
    BY <1>7, <2>1, <2>2, ApplyVaultEffect, OthersAwait
<1>8. ASSUME NEW c \in Calls, ApplyPoolState(c) PROVE Awaits'
  <2>1. /\ pc[c] = "fetch" /\ pc'[c] = "accounts" /\ UNCHANGED <<time>> /\ client'.depeg = c
        /\ AwaitsAt(c) /\ \A v \in Vaults : reply[c][v] = Applied
    BY <1>8, ApplyPoolStateEffect DEF ApplyPoolState, AllThere, Awaits
  <2>2. \A k \in {"depeg"} \cup Vaults : reply'[c][k] = reply[c][k]
    BY <1>8, ApplyPoolStateEffect, RequestFacts
  <2>3. AwaitsAt(c)'
    BY <2>1, <2>2 DEF AwaitsAt
  <2>. QED
    BY <1>8, <2>1, <2>3, ApplyPoolStateEffect, OthersAwait
<1>9. ASSUME NEW c \in Calls, ApplyAccounts(c) PROVE Awaits'
  <2>1. /\ pc[c] = "accounts" /\ pc'[c] = "depeg" /\ UNCHANGED <<time>>
        /\ client'.depeg = client.depeg /\ AwaitsAt(c)
        /\ reply[c]["accounts"] \in Moments
        /\ reply'[c]["depeg"] = Sent /\ Moments' = Moments
    BY <1>9, ApplyAccountsEffect DEF ApplyAccounts, Awaits, Moments
  <2>2. \A k \in {"accounts"} \cup Vaults : reply'[c][k] = reply[c][k]
    BY <1>9, ApplyAccountsEffect, RequestFacts
  <2>3. AwaitsAt(c)'
    BY <2>1, <2>2, MarkerFacts DEF AwaitsAt
  <2>. QED
    BY <1>9, <2>1, <2>3, ApplyAccountsEffect, OthersAwait
<1>10. ASSUME NEW c \in Calls, ApplyDepeg(c) PROVE Awaits'
  <2>1. /\ pc[c] = "depeg" /\ pc'[c] = "done" /\ UNCHANGED <<time>>
        /\ client'.depeg = client.depeg /\ AwaitsAt(c)
        /\ \A v \in Vaults : reply'[c][v] = reply[c][v]
    BY <1>10, ApplyDepegEffect DEF ApplyDepeg, Awaits
  <2>2. AwaitsAt(c)'
    BY <2>1 DEF AwaitsAt
  <2>. QED
    BY <1>10, <2>1, <2>2, ApplyDepegEffect, OthersAwait
<1>11. ASSUME NEW c \in Calls, NEW k \in Requests, Reject(c, k) PROVE Awaits'
  <2>1. pc'[c] = "rejected" /\ UNCHANGED <<time, client>>
    BY <1>11, RejectEffect DEF Reject
  <2>2. AwaitsAt(c)'
    BY <2>1 DEF AwaitsAt
  <2>. QED
    BY <1>11, <2>1, <2>2, RejectEffect, OthersAwait
<1>12. CASE UNCHANGED vars
  BY <1>12 DEF vars, Awaits, AwaitsAt, Moments
<1>. QED
  BY <1>1, <1>2, <1>3, <1>4, <1>5, <1>6, <1>7, <1>8, <1>9, <1>10, <1>11, <1>12 DEF Next, Progress

\* What Recent says, part by part.
LEMMA RecentFacts ==
    /\ Recent(OwnParts(client)) <=>
         /\ client.pool >= since /\ client.supply >= since
         /\ client.currentTime >= since /\ client.depegAccounts >= since
    /\ Recent(VaultParts(client)) <=> \A v \in Vaults : client.vault[v] >= since
BY DEF Recent, OwnParts, VaultParts

\* A step of one call leaves the others as recent as they were.
LEMMA OthersRecent ==
    ASSUME NEW c \in Calls, NEW d \in Calls, d # c, RecentAt(d),
           time' = time, since' = since, reply'[d] = reply[d], pc'[d] = pc[d],
           client.pool >= since => client'.pool >= since,
           client.supply >= since => client'.supply >= since,
           client.currentTime >= since => client'.currentTime >= since
    PROVE  RecentAt(d)'
BY DEF RecentAt, Moments

LEMMA RunningFacts ==
    Idle <=> \A c \in Calls : pc[c] \notin {"fetch", "accounts", "depeg"}
BY DEF Idle, Running

\* Only a running call, or one that was rejected, still waits for a vault.
LEMMA WaitsForVault ==
    ASSUME Types, Awaits, NEW c \in Calls, NEW v \in Vaults,
           reply[c][v] = Sent \/ reply[c][v] \in Moments
    PROVE  pc[c] \in {"fetch", "rejected"}
<1>1. AwaitsAt(c) /\ pc[c] \in {"unused", "fetch", "accounts", "depeg", "done", "rejected"}
  BY DEF Awaits, Types
<1>. QED
  BY <1>1, MarkerFacts, RequestFacts DEF AwaitsAt

LEMMA RecentStep ==
    ASSUME Types, Awaits, RecentParts, [Next]_vars
    PROVE  RecentParts'
<1> DEFINE Own == Recent(OwnParts(client))
<1> SUFFICES ASSUME "failure" \notin disturbed'
             PROVE  (\A c \in Calls : RecentAt(c)') /\ (Idle' => Own')
  BY DEF RecentParts
<1>1. CASE Tick
  <2>1. /\ time \in Nat /\ time' = time + 1 /\ Moments' = 0..(time + 1)
        /\ UNCHANGED <<heap, pc, reply, client, since, disturbed>>
    BY <1>1 DEF Tick, Types, Moments, Times
  <2>2. (\A c \in Calls : RecentAt(c)) /\ (Idle => Own)
    BY <2>1 DEF RecentParts
  <2>3. \A c \in Calls, k \in Requests : reply[c][k] \in Moments' => reply[c][k] \in Moments
    BY <2>1, AnswersKept
  <2>4. \A c \in Calls : RecentAt(c)'
    BY <2>1, <2>2, <2>3 DEF RecentAt
  <2>. QED
    BY <2>1, <2>2, <2>4 DEF Idle, Running, Recent, OwnParts
<1>2. CASE UpdateBaseVirtualPrice
  BY <1>2 DEF UpdateBaseVirtualPrice, RecentParts, RecentAt, Idle, Running, Recent, OwnParts, Moments
<1>3. CASE GetSwapQuote
  <2>1. "failure" \notin disturbed /\ UNCHANGED <<time, pc, reply, client, since>>
    BY <1>3 DEF GetSwapQuote
  <2>. QED
    BY <2>1 DEF RecentParts, RecentAt, Idle, Running, Recent, OwnParts, Moments
<1>4. ASSUME NEW c \in Calls, UpdateState(c)
      PROVE  (\A d \in Calls : RecentAt(d)') /\ (Idle' => Own')
  <2>1. /\ UNCHANGED <<time, client>> /\ pc'[c] = "fetch"
        /\ \A d \in Calls \ {c} : reply'[d] = reply[d] /\ pc'[d] = pc[d]
        /\ \A k \in Requests : reply'[c][k] \in {Sent, Unsent}
    BY <1>4, UpdateStateEffect DEF UpdateState, Requests
  <2>2. ~Idle'
    BY <2>1 DEF Idle, Running
  <2>3. RecentAt(c)'
    BY <2>1, MarkerFacts, RequestFacts DEF RecentAt, Moments
  <2>4. CASE Idle
    <3>1. ASSUME NEW d \in Calls, d # c PROVE RecentAt(d)'
      <4>1. pc[d] \notin {"fetch", "accounts", "depeg"}
        BY <2>4, RunningFacts
      <4>. QED
        BY <2>1, <3>1, <4>1 DEF RecentAt
    <3>. QED
      BY <2>2, <2>3, <3>1
  <2>5. CASE ~Idle
    <3>1. "failure" \notin disturbed /\ since' = since
      BY <1>4, <2>5 DEF UpdateState
    <3>. QED
      BY <2>1, <2>2, <2>3, <3>1, OthersRecent DEF RecentParts
  <2>. QED
    BY <2>4, <2>5
<1>5. ASSUME NEW c \in Calls, ServePool(c)
      PROVE  (\A d \in Calls : RecentAt(d)') /\ (Idle' => Own')
  <2>1. /\ pc[c] = "fetch" /\ UNCHANGED <<time, client, since, disturbed, pc>>
        /\ RecentAt(c) /\ time >= since /\ ~Idle
    BY <1>5, RunningFacts DEF ServePool, RecentParts, Types, Moments, Times
  <2>2. RecentAt(c)'
    BY <1>5, <2>1, ServePoolEffect, RequestFacts, MarkerFacts DEF RecentAt, Moments
  <2>3. ~Idle'
    BY <2>1 DEF Idle, Running
  <2>. QED
    BY <1>5, <2>1, <2>2, <2>3, ServePoolEffect, OthersRecent DEF RecentParts
<1>6. ASSUME NEW c \in Calls, NEW k \in Requests, Serve(c, k)
      PROVE  (\A d \in Calls : RecentAt(d)') /\ (Idle' => Own')
  <2>1. /\ UNCHANGED <<time, client, since, disturbed, pc>>
        /\ RecentAt(c) /\ time >= since /\ Moments' = Moments
    BY <1>6 DEF Serve, RecentParts, Types, Moments, Times
  <2>2. /\ reply'[c][k] = time /\ time \in Moments
        /\ \A j \in Requests \ {k} : reply'[c][j] = reply[c][j]
    BY <1>6, ServeEffect DEF Types, Moments, Times
  <2>3. RecentAt(c)'
    BY <2>1, <2>2, RequestFacts, MarkerFacts DEF RecentAt
  <2>4. Idle' => Own'
    BY <2>1 DEF RecentParts, Idle, Running, Recent, OwnParts
  <2>. QED
    BY <1>6, <2>1, <2>3, <2>4, ServeEffect, OthersRecent DEF RecentParts
<1>7. ASSUME NEW c \in Calls, NEW v \in Vaults, ApplyVault(c, v)
      PROVE  (\A d \in Calls : RecentAt(d)') /\ (Idle' => Own')
  <2>1. /\ UNCHANGED <<time, since, disturbed, pc>> /\ RecentAt(c) /\ Moments' = Moments
        /\ client'.pool = client.pool /\ client'.supply = client.supply
        /\ client'.currentTime = client.currentTime
        /\ client'.depegAccounts = client.depegAccounts
    BY <1>7, ApplyVaultEffect DEF ApplyVault, RecentParts, Moments
  <2>2. RecentAt(c)'
    BY <1>7, <2>1, ApplyVaultEffect, RequestFacts, MarkerFacts DEF RecentAt
  <2>3. Idle' => Own'
    BY <2>1 DEF RecentParts, Idle, Running, Recent, OwnParts
  <2>. QED
    BY <1>7, <2>1, <2>2, <2>3, ApplyVaultEffect, OthersRecent DEF RecentParts
<1>8. ASSUME NEW c \in Calls, ApplyPoolState(c)
      PROVE  (\A d \in Calls : RecentAt(d)') /\ (Idle' => Own')
  <2>1. /\ UNCHANGED <<time, since, disturbed>> /\ RecentAt(c) /\ pc[c] = "fetch"
        /\ Moments' = Moments
    BY <1>8 DEF ApplyPoolState, RecentParts, Moments
  <2>2. reply[c]["pool"] >= since /\ reply[c]["supply"] >= since
    BY <1>8, <2>1, ApplyPoolStateEffect, RequestFacts DEF RecentAt
  <2>3. RecentAt(c)'
    BY <1>8, <2>1, <2>2, ApplyPoolStateEffect, RequestFacts, MarkerFacts DEF RecentAt
  <2>4. ~Idle'
    BY <1>8, ApplyPoolStateEffect DEF Idle, Running
  <2>. QED
    BY <1>8, <2>1, <2>2, <2>3, <2>4, ApplyPoolStateEffect, OthersRecent DEF RecentParts
<1>9. ASSUME NEW c \in Calls, ApplyAccounts(c)
      PROVE  (\A d \in Calls : RecentAt(d)') /\ (Idle' => Own')
  <2>1. /\ UNCHANGED <<time, since, disturbed>> /\ RecentAt(c) /\ pc[c] = "accounts"
        /\ Moments' = Moments
    BY <1>9 DEF ApplyAccounts, RecentParts, Moments
  <2>2. reply[c]["accounts"] >= since
    BY <1>9, <2>1, ApplyAccountsEffect, RequestFacts DEF RecentAt
  <2>3. RecentAt(c)'
    BY <1>9, <2>1, <2>2, ApplyAccountsEffect, RequestFacts, MarkerFacts DEF RecentAt
  <2>4. ~Idle'
    BY <1>9, ApplyAccountsEffect DEF Idle, Running
  <2>. QED
    BY <1>9, <2>1, <2>2, <2>3, <2>4, ApplyAccountsEffect, OthersRecent DEF RecentParts
<1>10. ASSUME NEW c \in Calls, ApplyDepeg(c)
       PROVE  (\A d \in Calls : RecentAt(d)') /\ (Idle' => Own')
  <2>1. /\ UNCHANGED <<time, since, disturbed>> /\ RecentAt(c) /\ pc[c] = "depeg"
    BY <1>10 DEF ApplyDepeg, RecentParts
  <2>2. reply[c]["depeg"] >= since
    BY <1>10, <2>1, ApplyDepegEffect, RequestFacts DEF RecentAt
  <2>3. RecentAt(c)'
    BY <1>10, ApplyDepegEffect DEF RecentAt
  <2>4. client.pool >= since /\ client.supply >= since /\ client.currentTime >= since
    BY <2>1 DEF RecentAt
  <2>5. /\ client'.pool = client.pool /\ client'.supply = client.supply
        /\ client'.currentTime = client.currentTime
        /\ client'.depegAccounts = reply[c]["depeg"]
        /\ \A d \in Calls \ {c} : reply'[d] = reply[d] /\ pc'[d] = pc[d]
    BY <1>10, ApplyDepegEffect
  <2>6. Own'
    BY <2>1, <2>2, <2>4, <2>5 DEF Recent, OwnParts
  <2>7. \A d \in Calls \ {c} : RecentAt(d)'
    BY <2>1, <2>5, OthersRecent DEF RecentParts
  <2>. QED
    BY <2>3, <2>6, <2>7
<1>11. ASSUME NEW c \in Calls, NEW k \in Requests, Reject(c, k) PROVE FALSE
  BY <1>11, RejectEffect
<1>12. CASE UNCHANGED vars
  BY <1>12 DEF vars, RecentParts, RecentAt, Idle, Running, Recent, OwnParts, Moments
<1>. QED
  BY <1>1, <1>2, <1>3, <1>4, <1>5, <1>6, <1>7, <1>8, <1>9, <1>10, <1>11, <1>12 DEF Next, Progress

\* A step of one call that takes no vault back leaves the others' vaults alone.
LEMMA OthersVaults ==
    ASSUME NEW c \in Calls, NEW d \in Calls, d # c, VaultsAt(d),
           since' = since, reply'[d] = reply[d], pc'[d] = pc[d],
           \A v \in Vaults : client.vault[v] >= since => client'.vault[v] >= since
    PROVE  VaultsAt(d)'
BY DEF VaultsAt

LEMMA VaultsStep ==
    ASSUME Types, Awaits, RecentParts, RecentVaults, [Next]_vars
    PROVE  RecentVaults'
<1> DEFINE Own == Recent(VaultParts(client))
<1> SUFFICES ASSUME disturbed' \cap {"failure", "orphan"} = {}
             PROVE  (\A c \in Calls : VaultsAt(c)') /\ (Idle' => Own')
  BY DEF RecentVaults
<1> DEFINE Same == UNCHANGED <<pc, reply, client, since>>
<1>1. ASSUME Same, disturbed \subseteq disturbed'
      PROVE  (\A c \in Calls : VaultsAt(c)') /\ (Idle' => Own')
  <2>1. (\A c \in Calls : VaultsAt(c)) /\ (Idle => Own)
    BY <1>1 DEF RecentVaults
  <2>. QED
    BY <1>1, <2>1 DEF VaultsAt, Idle, Running, Recent, VaultParts
<1>2. CASE Tick
  BY <1>1, <1>2 DEF Tick
<1>3. CASE UpdateBaseVirtualPrice
  BY <1>1, <1>3 DEF UpdateBaseVirtualPrice
<1>4. CASE GetSwapQuote
  BY <1>1, <1>4 DEF GetSwapQuote
<1>5. ASSUME NEW c \in Calls, UpdateState(c)
      PROVE  (\A d \in Calls : VaultsAt(d)') /\ (Idle' => Own')
  <2>1. /\ client' = client /\ pc'[c] = "fetch"
        /\ \A d \in Calls \ {c} : reply'[d] = reply[d] /\ pc'[d] = pc[d]
        /\ \A k \in Vaults : reply'[c][k] = Sent
    BY <1>5, UpdateStateEffect DEF UpdateState
  <2>2. ~Idle'
    BY <2>1 DEF Idle, Running
  <2>3. VaultsAt(c)'
    BY <2>1, MarkerFacts DEF VaultsAt
  <2>4. CASE Idle
    <3>1. Orphans = {}
      BY <1>5, <2>4 DEF UpdateState
    <3>2. ASSUME NEW d \in Calls, d # c PROVE VaultsAt(d)'
      <4>1. pc[d] \notin {"fetch", "accounts", "depeg"}
        BY <2>4, RunningFacts
      <4>2. pc[d] = "rejected" => \A v \in Vaults : reply[d][v] \notin Times \cup {Sent}
        BY <3>1 DEF Orphans
      <4>. QED
        BY <2>1, <3>2, <4>1, <4>2 DEF VaultsAt
    <3>. QED
      BY <2>2, <2>3, <3>2
  <2>5. CASE ~Idle
    <3>1. disturbed \cap {"failure", "orphan"} = {} /\ since' = since
      BY <1>5, <2>5 DEF UpdateState
    <3>. QED
      BY <2>1, <2>2, <2>3, <3>1, OthersVaults DEF RecentVaults
  <2>. QED
    BY <2>4, <2>5
<1>6. ASSUME NEW c \in Calls, ServePool(c)
      PROVE  (\A d \in Calls : VaultsAt(d)') /\ (Idle' => Own')
  <2>1. /\ pc[c] = "fetch" /\ UNCHANGED <<client, since, disturbed, pc>> /\ VaultsAt(c)
        /\ \A v \in Vaults : reply'[c][v] = reply[c][v]
        /\ \A d \in Calls \ {c} : reply'[d] = reply[d]
    BY <1>6, ServePoolEffect, RequestFacts DEF ServePool, RecentVaults
  <2>2. ~Idle' /\ VaultsAt(c)'
    BY <2>1 DEF Idle, Running, VaultsAt
  <2>. QED
    BY <2>1, <2>2, OthersVaults DEF RecentVaults
<1>7. ASSUME NEW c \in Calls, NEW k \in Requests, Serve(c, k)
      PROVE  (\A d \in Calls : VaultsAt(d)') /\ (Idle' => Own')
  <2>1. /\ UNCHANGED <<client, since, disturbed, pc>> /\ reply[c][k] = Sent /\ VaultsAt(c)
        /\ k \in Vaults \/ pc[c] \in {"fetch", "accounts", "depeg"}
    BY <1>7 DEF Serve, RecentVaults
  <2>2. pc[c] # "rejected"
    BY <2>1 DEF VaultsAt
  <2>3. /\ reply'[c][k] = time /\ time \in Moments
        /\ \A j \in Requests \ {k} : reply'[c][j] = reply[c][j]
        /\ \A d \in Calls \ {c} : reply'[d] = reply[d]
    BY <1>7, ServeEffect DEF Types, Moments, Times
  <2>4. VaultsAt(c)'
    BY <2>1, <2>2, <2>3, RequestFacts, MarkerFacts DEF VaultsAt
  <2>5. Idle' => Own'
    BY <2>1 DEF RecentVaults, Idle, Running, Recent, VaultParts
  <2>. QED
    BY <2>1, <2>3, <2>4, <2>5, OthersVaults DEF RecentVaults
<1>8. ASSUME NEW c \in Calls, NEW v \in Vaults, ApplyVault(c, v)
      PROVE  (\A d \in Calls : VaultsAt(d)') /\ (Idle' => Own')
  <2>1. /\ UNCHANGED <<since, disturbed, pc>> /\ reply[c][v] \in Times
        /\ VaultsAt(c) /\ RecentAt(c) /\ reply[c][v] \in Moments
    BY <1>8, ApplyVaultEffect DEF ApplyVault, RecentVaults, RecentParts
  <2>2. pc[c] = "fetch"
    BY <2>1, WaitsForVault DEF VaultsAt
  <2>3. reply[c][v] >= since
    BY <2>1, <2>2, RequestFacts DEF RecentAt
  <2>4. \A u \in Vaults : client.vault[u] >= since => client'.vault[u] >= since
    BY <1>8, <2>3, ApplyVaultEffect
  <2>5. client'.vault[v] >= since
    BY <1>8, <2>3, ApplyVaultEffect
  <2>6. VaultsAt(c)'
    BY <1>8, <2>1, <2>2, <2>4, <2>5, ApplyVaultEffect, RequestFacts DEF VaultsAt
  <2>7. ~Idle'
    BY <2>1, <2>2 DEF Idle, Running
  <2>. QED
    BY <1>8, <2>1, <2>4, <2>6, <2>7, ApplyVaultEffect, OthersVaults DEF RecentVaults
<1>9. ASSUME NEW c \in Calls, ApplyPoolState(c)
      PROVE  (\A d \in Calls : VaultsAt(d)') /\ (Idle' => Own')
  <2>1. /\ UNCHANGED <<since, disturbed>> /\ pc[c] = "fetch"
        /\ pc'[c] = "accounts" /\ client'.vault = client.vault
        /\ \A d \in Calls \ {c} : reply'[d] = reply[d] /\ pc'[d] = pc[d]
    BY <1>9, ApplyPoolStateEffect DEF ApplyPoolState
  <2>2. \A v \in Vaults : reply'[c][v] = reply[c][v]
    BY <1>9, ApplyPoolStateEffect, RequestFacts
  <2>3. \A d \in Calls : VaultsAt(d)
    BY <2>1 DEF RecentVaults
  <2>4. ~Idle' /\ VaultsAt(c)'
    BY <2>1, <2>2, <2>3 DEF Idle, Running, VaultsAt
  <2>. QED
    BY <2>1, <2>3, <2>4, OthersVaults
<1>10. ASSUME NEW c \in Calls, ApplyAccounts(c)
       PROVE  (\A d \in Calls : VaultsAt(d)') /\ (Idle' => Own')
  <2>1. /\ UNCHANGED <<since, disturbed>> /\ pc[c] = "accounts"
        /\ pc'[c] = "depeg" /\ client'.vault = client.vault
        /\ \A d \in Calls \ {c} : reply'[d] = reply[d] /\ pc'[d] = pc[d]
    BY <1>10, ApplyAccountsEffect DEF ApplyAccounts
  <2>2. \A v \in Vaults : reply'[c][v] = reply[c][v]
    BY <1>10, ApplyAccountsEffect, RequestFacts
  <2>3. \A d \in Calls : VaultsAt(d)
    BY <2>1 DEF RecentVaults
  <2>4. ~Idle' /\ VaultsAt(c)'
    BY <2>1, <2>2, <2>3 DEF Idle, Running, VaultsAt
  <2>. QED
    BY <2>1, <2>3, <2>4, OthersVaults
<1>11. ASSUME NEW c \in Calls, ApplyDepeg(c)
       PROVE  (\A d \in Calls : VaultsAt(d)') /\ (Idle' => Own')
  <2>1. /\ UNCHANGED <<since, disturbed>> /\ VaultsAt(c) /\ AwaitsAt(c) /\ pc[c] = "depeg"
        /\ pc'[c] = "done" /\ client'.vault = client.vault
        /\ \A d \in Calls \ {c} : reply'[d] = reply[d] /\ pc'[d] = pc[d]
    BY <1>11, ApplyDepegEffect DEF ApplyDepeg, RecentVaults, Awaits
  <2>2. \A v \in Vaults : client.vault[v] >= since
    BY <2>1 DEF VaultsAt, AwaitsAt
  <2>3. VaultsAt(c)' /\ Own'
    BY <2>1, <2>2 DEF VaultsAt, Recent, VaultParts
  <2>. QED
    BY <2>1, <2>3, OthersVaults DEF RecentVaults
<1>12. ASSUME NEW c \in Calls, NEW k \in Requests, Reject(c, k) PROVE FALSE
  BY <1>12, RejectEffect
<1>13. CASE UNCHANGED vars
  BY <1>1, <1>13 DEF vars
<1>. QED
  BY <1>2, <1>3, <1>4, <1>5, <1>6, <1>7, <1>8, <1>9, <1>10, <1>11, <1>12, <1>13 DEF Next, Progress

LEMMA AloneStep ==
    ASSUME Types, Awaits, Alone, [Next]_vars
    PROVE  Alone'
<1> SUFFICES ASSUME disturbed' \subseteq {"quote", "orphan"}
             PROVE  (\A c \in Calls : AloneAt(c)') /\ (Idle' => Coherent')
  BY DEF Alone
<1> DEFINE Same == UNCHANGED <<pc, reply, client, since>>
<1>1. ASSUME Same, disturbed \subseteq {"quote", "orphan"}
      PROVE  (\A c \in Calls : AloneAt(c)') /\ (Idle' => Coherent')
  BY <1>1 DEF Alone, AloneAt, Idle, Running, Coherent
<1>2. CASE Tick
  BY <1>1, <1>2 DEF Tick
<1>3. CASE UpdateBaseVirtualPrice
  BY <1>1, <1>3 DEF UpdateBaseVirtualPrice
<1>4. CASE GetSwapQuote
  <2>1. disturbed \subseteq {"quote", "orphan"}
    BY <1>4 DEF GetSwapQuote
  <2>. QED
    BY <1>1, <1>4, <2>1 DEF GetSwapQuote
<1>5. ASSUME NEW c \in Calls, UpdateState(c)
      PROVE  (\A d \in Calls : AloneAt(d)') /\ (Idle' => Coherent')
  <2>1. Idle /\ since' = time /\ client' = client
    BY <1>5 DEF UpdateState
  <2>2. \A d \in Calls \ {c} : pc'[d] \notin {"fetch", "accounts", "depeg"}
    BY <1>5, <2>1, RunningFacts, UpdateStateEffect
  <2>3. pc'[c] = "fetch" /\ Running' = {c}
    BY <1>5, <2>2, UpdateStateEffect DEF Running
  <2>4. /\ client.pool <= time /\ client.supply <= time /\ client.currentTime <= time
        /\ client.depegAccounts <= time
    BY DEF Types, Client, Moments
  <2>5. AloneAt(c)'
    BY <2>1, <2>3, <2>4 DEF AloneAt
  <2>. QED
    BY <2>2, <2>3, <2>5 DEF AloneAt, Idle
<1>6. ASSUME NEW c \in Calls, pc[c] \in {"fetch", "accounts", "depeg"},
             UNCHANGED <<since, disturbed>>, AloneAt(c)',
             \A d \in Calls \ {c} : pc'[d] = pc[d], pc'[c] \in {"fetch", "accounts", "depeg"}
      PROVE  (\A d \in Calls : AloneAt(d)') /\ (Idle' => Coherent')
  <2>1. AloneAt(c)
    BY <1>6 DEF Alone
  <2>2. \A d \in Calls \ {c} : pc'[d] \notin {"fetch", "accounts", "depeg"}
    BY <1>6, <2>1 DEF AloneAt, Running
  <2>3. ~Idle'
    BY <1>6 DEF Idle, Running
  <2>. QED
    BY <1>6, <2>2, <2>3 DEF AloneAt
<1>7. ASSUME NEW c \in Calls, pc[c] \in {"fetch", "accounts", "depeg"}, disturbed' = disturbed,
             \A d \in Calls \ {c} : pc'[d] = pc[d]
      PROVE  AloneAt(c) /\ \A d \in Running' : d = c
  BY <1>7 DEF Alone, AloneAt, Running
<1>8. ASSUME NEW c \in Calls, ServePool(c)
      PROVE  (\A d \in Calls : AloneAt(d)') /\ (Idle' => Coherent')
  <2>1. pc[c] = "fetch" /\ UNCHANGED <<pc, client, since, disturbed>>
    BY <1>8 DEF ServePool
  <2>2. AloneAt(c) /\ \A d \in Running' : d = c
    BY <1>7, <2>1
  <2>3. AloneAt(c)'
    BY <2>1, <2>2 DEF AloneAt
  <2>. QED
    BY <1>6, <2>1, <2>3
<1>9. ASSUME NEW c \in Calls, NEW k \in Requests, Serve(c, k)
      PROVE  (\A d \in Calls : AloneAt(d)') /\ (Idle' => Coherent')
  <2>1. /\ UNCHANGED <<pc, client, since, disturbed>> /\ reply[c][k] = Sent /\ AwaitsAt(c)
        /\ \A j \in Requests \ {k} : reply'[c][j] = reply[c][j]
        /\ \A d \in Calls \ {c} : reply'[d] = reply[d]
    BY <1>9, ServeEffect DEF Serve, Awaits
  <2>2. (\A d \in Calls : AloneAt(d)) /\ (Idle => Coherent)
    BY <2>1 DEF Alone
  <2>3. ~(pc[c] = "depeg" /\ k = "accounts")
    BY <2>1, MarkerFacts DEF AwaitsAt
  <2>4. AloneAt(c)'
    BY <2>1, <2>2, <2>3, RequestFacts DEF AloneAt, Running
  <2>5. \A d \in Calls \ {c} : AloneAt(d)'
    BY <2>1, <2>2 DEF AloneAt, Running
  <2>. QED
    BY <2>1, <2>2, <2>4, <2>5 DEF Idle, Running, Coherent
<1>10. ASSUME NEW c \in Calls, NEW v \in Vaults, ApplyVault(c, v)
       PROVE  (\A d \in Calls : AloneAt(d)') /\ (Idle' => Coherent')
  <2>1. /\ UNCHANGED <<pc, since, disturbed>>
        /\ client'.pool = client.pool /\ client'.supply = client.supply
        /\ client'.currentTime = client.currentTime /\ client'.depeg = client.depeg
        /\ client'.depegAccounts = client.depegAccounts
        /\ client'.poolInfo = client.poolInfo /\ client'.curve = client.curve
        /\ \A d \in Calls : reply'[d]["accounts"] = reply[d]["accounts"]
    BY <1>10, ApplyVaultEffect, RequestFacts DEF ApplyVault
  <2>2. (\A d \in Calls : AloneAt(d)) /\ (Idle => Coherent)
    BY <2>1 DEF Alone
  <2>3. \A d \in Calls : AloneAt(d)'
    BY <2>1, <2>2 DEF AloneAt, Running
  <2>. QED
    BY <2>1, <2>2, <2>3 DEF Idle, Running, Coherent
<1>11. ASSUME NEW c \in Calls, ApplyPoolState(c)
       PROVE  (\A d \in Calls : AloneAt(d)') /\ (Idle' => Coherent')
  <2>1. /\ pc[c] = "fetch" /\ pc'[c] = "accounts" /\ UNCHANGED <<since, disturbed>>
        /\ \A d \in Calls \ {c} : pc'[d] = pc[d]
        /\ client'.depeg = c /\ client'.currentTime = client.currentTime
        /\ client'.depegAccounts = client.depegAccounts
    BY <1>11, ApplyPoolStateEffect DEF ApplyPoolState
  <2>2. AloneAt(c) /\ \A d \in Running' : d = c
    BY <1>7, <2>1
  <2>3. AloneAt(c)'
    BY <2>1, <2>2 DEF AloneAt
  <2>. QED
    BY <1>6, <2>1, <2>3
<1>12. ASSUME NEW c \in Calls, ApplyAccounts(c)
       PROVE  (\A d \in Calls : AloneAt(d)') /\ (Idle' => Coherent')
  <2>1. /\ pc[c] = "accounts" /\ pc'[c] = "depeg" /\ UNCHANGED <<since, disturbed>>
        /\ \A d \in Calls \ {c} : pc'[d] = pc[d]
        /\ client'.depeg = client.depeg /\ client'.currentTime = reply[c]["accounts"]
        /\ client'.depegAccounts = client.depegAccounts
    BY <1>12, ApplyAccountsEffect DEF ApplyAccounts
  <2>2. AloneAt(c) /\ \A d \in Running' : d = c
    BY <1>7, <2>1
  <2>3. reply'[c]["accounts"] = reply[c]["accounts"]
    BY <1>12, ApplyAccountsEffect, RequestFacts
  <2>4. AloneAt(c)'
    BY <2>1, <2>2, <2>3 DEF AloneAt
  <2>. QED
    BY <1>6, <2>1, <2>4
<1>13. ASSUME NEW c \in Calls, ApplyDepeg(c)
       PROVE  (\A d \in Calls : AloneAt(d)') /\ (Idle' => Coherent')
  <2>1. /\ pc[c] = "depeg" /\ pc'[c] = "done" /\ UNCHANGED <<since, disturbed>>
        /\ \A d \in Calls \ {c} : pc'[d] = pc[d]
        /\ client'.depeg = client.depeg /\ client'.currentTime = client.currentTime
        /\ client'.poolInfo = reply[c]["accounts"]
        /\ client'.curve = [depeg |-> c, time |-> reply[c]["accounts"]]
    BY <1>13, ApplyDepegEffect DEF ApplyDepeg
  <2>2. AloneAt(c) /\ \A d \in Running' : d = c
    BY <1>7, <2>1
  <2>3. \A d \in Calls : pc'[d] \notin {"fetch", "accounts", "depeg"}
    BY <2>1, <2>2 DEF Running
  <2>4. Coherent'
    BY <2>1, <2>2 DEF Coherent, AloneAt
  <2>. QED
    BY <2>3, <2>4 DEF AloneAt
<1>14. ASSUME NEW c \in Calls, NEW k \in Requests, Reject(c, k) PROVE FALSE
  BY <1>14, RejectEffect
<1>15. CASE UNCHANGED vars
  BY <1>1, <1>15 DEF vars
<1>. QED
  BY <1>2, <1>3, <1>4, <1>5, <1>8, <1>9, <1>10, <1>11, <1>12, <1>13, <1>14, <1>15 DEF Next, Progress

LEMMA OldVaultsStep ==
    ASSUME Types, Awaits, RecentVaults, Alone, OldVaults, [Next]_vars
    PROVE  OldVaults'
<1> SUFFICES ASSUME disturbed' \subseteq {"quote"} PROVE \A c \in Calls : OldVaultsAt(c)'
  BY DEF OldVaults
<1>1. ASSUME UNCHANGED <<pc, since>>, client'.vault = client.vault, disturbed \subseteq disturbed',
             \A c \in Calls, v \in Vaults : reply[c][v] = Applied => reply'[c][v] = Applied
      PROVE  \A c \in Calls : OldVaultsAt(c)'
  BY <1>1 DEF OldVaults, OldVaultsAt
<1>2. CASE Tick
  BY <1>1, <1>2 DEF Tick
<1>3. CASE UpdateBaseVirtualPrice
  BY <1>1, <1>3 DEF UpdateBaseVirtualPrice
<1>4. CASE GetSwapQuote
  BY <1>1, <1>4 DEF GetSwapQuote
<1>5. ASSUME NEW c \in Calls, UpdateState(c) PROVE \A d \in Calls : OldVaultsAt(d)'
  <2>1. Idle /\ since' = time /\ client' = client
    BY <1>5 DEF UpdateState
  <2>2. \A d \in Calls \ {c} : pc'[d] \notin {"fetch", "accounts", "depeg"}
    BY <1>5, <2>1, RunningFacts, UpdateStateEffect
  <2>3. \A v \in Vaults : client.vault[v] <= time
    BY DEF Types, Client, Moments
  <2>. QED
    BY <2>1, <2>2, <2>3 DEF OldVaultsAt
<1>6. ASSUME NEW c \in Calls, ServePool(c) PROVE \A d \in Calls : OldVaultsAt(d)'
  <2>1. \A d \in Calls, v \in Vaults : reply'[d][v] = reply[d][v]
    BY <1>6, ServePoolEffect, RequestFacts
  <2>. QED
    BY <1>1, <1>6, <2>1 DEF ServePool
<1>7. ASSUME NEW c \in Calls, NEW k \in Requests, Serve(c, k)
      PROVE  \A d \in Calls : OldVaultsAt(d)'
  <2>1. \A d \in Calls, v \in Vaults : reply[d][v] = Applied => reply'[d][v] = Applied
    BY <1>7, ServeEffect, RequestFacts, MarkerFacts DEF Serve
  <2>. QED
    BY <1>1, <1>7, <2>1 DEF Serve
<1>8. ASSUME NEW c \in Calls, NEW v \in Vaults, ApplyVault(c, v)
      PROVE  \A d \in Calls : OldVaultsAt(d)'
  <2>1. /\ UNCHANGED <<pc, since, disturbed>> /\ reply[c][v] \in Times /\ reply[c][v] \in Moments
        /\ reply'[c][v] = Applied
        /\ \A u \in Vaults \ {v} : client'.vault[u] = client.vault[u]
                                   /\ reply'[c][u] = reply[c][u]
    <3>1. UNCHANGED <<pc, since, disturbed>> /\ reply[c][v] \in Times
      BY <1>8 DEF ApplyVault
    <3>2. reply'[c][v] = Applied /\ reply[c][v] \in Moments
      BY <1>8, ApplyVaultEffect
    <3>3. \A u \in Vaults \ {v} : client'.vault[u] = client.vault[u] /\ reply'[c][u] = reply[c][u]
      BY <1>8, ApplyVaultEffect, RequestFacts
    <3>. QED
      BY <3>1, <3>2, <3>3
  <2>2. VaultsAt(c) /\ AloneAt(c) /\ OldVaultsAt(c)
    BY <2>1 DEF RecentVaults, Alone, OldVaults
  <2>3. pc[c] = "fetch"
    BY <2>1, <2>2, WaitsForVault DEF VaultsAt
  <2>4. \A d \in Calls \ {c} : pc'[d] \notin {"fetch", "accounts", "depeg"}
    BY <2>1, <2>2, <2>3 DEF AloneAt, Running
  <2>5. OldVaultsAt(c)'
    BY <2>1, <2>2, <2>3 DEF OldVaultsAt
  <2>. QED
    BY <2>4, <2>5 DEF OldVaultsAt
<1>9. ASSUME NEW c \in Calls, ApplyPoolState(c) \/ ApplyAccounts(c) \/ ApplyDepeg(c)
      PROVE  \A d \in Calls : OldVaultsAt(d)'
  <2>1. /\ UNCHANGED <<since, disturbed>> /\ pc[c] \in {"fetch", "accounts", "depeg"}
        /\ \A d \in Calls \ {c} : reply'[d] = reply[d] /\ pc'[d] = pc[d]
        /\ client'.vault = client.vault
    BY <1>9, ApplyPoolStateEffect, ApplyAccountsEffect, ApplyDepegEffect
       DEF ApplyPoolState, ApplyAccounts, ApplyDepeg
  <2>2. \A v \in Vaults : pc'[c] \in {"fetch", "accounts", "depeg"} => reply'[c][v] = reply[c][v]
    <3>1. CASE ApplyPoolState(c)
      BY <3>1, ApplyPoolStateEffect, RequestFacts
    <3>2. CASE ApplyAccounts(c)
      BY <3>2, ApplyAccountsEffect, RequestFacts
    <3>3. CASE ApplyDepeg(c)
      BY <3>3, ApplyDepegEffect
    <3>. QED
      BY <1>9, <3>1, <3>2, <3>3
  <2>3. \A d \in Calls : OldVaultsAt(d)
    BY <2>1 DEF OldVaults
  <2>. QED
    BY <2>1, <2>2, <2>3 DEF OldVaultsAt
<1>10. ASSUME NEW c \in Calls, NEW k \in Requests, Reject(c, k) PROVE FALSE
  BY <1>10, RejectEffect
<1>11. CASE UNCHANGED vars
  BY <1>1, <1>11 DEF vars
<1>. QED
  BY <1>2, <1>3, <1>4, <1>5, <1>6, <1>7, <1>8, <1>9, <1>10, <1>11 DEF Next, Progress

LEMMA PricesStep ==
    ASSUME Types, Awaits, RecentParts, Prices, [Next]_vars
    PROVE  Prices'
<1> SUFFICES ASSUME disturbed' \subseteq {"overlap", "orphan"}
             PROVE  (\A c \in Calls : PricedAt(c)') /\ (Idle' => Priced(heap[client.depeg])')
  BY DEF Prices
<1>1. ASSUME UNCHANGED <<heap, pc, since>>, client'.depeg = client.depeg,
             disturbed \subseteq {"overlap", "orphan"},
             \A c \in Calls : pc[c] = "fetch" /\ reply'[c]["pool"] # Sent
                              => reply[c]["pool"] # Sent
      PROVE  (\A c \in Calls : PricedAt(c)') /\ (Idle' => Priced(heap[client.depeg])')
  <2>1. (\A c \in Calls : PricedAt(c)) /\ (Idle => Priced(heap[client.depeg]))
    BY <1>1 DEF Prices
  <2>. QED
    BY <1>1, <2>1 DEF PricedAt, Priced, Idle, Running
<1>2. CASE Tick
  BY <1>1, <1>2 DEF Tick
<1>3. CASE UpdateBaseVirtualPrice
  BY <1>1, <1>3 DEF UpdateBaseVirtualPrice
<1>4. CASE GetSwapQuote
  <2>1. Idle /\ disturbed' = disturbed /\ UNCHANGED <<pc, reply, client, since>>
    BY <1>4 DEF GetSwapQuote
  <2>2. \A c \in Calls : pc'[c] \notin {"fetch", "accounts", "depeg"}
    BY <2>1, RunningFacts
  <2>3. client.depegAccounts >= since /\ Priced(heap[client.depeg])
    BY <2>1, RecentFacts DEF RecentParts, Prices
  <2>4. Priced(QuoteDepeg)
    BY <2>3 DEF QuoteDepeg, UpdateDepegInfoIfExpired, Priced
  <2>5. Priced(heap[client.depeg])'
    BY <1>4, <2>1, <2>4, QuoteEffect DEF Priced
  <2>. QED
    BY <2>2, <2>5 DEF PricedAt
<1>5. ASSUME NEW c \in Calls, UpdateState(c)
      PROVE  (\A d \in Calls : PricedAt(d)') /\ (Idle' => Priced(heap[client.depeg])')
  <2>1. /\ pc'[c] = "fetch" /\ reply'[c]["pool"] = Sent /\ UNCHANGED <<client, heap>>
        /\ \A d \in Calls \ {c} : reply'[d] = reply[d] /\ pc'[d] = pc[d]
    BY <1>5, UpdateStateEffect DEF UpdateState
  <2>2. ~Idle' /\ PricedAt(c)'
    BY <2>1 DEF Idle, Running, PricedAt
  <2>3. CASE Idle
    <3>1. \A d \in Calls \ {c} : pc'[d] \notin {"fetch", "accounts", "depeg"}
      BY <2>1, <2>3, RunningFacts
    <3>. QED
      BY <2>2, <3>1 DEF PricedAt
  <2>4. CASE ~Idle
    <3>1. since' = since /\ disturbed \subseteq {"overlap", "orphan"}
      BY <1>5, <2>4 DEF UpdateState
    <3>. QED
      BY <2>1, <2>2, <3>1 DEF Prices, PricedAt, Priced
  <2>. QED
    BY <2>3, <2>4
<1>6. ASSUME NEW c \in Calls, ServePool(c)
      PROVE  (\A d \in Calls : PricedAt(d)') /\ (Idle' => Priced(heap[client.depeg])')
  <2>1. /\ pc[c] = "fetch" /\ UNCHANGED <<pc, client, since, disturbed>>
        /\ \A d \in Calls \ {c} : reply'[d] = reply[d]
        /\ \A d \in {0} \cup Calls : d # c => heap'[d] = heap[d]
        /\ heap'[c].price = chainDepeg /\ heap'[c].updated = chainDepeg
        /\ chainDepeg \in Nat
    BY <1>6, ServePoolEffect DEF ServePool, Types, Moments
  <2>2. client.depeg # c /\ client.depeg \in {0} \cup Calls /\ 0 \notin Calls
    BY <2>1 DEF Awaits, AwaitsAt, Types, Client, Calls
  <2>3. (\A d \in Calls : PricedAt(d)) /\ (Idle => Priced(heap[client.depeg]))
    BY <2>1 DEF Prices
  <2>4. heap'[client'.depeg] = heap[client.depeg]
    BY <2>1, <2>2
  <2>5. PricedAt(c)'
    BY <2>1, <2>3, <2>4 DEF PricedAt, Priced
  <2>6. ASSUME NEW d \in Calls, d # c PROVE PricedAt(d)'
    <3>1. heap'[d] = heap[d] /\ reply'[d] = reply[d] /\ pc'[d] = pc[d] /\ PricedAt(d)
      BY <2>1, <2>3, <2>6
    <3>. QED
      BY <2>1, <2>4, <3>1 DEF PricedAt, Priced
  <2>7. ~Idle'
    BY <2>1 DEF Idle, Running
  <2>. QED
    BY <2>5, <2>6, <2>7
<1>7. ASSUME NEW c \in Calls, NEW k \in Requests, Serve(c, k)
      PROVE  (\A d \in Calls : PricedAt(d)') /\ (Idle' => Priced(heap[client.depeg])')
  <2>1. \A d \in Calls : reply'[d]["pool"] = reply[d]["pool"]
    BY <1>7, ServeEffect, RequestFacts DEF Serve
  <2>. QED
    BY <1>1, <1>7, <2>1 DEF Serve
<1>8. ASSUME NEW c \in Calls, NEW v \in Vaults, ApplyVault(c, v)
      PROVE  (\A d \in Calls : PricedAt(d)') /\ (Idle' => Priced(heap[client.depeg])')
  <2>1. client'.depeg = client.depeg /\ \A d \in Calls : reply'[d]["pool"] = reply[d]["pool"]
    BY <1>8, ApplyVaultEffect, RequestFacts
  <2>. QED
    BY <1>1, <1>8, <2>1 DEF ApplyVault
<1>9. ASSUME NEW c \in Calls, ApplyPoolState(c)
      PROVE  (\A d \in Calls : PricedAt(d)') /\ (Idle' => Priced(heap[client.depeg])')
  <2>1. /\ pc[c] = "fetch" /\ pc'[c] = "accounts" /\ UNCHANGED <<heap, since, disturbed>>
        /\ \A d \in Calls \ {c} : reply'[d] = reply[d] /\ pc'[d] = pc[d]
        /\ client'.depeg = c /\ reply[c]["pool"] \in Moments
    BY <1>9, ApplyPoolStateEffect DEF ApplyPoolState
  <2>2. \A d \in Calls : PricedAt(d)
    BY <2>1 DEF Prices
  <2>3. heap[c].price >= heap[c].updated
    BY <2>1, <2>2, MarkerFacts DEF PricedAt
  <2>. QED
    BY <2>1, <2>2, <2>3 DEF PricedAt, Priced
<1>10. ASSUME NEW c \in Calls, ApplyAccounts(c)
       PROVE  (\A d \in Calls : PricedAt(d)') /\ (Idle' => Priced(heap[client.depeg])')
  <2>1. /\ pc[c] = "accounts" /\ pc'[c] = "depeg" /\ UNCHANGED <<heap, since, disturbed>>
        /\ \A d \in Calls \ {c} : reply'[d] = reply[d] /\ pc'[d] = pc[d]
        /\ client'.depeg = client.depeg
    BY <1>10, ApplyAccountsEffect DEF ApplyAccounts
  <2>2. \A d \in Calls : PricedAt(d)
    BY <2>1 DEF Prices
  <2>. QED
    BY <2>1, <2>2 DEF PricedAt, Priced
<1>11. ASSUME NEW c \in Calls, ApplyDepeg(c)
       PROVE  (\A d \in Calls : PricedAt(d)') /\ (Idle' => Priced(heap[client.depeg])')
  <2>1. /\ pc[c] = "depeg" /\ pc'[c] = "done" /\ UNCHANGED <<since, disturbed>>
        /\ \A d \in Calls \ {c} : reply'[d] = reply[d] /\ pc'[d] = pc[d]
        /\ client'.depeg = client.depeg /\ client.depeg \in {0} \cup Calls
        /\ \A d \in {0} \cup Calls : d # c => heap'[d] = heap[d]
        /\ heap'[c] = UpdateDepegInfoIfExpired(heap[c], reply[c]["depeg"],
                                               reply[c]["accounts"])
    BY <1>11, ApplyDepegEffect DEF ApplyDepeg, Types, Client
  <2>2. (\A d \in Calls : PricedAt(d)) /\ RecentAt(c)
    BY <2>1 DEF Prices, RecentParts
  <2>3. reply[c]["depeg"] >= since
    BY <1>11, <2>1, <2>2, ApplyDepegEffect, RequestFacts DEF RecentAt
  <2>4. Priced(heap'[c])
    BY <2>1, <2>2, <2>3 DEF UpdateDepegInfoIfExpired, Priced, PricedAt
  <2>5. Priced(heap'[client.depeg])
    BY <2>1, <2>2, <2>4 DEF PricedAt
  <2>6. PricedAt(c)'
    BY <2>1 DEF PricedAt
  <2>7. ASSUME NEW d \in Calls, d # c PROVE PricedAt(d)'
    BY <2>1, <2>2, <2>5, <2>7 DEF PricedAt, Priced
  <2>. QED
    BY <2>1, <2>5, <2>6, <2>7 DEF Priced
<1>12. ASSUME NEW c \in Calls, NEW k \in Requests, Reject(c, k) PROVE FALSE
  BY <1>12, RejectEffect
<1>13. CASE UNCHANGED vars
  BY <1>1, <1>13 DEF vars
<1>. QED
  BY <1>2, <1>3, <1>4, <1>5, <1>6, <1>7, <1>8, <1>9, <1>10, <1>11, <1>12, <1>13 DEF Next, Progress

LEMMA FreshStep ==
    ASSUME Types, Awaits, RecentParts, Alone, Prices, FreshPrice, [Next]_vars
    PROVE  FreshPrice'
<1> SUFFICES ASSUME disturbed' \subseteq {"orphan"}, Idle'
             PROVE  /\ heap'[client'.depeg].price >= heap'[client'.depeg].updated
                    /\ client'.currentTime <= heap'[client'.depeg].updated + CacheLife
  BY DEF FreshPrice
<1> DEFINE Goal == /\ heap'[client'.depeg].price >= heap'[client'.depeg].updated
                   /\ client'.currentTime <= heap'[client'.depeg].updated + CacheLife
<1>1. ASSUME UNCHANGED <<heap, pc, disturbed>>, client'.depeg = client.depeg,
             client'.currentTime = client.currentTime
      PROVE  Goal
  BY <1>1 DEF FreshPrice, Idle, Running
<1>2. CASE Tick
  BY <1>1, <1>2 DEF Tick
<1>3. CASE UpdateBaseVirtualPrice
  BY <1>1, <1>3 DEF UpdateBaseVirtualPrice
<1>4. CASE GetSwapQuote
  <2>1. Idle /\ disturbed \subseteq {"orphan"} /\ client' = client
    BY <1>4 DEF GetSwapQuote, Idle, Running
  <2>2. /\ heap[client.depeg].price >= heap[client.depeg].updated
        /\ client.currentTime <= heap[client.depeg].updated + CacheLife
    BY <2>1 DEF FreshPrice
  <2>3. client.currentTime \in Int /\ heap[client.depeg].updated + CacheLife \in Int
    BY ClientConstants DEF Types, Client, Moments
  <2>4. QuoteDepeg = heap[client.depeg]
    BY <2>2, <2>3 DEF QuoteDepeg, UpdateDepegInfoIfExpired
  <2>. QED
    BY <1>4, <2>1, <2>2, <2>4, QuoteEffect
<1>5. ASSUME NEW c \in Calls, UpdateState(c) PROVE Goal
  BY <1>5, UpdateStateEffect DEF Idle, Running
<1>6. ASSUME NEW c \in Calls, ServePool(c) PROVE Goal
  BY <1>6 DEF ServePool, Idle, Running
<1>7. ASSUME NEW c \in Calls, NEW k \in Requests, Serve(c, k) PROVE Goal
  BY <1>1, <1>7 DEF Serve
<1>8. ASSUME NEW c \in Calls, NEW v \in Vaults, ApplyVault(c, v) PROVE Goal
  BY <1>1, <1>8, ApplyVaultEffect DEF ApplyVault
<1>9. ASSUME NEW c \in Calls, ApplyPoolState(c) PROVE Goal
  BY <1>9, ApplyPoolStateEffect DEF Idle, Running
<1>10. ASSUME NEW c \in Calls, ApplyAccounts(c) PROVE Goal
  BY <1>10, ApplyAccountsEffect DEF Idle, Running
<1>11. ASSUME NEW c \in Calls, ApplyDepeg(c) PROVE Goal
  <2>1. pc[c] = "depeg" /\ disturbed \subseteq {"orphan"} /\ AwaitsAt(c) /\ AloneAt(c) /\ PricedAt(c)
    BY <1>11 DEF ApplyDepeg, Awaits, Alone, Prices
  <2>2. /\ client.depeg = c /\ client.currentTime = reply[c]["accounts"]
        /\ reply[c]["depeg"] >= reply[c]["accounts"]
        /\ heap[c].price >= heap[c].updated
    BY <1>11, <2>1, ApplyDepegEffect DEF AwaitsAt, AloneAt, PricedAt
  <2>3. /\ client'.depeg = c /\ client'.currentTime = reply[c]["accounts"]
        /\ heap'[c] = UpdateDepegInfoIfExpired(heap[c], reply[c]["depeg"],
                                               reply[c]["accounts"])
        /\ reply[c]["accounts"] \in Moments
    BY <1>11, <2>2, ApplyDepegEffect
  <2>4. heap[c].updated \in Nat /\ reply[c]["accounts"] \in Nat /\ CacheLife \in Nat
    BY <2>3, ClientConstants DEF Types, Moments
  <2>5. CASE reply[c]["accounts"] > heap[c].updated + CacheLife
    <3>1. heap'[c] = [price |-> reply[c]["depeg"], updated |-> reply[c]["accounts"]]
      BY <2>3, <2>5 DEF UpdateDepegInfoIfExpired
    <3>. QED
      BY <2>2, <2>3, <2>4, <3>1
  <2>6. CASE ~(reply[c]["accounts"] > heap[c].updated + CacheLife)
    <3>1. heap'[c] = heap[c]
      BY <2>3, <2>6 DEF UpdateDepegInfoIfExpired
    <3>. QED
      BY <2>2, <2>3, <2>4, <2>6, <3>1
  <2>. QED
    BY <2>5, <2>6
<1>12. ASSUME NEW c \in Calls, NEW k \in Requests, Reject(c, k) PROVE FALSE
  BY <1>12, RejectEffect
<1>13. CASE UNCHANGED vars
  BY <1>1, <1>13 DEF vars
<1>. QED
  BY <1>2, <1>3, <1>4, <1>5, <1>6, <1>7, <1>8, <1>9, <1>10, <1>11, <1>12, <1>13 DEF Next, Progress

LEMMA InvInit == Init => Inv
<1> SUFFICES ASSUME Init PROVE Inv
  OBVIOUS
<1>1. PICK pool, vaults, accounts \in 0..time :
        /\ pool <= vaults /\ vaults <= accounts
        /\ heap = [c \in {0} \cup Calls |->
                     UpdateDepegInfoIfExpired([price |-> 0, updated |-> 0], time, accounts)]
        /\ client = [depeg |-> 0, pool |-> pool, supply |-> pool,
                     vault |-> [v \in Vaults |-> vaults],
                     currentTime |-> accounts, depegAccounts |-> time,
                     curve |-> [depeg |-> 0, time |-> accounts],
                     poolInfo |-> accounts]
        /\ since = pool
  BY DEF Init
<1> DEFINE h == UpdateDepegInfoIfExpired([price |-> 0, updated |-> 0], time, accounts)
<1>2. /\ time \in Times /\ time \in Nat /\ CacheLife \in Nat /\ 0 \in Moments
      /\ chainDepeg = 0 /\ disturbed = {}
      /\ pc = [c \in Calls |-> "unused"] /\ reply = [c \in Calls |-> [k \in Requests |-> Unsent]]
  BY ClientConstants DEF Init, Times, Moments
<1>3. /\ h \in [price : Moments, updated : Moments] /\ h.price >= h.updated
      /\ accounts <= h.updated + CacheLife
  BY <1>1, <1>2 DEF UpdateDepegInfoIfExpired, Moments
<1>4. heap = [c \in {0} \cup Calls |-> h]
  BY <1>1
<1> HIDE DEF h
<1>5. Types
  <2>1. client \in Client
    BY <1>1, <1>2 DEF Client, Moments
  <2>2. heap \in [{0} \cup Calls -> [price : Moments, updated : Moments]]
    BY <1>3, <1>4
  <2>3. reply \in [Calls -> [Requests -> Answer]]
    BY <1>2 DEF Answer
  <2>. QED
    BY <1>1, <1>2, <2>1, <2>2, <2>3 DEF Types, Moments
<1>6. Awaits
  BY <1>1, <1>2 DEF Awaits, AwaitsAt, Calls
<1>7. Idle /\ \A c \in Calls : pc[c] = "unused"
  BY <1>2 DEF Idle, Running
<1>8. RecentParts /\ RecentVaults
  <2>1. Recent(OwnParts(client)) /\ Recent(VaultParts(client))
    BY <1>1, <1>2 DEF Recent, OwnParts, VaultParts
  <2>. QED
    BY <1>7, <2>1 DEF RecentParts, RecentAt, RecentVaults, VaultsAt
<1>9. Alone /\ OldVaults
  BY <1>1, <1>7 DEF Alone, AloneAt, Coherent, OldVaults, OldVaultsAt
<1>10. heap[client.depeg] = h /\ client.currentTime = accounts
  BY <1>1, <1>4
<1>11. Prices /\ FreshPrice
  BY <1>3, <1>7, <1>10 DEF Prices, PricedAt, Priced, FreshPrice
<1>. QED
  BY <1>5, <1>6, <1>8, <1>9, <1>11 DEF Inv

LEMMA InvStep == Inv /\ [Next]_vars => Inv'
BY TypesStep, AwaitsStep, RecentStep, VaultsStep, AloneStep, OldVaultsStep, PricesStep, FreshStep
   DEF Inv

LEMMA InvAlways == Spec => []Inv
<1>1. Init => Inv
  BY InvInit
<1>2. Inv /\ [Next]_vars => Inv'
  BY InvStep
<1>. QED
  BY <1>1, <1>2, PTL DEF Spec

\* An updateState that runs alone and without a failing request leaves a client whose
\* own parts were all read by it and belong together, whatever happened to the client
\* before; its vaults are recent unless a rejected call's refreshes came late, and its
\* prices are within the cache lifetime unless a quote interrupted it.
THEOREM UpdateRepairsAlways == Spec => []UpdateRepairs
<1>1. Inv => UpdateRepairs
  <2> SUFFICES ASSUME Inv, Idle, disturbed \subseteq {"quote", "orphan"}
               PROVE  /\ Recent(OwnParts(client)) /\ Coherent
                      /\ "orphan" \notin disturbed => Recent(VaultParts(client))
                      /\ "quote" \notin disturbed => PricesFresh
    BY DEF UpdateRepairs
  <2> DEFINE h == heap[client.depeg]
  <2>1. Recent(OwnParts(client)) /\ Coherent
    BY DEF Inv, RecentParts, Alone
  <2>2. "orphan" \notin disturbed => Recent(VaultParts(client))
    BY DEF Inv, RecentVaults
  <2>3. ASSUME "quote" \notin disturbed PROVE PricesFresh
    <3>1. h.price >= h.updated /\ client.currentTime <= h.updated + CacheLife
      BY <2>3 DEF Inv, FreshPrice
    <3>2. /\ h.price \in Int /\ h.updated \in Int
          /\ client.currentTime \in Int /\ CacheLife \in Int
      BY ClientConstants DEF Inv, Types, Client, Moments
    <3>3. QuoteDepeg = h
      BY <3>1, <3>2 DEF QuoteDepeg, UpdateDepegInfoIfExpired
    <3>4. client.curve.depeg = client.depeg /\ client.curve.time = client.currentTime
      BY <2>1 DEF Coherent
    <3>5. h.price >= client.currentTime - CacheLife
      BY <3>1, <3>2
    <3>. QED
      BY <3>3, <3>4, <3>5 DEF PricesFresh
  <2>. QED
    BY <2>1, <2>2, <2>3
<1>. QED
  BY <1>1, InvAlways, PTL

\* However many updateState calls overlapped and in whatever order their requests
\* were answered, once all are over without a failure the client holds nothing that
\* was read before the first of them started, save for vaults that calls rejected
\* earlier still refreshed.
THEOREM RecentWhenIdleAlways == Spec => []RecentWhenIdle
<1>1. Inv => RecentWhenIdle
  BY DEF Inv, RecentParts, RecentVaults, RecentWhenIdle
<1>. QED
  BY <1>1, InvAlways, PTL

\* When the calls that overlapped are over, getSwapQuote prices with a base virtual
\* price within the cache lifetime or with one read since the first of them started.
THEOREM PriceBoundAlways == Spec => []PriceBoundWhenIdle
<1>1. Inv => PriceBoundWhenIdle
  <2> SUFFICES ASSUME Inv, Idle, disturbed \subseteq {"overlap", "orphan"}
               PROVE  \/ QuoteDepeg.price >= client.currentTime - CacheLife
                      \/ QuoteDepeg.price >= since
    BY DEF PriceBoundWhenIdle
  <2> DEFINE h == heap[client.depeg]
  <2>1. client.depegAccounts >= since /\ Priced(h)
    BY RecentFacts DEF Inv, RecentParts, Prices
  <2>2. h.price \in Int /\ h.updated \in Int /\ client.currentTime \in Int /\ CacheLife \in Int
    BY ClientConstants DEF Inv, Types, Client, Moments
  <2>3. CASE client.currentTime > h.updated + CacheLife
    BY <2>1, <2>3 DEF QuoteDepeg, UpdateDepegInfoIfExpired
  <2>4. CASE ~(client.currentTime > h.updated + CacheLife)
    <3>1. QuoteDepeg = h
      BY <2>4 DEF QuoteDepeg, UpdateDepegInfoIfExpired
    <3>. QED
      BY <2>1, <2>2, <2>4, <3>1 DEF Priced
  <2>. QED
    BY <2>3, <2>4
<1>. QED
  BY <1>1, InvAlways, PTL

\* The parts of the client only move forward in time while one call at a time runs,
\* even when earlier calls failed or overlapped, save for vaults that rejected calls
\* still refresh.
THEOREM NeverOlderAlways == Spec => NeverOlder
<1> DEFINE Forward ==
             /\ client'.pool >= client.pool /\ client'.supply >= client.supply
             /\ client'.currentTime >= client.currentTime
             /\ client'.depegAccounts >= client.depegAccounts
             /\ "orphan" \notin disturbed' =>
                  \A v \in Vaults : client'.vault[v] >= client.vault[v]
<1>1. ASSUME Inv, [Next]_vars, disturbed' \subseteq {"quote", "orphan"} PROVE Forward
  <2>1. /\ client.pool \in Int /\ client.supply \in Int /\ client.currentTime \in Int
        /\ client.depegAccounts \in Int /\ \A v \in Vaults : client.vault[v] \in Int
        /\ since \in Int /\ \A t \in Moments : t \in Int
    BY <1>1 DEF Inv, Types, Client, Moments
  <2>2. CASE client' = client
    BY <2>1, <2>2
  <2>3. ASSUME NEW c \in Calls, disturbed' = disturbed
        PROVE  AwaitsAt(c) /\ RecentAt(c) /\ AloneAt(c)
    BY <1>1, <2>3 DEF Inv, Awaits, RecentParts, Alone
  <2>4. ASSUME NEW c \in Calls, NEW v \in Vaults, ApplyVault(c, v) PROVE Forward
    <3>1. /\ client'.vault[v] = reply[c][v]
          /\ \A u \in Vaults \ {v} : client'.vault[u] = client.vault[u]
          /\ client'.pool = client.pool /\ client'.supply = client.supply
          /\ client'.currentTime = client.currentTime
          /\ client'.depegAccounts = client.depegAccounts
          /\ reply[c][v] \in Moments /\ reply[c][v] \in Times /\ disturbed' = disturbed
      BY <1>1, <2>4, ApplyVaultEffect DEF Inv, ApplyVault
    <3>2. ASSUME "orphan" \notin disturbed' PROVE client'.vault[v] >= client.vault[v]
      <4>1. VaultsAt(c) /\ RecentAt(c) /\ OldVaultsAt(c)
        BY <1>1, <3>1, <3>2 DEF Inv, RecentVaults, RecentParts, OldVaults
      <4>2. pc[c] = "fetch"
        BY <1>1, <3>1, <4>1, WaitsForVault DEF VaultsAt, Inv
      <4>3. reply[c][v] >= since /\ client.vault[v] <= since
        BY <3>1, <4>1, <4>2, RequestFacts, MarkerFacts DEF RecentAt, OldVaultsAt
      <4>. QED
        BY <2>1, <3>1, <4>3
    <3>. QED
      BY <2>1, <3>1, <3>2
  <2>5. ASSUME NEW c \in Calls, ApplyPoolState(c) PROVE Forward
    <3>1. AwaitsAt(c) /\ RecentAt(c) /\ AloneAt(c) /\ pc[c] = "fetch"
      BY <2>3, <2>5 DEF ApplyPoolState
    <3>2. /\ reply[c]["pool"] \in Moments /\ reply[c]["supply"] \in Moments
          /\ client'.pool = reply[c]["pool"] /\ client'.supply = reply[c]["supply"]
          /\ client'.vault = client.vault /\ client'.currentTime = client.currentTime
          /\ client'.depegAccounts = client.depegAccounts
      BY <1>1, <2>5, ApplyPoolStateEffect DEF Inv
    <3>3. /\ reply[c]["pool"] >= since /\ reply[c]["supply"] >= since
          /\ client.pool <= since /\ client.supply <= since
      BY <3>1, <3>2, RequestFacts DEF RecentAt, AloneAt
    <3>. QED
      BY <2>1, <3>2, <3>3
  <2>6. ASSUME NEW c \in Calls, ApplyAccounts(c) PROVE Forward
    <3>1. AwaitsAt(c) /\ RecentAt(c) /\ AloneAt(c) /\ pc[c] = "accounts"
      BY <2>3, <2>6 DEF ApplyAccounts
    <3>2. /\ reply[c]["accounts"] \in Moments /\ client'.currentTime = reply[c]["accounts"]
          /\ client'.pool = client.pool /\ client'.supply = client.supply
          /\ client'.vault = client.vault /\ client'.depegAccounts = client.depegAccounts
      BY <1>1, <2>6, ApplyAccountsEffect DEF Inv
    <3>3. reply[c]["accounts"] >= since /\ client.currentTime <= since
      BY <3>1, <3>2, RequestFacts DEF RecentAt, AloneAt
    <3>. QED
      BY <2>1, <3>2, <3>3
  <2>7. ASSUME NEW c \in Calls, ApplyDepeg(c) PROVE Forward
    <3>1. AwaitsAt(c) /\ RecentAt(c) /\ AloneAt(c) /\ pc[c] = "depeg"
      BY <2>3, <2>7 DEF ApplyDepeg
    <3>2. /\ reply[c]["depeg"] \in Moments /\ client'.depegAccounts = reply[c]["depeg"]
          /\ client'.pool = client.pool /\ client'.supply = client.supply
          /\ client'.vault = client.vault /\ client'.currentTime = client.currentTime
      BY <1>1, <2>7, ApplyDepegEffect DEF Inv
    <3>3. reply[c]["depeg"] >= since /\ client.depegAccounts <= since
      BY <3>1, <3>2, RequestFacts DEF RecentAt, AloneAt
    <3>. QED
      BY <2>1, <3>2, <3>3
  <2>8. CASE Tick \/ UpdateBaseVirtualPrice \/ GetSwapQuote
    BY <2>2, <2>8 DEF Tick, UpdateBaseVirtualPrice, GetSwapQuote
  <2>9. ASSUME NEW c \in Calls, UpdateState(c) \/ ServePool(c) PROVE Forward
    BY <2>2, <2>9 DEF UpdateState, ServePool
  <2>10. ASSUME NEW c \in Calls, NEW k \in Requests, Serve(c, k) \/ Reject(c, k) PROVE Forward
    BY <2>2, <2>10 DEF Serve, Reject
  <2>11. CASE UNCHANGED vars
    BY <2>2, <2>11 DEF vars
  <2>. QED
    BY <1>1, <2>4, <2>5, <2>6, <2>7, <2>8, <2>9, <2>10, <2>11 DEF Next, Progress
<1>2. Inv /\ [Next]_vars => [disturbed' \subseteq {"quote", "orphan"} => Forward]_vars
  BY <1>1
<1>. QED
  BY <1>2, InvAlways, PTL DEF Spec, NeverOlder
=============================================================================

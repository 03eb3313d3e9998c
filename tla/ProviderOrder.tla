--------------------------- MODULE ProviderOrder ---------------------------
(***************************************************************************)
(* pkg/cache/provider_cache.go, the provider handlers of internal/admin    *)
(* and ResolveProviderForCategory: the order in which the providers of a   *)
(* category are used is a list in Redis that admins rewrite, with DEL and  *)
(* RPUSH, and that the server reads into memory every five minutes.        *)
(*                                                                         *)
(* A category is a pair <<group, name>>.  A command that Redis refuses is  *)
(* counted, for a bound.                                                   *)
(***************************************************************************)
EXTENDS Naturals, Sequences, SequencesExt, Filters

CONSTANTS Categories,      \* those the model looks at
          Orders,          \* the orders admins send
          OrderAdmins,
          MaxOrders,       \* bound on what admins ask
          MaxOrderRefusals

Content == {"spotify", "tiktok", "instagram", "twitter", "threads"}
Convert == {"audio", "document", "image", "fonts"}

validProviderKeys == ({"content"} \X Content) \cup ({"convert"} \X Convert)

validProviderNames == {"downr", "vidown", "cloudconvert", "convertio"}

ASSUME OrderAssumption ==
  /\ Categories \subseteq validProviderKeys
  /\ Orders \subseteq Seq(validProviderNames) \ {<<>>}
  /\ {MaxOrders, MaxOrderRefusals} \subseteq Nat

VARIABLES
  lists,        \* lists[c]: the list under ListKey(c); an absent key is <<>>
  orderCache,   \* providerCache.data, an absent entry is <<>>
  loading,      \* the refresh: the categories still to read, and newData
  orderAdmin,   \* orderAdmin[a]: where the request of admin a is
  orderRefusals, ordersSent   \* counters for the bounds

orderVars == <<lists, orderCache, loading, orderAdmin, orderRefusals, ordersSent>>

NoLists == [c \in Categories |-> <<>>]
NoLoad == [todo |-> {}, data |-> NoLists, on |-> FALSE]
NoOrder == [at |-> "idle"]

\* InitProviderCache loads before the server listens: nothing is set yet.
OrderInit ==
  /\ lists = NoLists /\ orderCache = NoLists /\ loading = NoLoad
  /\ orderAdmin = [a \in OrderAdmins |-> NoOrder]
  /\ orderRefusals = 0 /\ ordersSent = 0

OrderRefused == orderRefusals < MaxOrderRefusals /\ orderRefusals' = orderRefusals + 1
OrderObeyed == UNCHANGED orderRefusals

----------------------------------------------------------------------------
(* The providers a service is built with, and those it uses. *)

\* buildContentProviders and the two of Setup.
Providers(c) ==
  IF c[1] = "convert" THEN <<"cloudconvert", "convertio">>
  ELSE IF c[2] = "spotify" THEN <<"downr">> ELSE <<"downr", "vidown">>

\* A slip: the order's names are not looked up among the service's.
Unchecked(c) == orderCache[c]

\* What the order names and the service has.
Named(c) == Kept(orderCache[c], ToSet(Providers(c)))

\* A slip: what the order leaves of them is all there is.
NamedOnly(c) == Named(c)

\* ResolveProviderForCategory: what the order names and the service has, and
\* if that is nothing all it has.
ResolveProviderForCategory(c) ==
  IF Named(c) = <<>> THEN Providers(c) ELSE Named(c)

----------------------------------------------------------------------------
(* The refresh. *)

StartLoad ==
  /\ ~ loading.on /\ loading' = [todo |-> Categories, data |-> NoLists, on |-> TRUE]
  /\ UNCHANGED <<lists, orderCache, orderAdmin, orderRefusals, ordersSent>>

\* LRANGE of one key; after an error the entry stays away.
LoadOrder(c) ==
  /\ c \in loading.todo
  /\ \/ loading' = [loading EXCEPT !.todo = @ \ {c}, !.data[c] = lists[c]] /\ OrderObeyed
     \/ loading' = [loading EXCEPT !.todo = @ \ {c}] /\ OrderRefused
  /\ UNCHANGED <<lists, orderCache, orderAdmin, ordersSent>>

\* A slip: what was not read is kept.
Merged(data) == [c \in Categories |-> IF data[c] = <<>> THEN orderCache[c] ELSE data[c]]

\* The new data takes the place of the old.
Replaced(data) == data

SwapOrders ==
  /\ loading.on /\ loading.todo = {}
  /\ orderCache' = Replaced(loading.data) /\ loading' = NoLoad
  /\ UNCHANGED <<lists, orderAdmin, orderRefusals, ordersSent>>

----------------------------------------------------------------------------
(* The admin's requests. *)

OrderIs(a, to) == orderAdmin' = [orderAdmin EXCEPT ![a] = to]

Sends(a) ==
  /\ orderAdmin[a].at \notin {"del", "push"}
  /\ ordersSent < MaxOrders /\ ordersSent' = ordersSent + 1
  /\ UNCHANGED <<lists, orderCache, loading, orderRefusals>>

UpdateProviderOrder(a, c, order) ==
  Sends(a) /\ OrderIs(a, [at |-> "del", category |-> c, order |-> order, reset |-> FALSE])

ListKey(c) == <<c[1], "provider", c[2]>>

\* The default orders, under the names the admin's handler gives them.
defaultProviders ==
  [k \in validProviderKeys |-> IF k[1] = "convert" THEN <<"cloudconvert", "convertio">>
                               ELSE IF k[2] = "spotify" THEN <<"downr">>
                               ELSE <<"downr", "vidown">>]

\* The default is looked up under the list's key in Redis.
ResetProviderOrder(a, c) ==
  /\ Sends(a)
  /\ OrderIs(a, IF ListKey(c) \in DOMAIN defaultProviders
                THEN [at |-> "del", category |-> c, reset |-> TRUE,
                      order |-> defaultProviders[ListKey(c)]]
                ELSE [at |-> "refused"])

\* DEL; its error ends an update, and is ignored by a reset.
DeleteOrder(a) ==
  LET v == orderAdmin[a] IN
  /\ v.at = "del"
  /\ \/ /\ lists' = [lists EXCEPT ![v.category] = <<>>]
        /\ OrderIs(a, [v EXCEPT !.at = "push"]) /\ OrderObeyed
     \/ /\ OrderIs(a, [v EXCEPT !.at = IF v.reset THEN "push" ELSE "failed"])
        /\ UNCHANGED lists /\ OrderRefused
  /\ UNCHANGED <<orderCache, loading, ordersSent>>

\* RPUSH appends to whatever the list holds by now.
PushOrder(a) ==
  LET v == orderAdmin[a] IN
  /\ v.at = "push"
  /\ \/ /\ lists' = [lists EXCEPT ![v.category] = @ \o v.order]
        /\ OrderIs(a, [at |-> "done", category |-> v.category, order |-> v.order])
        /\ OrderObeyed
     \/ /\ OrderIs(a, [at |-> IF v.reset THEN "done" ELSE "failed"])
        /\ UNCHANGED lists /\ OrderRefused
  /\ UNCHANGED <<orderCache, loading, ordersSent>>

----------------------------------------------------------------------------
OrderRefresh == StartLoad \/ SwapOrders \/ \E c \in Categories : LoadOrder(c)

OrderRequest(a) == DeleteOrder(a) \/ PushOrder(a)

OrderNext ==
  \/ OrderRefresh
  \/ \E a \in OrderAdmins :
       \/ OrderRequest(a)
       \/ \E c \in Categories : ResetProviderOrder(a, c)
                             \/ \E o \in Orders : UpdateProviderOrder(a, c, o)

\* The ticker fires for ever, and no call of Redis takes for ever.
OrderFair ==
  /\ WF_orderVars(OrderRefresh)
  /\ \A a \in OrderAdmins : WF_orderVars(OrderRequest(a))

OrderSpec == OrderInit /\ [][OrderNext]_orderVars /\ OrderFair

----------------------------------------------------------------------------
\* The lists hold known names; a refresh reads for all categories.
OrderTypeOK ==
  /\ lists \in [Categories -> Seq(validProviderNames)]
  /\ orderCache \in [Categories -> Seq(validProviderNames)]
  /\ loading.todo \subseteq Categories /\ loading.data \in [Categories -> Seq(validProviderNames)]

\* Whatever admins do, a category is served by providers of its own, and by
\* at least one (ResolveProviderForCategory): the admin's check lets a
\* content category be given to a converter.
AlwaysAProvider ==
  \A c \in Categories :
     LET ordered == ResolveProviderForCategory(c) IN
     ordered # <<>> /\ ToSet(ordered) \subseteq ToSet(Providers(c))

\* Once admins leave a list alone the server uses it, also when it was only
\* deleted and never pushed (load).
ListsAreFollowed == \A c \in Categories : []<>(orderCache[c] = lists[c])

\* ResolveProviderForCategory serves every category with known providers of
\* its own, whatever becomes of the lists in Redis and in memory.
OrdersAreUsable == OrderTypeOK /\ AlwaysAProvider
=============================================================================

------------------------------ MODULE EcsStore ------------------------------
(***************************************************************************)
(* What the ECS world of gummy_ecs promises its callers, with no storage   *)
(* layout in it: a store maps each live handle to the values of its        *)
(* components and to its tags.  A handle is issued at most once; after its *)
(* entity is despawned no operation ever finds an entity through it again. *)
(***************************************************************************)
CONSTANTS
  Handle,      \* every handle an allocator may issue
  Components,  \* registered component schemas
  Tags,        \* tag names
  Values,      \* values a component's field may hold
  Default      \* the schema's default value

VARIABLES
  store,       \* [live handles -> [comps : [SUBSET Components -> Values], tags]]
  issued       \* handles issued so far, live or stale

storeVars == <<store, issued>>

Live == DOMAIN store

Row == [comps : UNION {[K -> Values] : K \in SUBSET Components},
        tags  : SUBSET Tags]

StoreInit ==
  /\ store = [h \in {} |-> {}]
  /\ issued = {}

-----------------------------------------------------------------------------
(* Operations.  Each changes at most one entity.                           *)

Put(h, row) ==
  store' = [x \in Live \union {h} |-> IF x = h THEN row ELSE store[x]]

Create(h, row) ==
  /\ h \in Handle \ issued
  /\ issued' = issued \union {h}
  /\ Put(h, row)

Destroy(h) ==
  /\ h \in Live
  /\ store' = [x \in Live \ {h} |-> store[x]]
  /\ UNCHANGED issued

AttachDefault(h, c) ==
  /\ h \in Live
  /\ c \notin DOMAIN store[h].comps
  /\ Put(h, [store[h] EXCEPT
               !.comps = [k \in DOMAIN @ \union {c} |->
                            IF k = c THEN Default ELSE @[k]]])
  /\ UNCHANGED issued

Detach(h, c) ==
  /\ h \in Live
  /\ c \in DOMAIN store[h].comps
  /\ Put(h, [store[h] EXCEPT !.comps = [k \in DOMAIN @ \ {c} |-> @[k]]])
  /\ UNCHANGED issued

Write(h, c, v) ==
  /\ h \in Live
  /\ c \in DOMAIN store[h].comps
  /\ Put(h, [store[h] EXCEPT !.comps[c] = v])
  /\ UNCHANGED issued

Retag(h, ts) ==
  /\ h \in Live
  /\ Put(h, [store[h] EXCEPT !.tags = ts])
  /\ UNCHANGED issued

StoreNext ==
  \E h \in Handle :
    \/ \E row \in Row : Create(h, row)
    \/ Destroy(h)
    \/ \E c \in Components :
         \/ AttachDefault(h, c)
         \/ Detach(h, c)
         \/ \E v \in Values : Write(h, c, v)
    \/ \E ts \in SUBSET Tags : Retag(h, ts)

StoreSpec == StoreInit /\ [][StoreNext]_storeVars
=============================================================================

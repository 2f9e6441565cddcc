------------------------------- MODULE AccessRights -------------------------------
(* What one account may do, in auth-service: its role (handler/admin_users.go), *)
(* its binding to a shop (handler/store.go), the access tokens issued from both *)
(* (auth/jwt.go) and the deny-list of logout (handler/denylist.go). The two     *)
(* screens that change the binding lock users and store_operators in opposite   *)
(* orders; a token is good until its expiry whatever changes meanwhile.         *)
EXTENDS Integers, FiniteSets

CONSTANTS Shops, NoShop,
          OpenShops, \* stores.active: no handler changes it
          Clerks,    \* administrators at work
          AccessTTL, \* seconds an access token, and an entry of the deny-list, live
          LastSecond,\* the clock stops there
          MaxCards   \* access tokens in circulation at a time

ASSUME RightsAssumption == 
    /\ NoShop \notin Shops /\ OpenShops \subseteq Shops
    /\ AccessTTL \in Nat \ {0} /\ {LastSecond, MaxCards} \subseteq Nat

VARIABLES second,  \* the clock: tokens and deny-list count in whole seconds
          role,    \* users.role
          binding, \* the row of store_operators
          clerk,   \* the transaction of each administrator
          cards,   \* access tokens in circulation
          denied,  \* the entry of the deny-list in Redis: its instant, or -1
          redisUp,
          granted  \* history: the role was given by hand, not by a binding

rightsVars == <<second, role, binding, clerk, cards, denied, redisUp, granted>>

Roles == {"customer", "store_operator", "admin"}
Unlinked == [shop |-> NoShop, active |-> FALSE]
IdleClerk == [step |-> "idle"]

RightsInit ==
    /\ second = 0 /\ role = "customer" /\ binding = Unlinked
    /\ clerk = [c \in Clerks |-> IdleClerk]
    /\ cards = {} /\ denied = -1 /\ redisUp = TRUE /\ granted = FALSE

(* Rows locked by a transaction until it ends. *)
UserLocked == \E c \in Clerks : clerk[c].step \in {"bind", "close"}
BindingLocked == \E c \in Clerks : clerk[c].step \in {"update", "close"}

(* CreateOperator: the role and the shop are read without a lock; then users is *)
(* written, then store_operators, in one transaction.                           *)
BeginCreateOperator(c, shop) ==
    /\ clerk[c] = IdleClerk
    /\ role # "admin" /\ shop \in OpenShops
    /\ clerk' = [clerk EXCEPT ![c] = [step |-> "create", shop |-> shop]]
    /\ UNCHANGED <<second, role, binding, cards, denied, redisUp, granted>>
LockUserForOperator(c) ==
    /\ clerk[c].step = "create" /\ ~UserLocked
    /\ clerk' = [clerk EXCEPT ![c].step = "bind"]
    /\ UNCHANGED <<second, role, binding, cards, denied, redisUp, granted>>
CreateOperator(c) ==
    /\ clerk[c].step = "bind" /\ ~BindingLocked
    /\ role' = "store_operator" /\ granted' = FALSE
    /\ binding' = [shop |-> clerk[c].shop, active |-> TRUE]
    /\ clerk' = [clerk EXCEPT ![c] = IdleClerk]
    /\ UNCHANGED <<second, cards, denied, redisUp>>

(* UpdateOperator: store_operators is locked first, users only when the binding *)
(* is switched off or on, and the role follows the switch.                      *)
BeginUpdateOperator(c) ==
    /\ clerk[c] = IdleClerk /\ binding # Unlinked /\ ~BindingLocked
    /\ \E shop \in Shops, active \in BOOLEAN :
         clerk' = [clerk EXCEPT ![c] = [step |-> "update", shop |-> shop, active |-> active]]
    /\ UNCHANGED <<second, role, binding, cards, denied, redisUp, granted>>
Switched(c) == clerk[c].active # binding.active
\* Mutant: switching a binding off leaves the role.
UpdateOperatorOnly(c) ==
    /\ clerk[c].step = "update"
    /\ Switched(c) => ~UserLocked
    /\ binding' = [shop |-> clerk[c].shop, active |-> clerk[c].active]
    /\ IF Switched(c) /\ clerk[c].active
       THEN role' = "store_operator" /\ granted' = FALSE
       ELSE UNCHANGED <<role, granted>>
    /\ clerk' = [clerk EXCEPT ![c] = IdleClerk]
    /\ UNCHANGED <<second, cards, denied, redisUp>>
UpdateOperator(c) ==
    /\ clerk[c].step = "update"
    /\ Switched(c) => ~UserLocked
    /\ binding' = [shop |-> clerk[c].shop, active |-> clerk[c].active]
    /\ IF Switched(c)
       THEN /\ role' = IF clerk[c].active THEN "store_operator" ELSE "customer"
            /\ granted' = FALSE
       ELSE UNCHANGED <<role, granted>>
    /\ clerk' = [clerk EXCEPT ![c] = IdleClerk]
    /\ UNCHANGED <<second, cards, denied, redisUp>>

(* A failure, or Postgres breaking a deadlock of the two.                       *)
RollbackClerk(c) ==
    /\ clerk[c] # IdleClerk
    /\ clerk' = [clerk EXCEPT ![c] = IdleClerk]
    /\ UNCHANGED <<second, role, binding, cards, denied, redisUp, granted>>

(* PATCH role, under the lock of the row; the binding is left alone.            *)
UpdateUserRole(r) ==
    /\ ~UserLocked /\ r # role
    /\ role' = r /\ granted' = (r = "store_operator")
    /\ UNCHANGED <<second, binding, clerk, cards, denied, redisUp>>

(* A token says the role, and for an operator the shop, of its issue.           *)
StoreContext == IF role = "store_operator" /\ binding.active THEN binding.shop ELSE NoShop
IssueCard ==
    /\ Cardinality(cards) < MaxCards
    /\ cards' = cards \union {[role |-> role, shop |-> StoreContext, iat |-> second]}
    /\ UNCHANGED <<second, role, binding, clerk, denied, redisUp, granted>>

(* JWTAuth: the signature, the expiry, and the deny-list, which is trusted only *)
(* while Redis answers and forgets an entry after its own TTL.                  *)
Remembered == denied >= 0 /\ second < denied + AccessTTL
IsRevoked(card) == redisUp /\ Remembered /\ card.iat <= denied
Accepted(card) == second < card.iat + AccessTTL /\ ~IsRevoked(card)

(* Logout needs an accepted token; an error of Redis is ignored.                *)
SignOut ==
    /\ \E card \in cards : Accepted(card)
    /\ denied' = IF redisUp THEN second ELSE denied
    /\ UNCHANGED <<second, role, binding, clerk, cards, redisUp, granted>>

Tick == /\ second < LastSecond /\ second' = second + 1
        /\ cards' = {card \in cards : second + 1 < card.iat + AccessTTL}
        /\ UNCHANGED <<role, binding, clerk, denied, redisUp, granted>>
RedisFlips == redisUp' = ~redisUp
              /\ UNCHANGED <<second, role, binding, clerk, cards, denied, granted>>

RightsNext ==
    \/ \E c \in Clerks : \/ \E shop \in Shops : BeginCreateOperator(c, shop)
                         \/ LockUserForOperator(c) \/ CreateOperator(c)
                         \/ BeginUpdateOperator(c) \/ UpdateOperator(c) \/ RollbackClerk(c)
    \/ \E r \in Roles : UpdateUserRole(r)
    \/ IssueCard \/ SignOut \/ Tick \/ RedisFlips

RightsSpec == RightsInit /\ [][RightsNext]_rightsVars
-----------------------------------------------------------------------------
(* Every variable holds a value of its kind. *)
RightsTypeOK ==
    /\ second \in 0..LastSecond /\ role \in Roles /\ denied \in -1..LastSecond
    /\ binding.shop \in Shops \union {NoShop} /\ binding.active \in BOOLEAN
    /\ \A card \in cards : card.role \in Roles /\ card.iat \in 0..second

(* However the screens of two administrators interleave, nobody keeps the role  *)
(* that opens the till after the binding is gone, unless somebody gave that     *)
(* role by hand.                                                                *)
OperatorRoleHasAReason == role = "store_operator" => binding.active \/ granted

(* No token of the time before a recorded logout is accepted, to the second,    *)
(* for as long as it could have lived, whenever Redis answers.                  *)
LogoutIsFinal == redisUp => \A card \in cards : card.iat <= denied => ~Accepted(card)

(* A right that was taken away is gone: the role of the till with the binding,  *)
(* the token with its session.                                                  *)
RightsTakenAreGone == OperatorRoleHasAReason /\ LogoutIsFinal
=============================================================================

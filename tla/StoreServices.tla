------------------------------ MODULE StoreServices ------------------------------
(* The components of the store that share no state with one another, side by   *)
(* side: a behaviour is a behaviour of one of them, the one in focus, while    *)
(* the others stay as they began. (Their product would have the same reachable *)
(* states of each component, many times over.)                                 *)
EXTENDS AfterSales, Promotions, Ledger, CounterSale, OrderTransactions,
        LoginLockout, AuthSessions,
        AccessRights, Resilience, RequestGuards, CatalogWrites, Gateways,
        Storefront, Copurchase, Reviews, Gallery, AuditTrail, ServiceIdentity,
        Alice, CuratedLibrary

VARIABLE focus

\* Two of the modules are in focus a half at a time: the guards of a request, and the
\* ledger, whose closing of days and reconciliation run on the same book.
Components == {"returns", "promotions", "ledger", "reconciliation", "counter", "orders",
               "lockout", "sessions", "rights", "resilience", "idempotency", "limiter", "catalog",
               "gateways", "audit", "identity", "storefront", "copurchase", "reviews",
               "gallery", "assistant", "library"}
-----------------------------------------------------------------------------
(* What a component out of focus begins with, where it has a choice. *)
Settled == /\ focus = "returns" \/ <<order, today>> = CHOOSE od \in Orders \X Days : TRUE
           /\ focus = "promotions" \/ (programme = CHOOSE p \in Programmes : TRUE)
           /\ focus = "gateways" \/ (provider = CHOOSE p \in Providers : TRUE)
           /\ focus = "storefront" \/ (shelf = CHOOSE s \in Shelves : TRUE)
           /\ focus = "catalog" \/ \A s \in Skus : product[s] = Absent

Init == /\ focus \in Components
        /\ AfterInit /\ PromoInit /\ LedgerInit /\ CounterInit /\ OrderTxInit
        /\ LockoutInit /\ AuthInit
        /\ RightsInit /\ ResilienceInit /\ GuardInit /\ CatalogInit
        /\ GatewayInit /\ TrailInit /\ IdentityInit /\ ShopInit /\ CopurchaseInit
        /\ ReviewInit /\ GalleryInit /\ AliceInit /\ LibraryInit
        /\ Settled

SalesVars == <<afterVars, promoVars, ledgerVars, counterVars, orderTxVars>>
AccessVars == <<lockoutVars, authVars, rightsVars>>
GuardedVars == <<resilienceVars, guardVars, catalogVars>>
TrustVars == <<gatewayVars, trailVars, identityVars>>
ShopfrontVars == <<shopVars, copurchaseVars, reviewVars, galleryVars>>
AdviceVars == <<aliceVars, libraryVars>>

SalesNext ==
    \/ /\ focus = "returns" /\ AfterNext
       /\ UNCHANGED <<promoVars, ledgerVars, counterVars, orderTxVars>>
    \/ /\ focus = "promotions" /\ PromoNext
       /\ UNCHANGED <<afterVars, ledgerVars, counterVars, orderTxVars>>
    \/ /\ focus = "ledger" /\ (BookNext \/ ClosingNext)
       /\ UNCHANGED <<afterVars, promoVars, counterVars, orderTxVars>>
    \/ /\ focus = "reconciliation" /\ (BookNext \/ ReconNext)
       /\ UNCHANGED <<afterVars, promoVars, counterVars, orderTxVars>>
    \/ /\ focus = "counter" /\ CounterNext
       /\ UNCHANGED <<afterVars, promoVars, ledgerVars, orderTxVars>>
    \/ /\ focus = "orders" /\ OrderTxNext
       /\ UNCHANGED <<afterVars, promoVars, ledgerVars, counterVars>>
AccessNext ==
    \/ focus = "lockout" /\ LockoutNext /\ UNCHANGED <<authVars, rightsVars>>
    \/ focus = "sessions" /\ AuthNext /\ UNCHANGED <<lockoutVars, rightsVars>>
    \/ focus = "rights" /\ RightsNext /\ UNCHANGED <<lockoutVars, authVars>>
GuardedNext ==
    \/ focus = "resilience" /\ ResilienceNext /\ UNCHANGED <<guardVars, catalogVars>>
    \/ focus = "idempotency" /\ IdemNext /\ UNCHANGED <<resilienceVars, catalogVars>>
    \/ focus = "limiter" /\ LimitNext /\ UNCHANGED <<resilienceVars, catalogVars>>
    \/ focus = "catalog" /\ CatalogNext /\ UNCHANGED <<resilienceVars, guardVars>>

TrustNext ==
    \/ focus = "gateways" /\ GatewayNext /\ UNCHANGED <<trailVars, identityVars>>
    \/ focus = "audit" /\ TrailNext /\ UNCHANGED <<gatewayVars, identityVars>>
    \/ focus = "identity" /\ IdentityNext /\ UNCHANGED <<gatewayVars, trailVars>>
ShopfrontNext ==
    \/ /\ focus = "storefront" /\ ShopNext
       /\ UNCHANGED <<copurchaseVars, reviewVars, galleryVars>>
    \/ /\ focus = "copurchase" /\ CopurchaseNext
       /\ UNCHANGED <<shopVars, reviewVars, galleryVars>>
    \/ /\ focus = "reviews" /\ ReviewNext
       /\ UNCHANGED <<shopVars, copurchaseVars, galleryVars>>
    \/ /\ focus = "gallery" /\ GalleryNext
       /\ UNCHANGED <<shopVars, copurchaseVars, reviewVars>>
AdviceNext ==
    \/ focus = "assistant" /\ AliceNext /\ UNCHANGED libraryVars
    \/ focus = "library" /\ LibraryNext /\ UNCHANGED aliceVars

Next ==
    /\ UNCHANGED focus
    /\ \/ /\ SalesNext
          /\ UNCHANGED <<AccessVars, GuardedVars, TrustVars, ShopfrontVars, AdviceVars>>
       \/ /\ AccessNext
          /\ UNCHANGED <<SalesVars, GuardedVars, TrustVars, ShopfrontVars, AdviceVars>>
       \/ /\ GuardedNext
          /\ UNCHANGED <<SalesVars, AccessVars, TrustVars, ShopfrontVars, AdviceVars>>
       \/ /\ TrustNext
          /\ UNCHANGED <<SalesVars, AccessVars, GuardedVars, ShopfrontVars, AdviceVars>>
       \/ /\ ShopfrontNext
          /\ UNCHANGED <<SalesVars, AccessVars, GuardedVars, TrustVars, AdviceVars>>
       \/ /\ AdviceNext
          /\ UNCHANGED <<SalesVars, AccessVars, GuardedVars, TrustVars, ShopfrontVars>>

StoreVars == <<focus, SalesVars, AccessVars, GuardedVars, TrustVars, ShopfrontVars, AdviceVars>>
Spec == Init /\ [][Next]_StoreVars

(* Every variable of every component holds a value of its kind. *)
ServicesTypeOK ==
    /\ focus \in Components
    /\ AfterTypeOK /\ PromoTypeOK /\ LedgerTypeOK /\ CounterTypeOK
    /\ OrderTxTypeOK
    /\ LockoutTypeOK /\ AuthTypeOK /\ RightsTypeOK
    /\ ResilienceTypeOK /\ GuardTypeOK /\ CatalogTypeOK
    /\ GatewayTypeOK /\ TrailTypeOK /\ IdentityTypeOK
    /\ ShopTypeOK /\ CopurchaseTypeOK /\ ReviewTypeOK /\ GalleryTypeOK
    /\ AliceTypeOK /\ LibraryTypeOK
=============================================================================

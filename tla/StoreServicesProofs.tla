-------------------------- MODULE StoreServicesProofs --------------------------
(***************************************************************************)
(* The services side by side.  A behaviour of the store is a behaviour of  *)
(* every one of its components: the one in focus moves, the others rest.   *)
(* So what was proved of each component alone holds of all of them         *)
(* together, their types first.                                            *)
(***************************************************************************)
EXTENDS StoreServices, PlatformProofs, SalesProofs, ShopfrontProofs

-----------------------------------------------------------------------------
(* A step of the store, for each component *)

\* A group of components moves, or rests.
LEMMA StepsOfTheGroups ==
    ASSUME [Next]_StoreVars
    PROVE  /\ UNCHANGED focus
           /\ SalesNext \/ UNCHANGED SalesVars
           /\ AccessNext \/ UNCHANGED AccessVars
           /\ GuardedNext \/ UNCHANGED GuardedVars
           /\ TrustNext \/ UNCHANGED TrustVars
           /\ ShopfrontNext \/ UNCHANGED ShopfrontVars
           /\ AdviceNext \/ UNCHANGED AdviceVars
BY DEF Next, StoreVars

\* Returns, promotions, the ledger, the counter and the orders: one of them moves, or none.
LEMMA StepsOfSales ==
    ASSUME SalesNext \/ UNCHANGED SalesVars
    PROVE  /\ [AfterNext]_afterVars /\ [PromoNext]_promoVars
           /\ [LedgerNext]_ledgerVars /\ [CounterNext]_counterVars
           /\ [OrderTxNext]_orderTxVars
BY DEF SalesNext, SalesVars, LedgerNext

\* So do the three parts of auth-service.
LEMMA StepsOfAccess ==
    ASSUME AccessNext \/ UNCHANGED AccessVars
    PROVE  [LockoutNext]_lockoutVars /\ [AuthNext]_authVars /\ [RightsNext]_rightsVars
BY DEF AccessNext, AccessVars

\* So do the breaker, the guards of a request and the writers of the catalogue.
LEMMA StepsOfGuarded ==
    ASSUME GuardedNext \/ UNCHANGED GuardedVars
    PROVE  [ResilienceNext]_resilienceVars /\ [GuardNext]_guardVars /\ [CatalogNext]_catalogVars
BY DEF GuardedNext, GuardedVars, GuardNext

\* So do the gateways, the audit trail and the tokens between services.
LEMMA StepsOfTrust ==
    ASSUME TrustNext \/ UNCHANGED TrustVars
    PROVE  [GatewayNext]_gatewayVars /\ [TrailNext]_trailVars /\ [IdentityNext]_identityVars
BY DEF TrustNext, TrustVars

\* So do the pages, the counts, the reviews and the photos of the shop.
LEMMA StepsOfShopfront ==
    ASSUME ShopfrontNext \/ UNCHANGED ShopfrontVars
    PROVE  /\ [ShopNext]_shopVars /\ [CopurchaseNext]_copurchaseVars
           /\ [ReviewNext]_reviewVars /\ [GalleryNext]_galleryVars
BY DEF ShopfrontNext, ShopfrontVars

\* So do Alice and her library.
LEMMA StepsOfAdvice ==
    ASSUME AdviceNext \/ UNCHANGED AdviceVars
    PROVE  [AliceNext]_aliceVars /\ [LibraryNext]_libraryVars
BY DEF AdviceNext, AdviceVars

-----------------------------------------------------------------------------
(* A behaviour of the store, for each component *)

\* Every behaviour of the store is one of what is sold and taken back.
LEMMA SalesBehave == Spec => AfterSpec /\ PromoSpec /\ LedgerSpec /\ CounterSpec /\ OrderTxSpec
<1>1. Init => AfterInit /\ PromoInit /\ LedgerInit /\ CounterInit /\ OrderTxInit
    BY DEF Init
<1>2. [Next]_StoreVars => /\ [AfterNext]_afterVars /\ [PromoNext]_promoVars
                          /\ [LedgerNext]_ledgerVars /\ [CounterNext]_counterVars
                          /\ [OrderTxNext]_orderTxVars
    BY StepsOfTheGroups, StepsOfSales
<1> QED
    BY <1>1, <1>2, PTL DEF Spec, AfterSpec, PromoSpec, LedgerSpec, CounterSpec, OrderTxSpec

\* Every behaviour of the store is one of who may do what.
LEMMA AccessBehaves == Spec => LockoutSpec /\ AuthSpec /\ RightsSpec
<1>1. Init => LockoutInit /\ AuthInit /\ RightsInit
    BY DEF Init
<1>2. [Next]_StoreVars => [LockoutNext]_lockoutVars /\ [AuthNext]_authVars /\ [RightsNext]_rightsVars
    BY StepsOfTheGroups, StepsOfAccess
<1> QED
    BY <1>1, <1>2, PTL DEF Spec, LockoutSpec, AuthSpec, RightsSpec

\* Every behaviour of the store is one of the calls between services and of the catalogue they guard.
LEMMA GuardedBehave == Spec => ResilienceSpec /\ GuardSpec /\ CatalogSpec
<1>1. Init => ResilienceInit /\ GuardInit /\ CatalogInit
    BY DEF Init
<1>2. [Next]_StoreVars => [ResilienceNext]_resilienceVars /\ [GuardNext]_guardVars /\ [CatalogNext]_catalogVars
    BY StepsOfTheGroups, StepsOfGuarded
<1> QED
    BY <1>1, <1>2, PTL DEF Spec, ResilienceSpec, GuardSpec, CatalogSpec

\* Every behaviour of the store is one of the gateways, the trail and the tokens.
LEMMA TrustBehaves == Spec => GatewaySpec /\ TrailSpec /\ IdentitySpec
<1>1. Init => GatewayInit /\ TrailInit /\ IdentityInit
    BY DEF Init
<1>2. [Next]_StoreVars => [GatewayNext]_gatewayVars /\ [TrailNext]_trailVars /\ [IdentityNext]_identityVars
    BY StepsOfTheGroups, StepsOfTrust
<1> QED
    BY <1>1, <1>2, PTL DEF Spec, GatewaySpec, TrailSpec, IdentitySpec

\* Every behaviour of the store is one of what a shopper sees.
LEMMA ShopfrontBehaves == Spec => ShopSpec /\ CopurchaseSpec /\ ReviewSpec /\ GallerySpec
<1>1. Init => ShopInit /\ CopurchaseInit /\ ReviewInit /\ GalleryInit
    BY DEF Init
<1>2. [Next]_StoreVars => /\ [ShopNext]_shopVars /\ [CopurchaseNext]_copurchaseVars
                          /\ [ReviewNext]_reviewVars /\ [GalleryNext]_galleryVars
    BY StepsOfTheGroups, StepsOfShopfront
<1> QED
    BY <1>1, <1>2, PTL DEF Spec, ShopSpec, CopurchaseSpec, ReviewSpec, GallerySpec

\* Every behaviour of the store is one of Alice and of her library.
LEMMA AdviceBehaves == Spec => AliceSpec /\ LibrarySpec
<1>1. Init => AliceInit /\ LibraryInit
    BY DEF Init
<1>2. [Next]_StoreVars => [AliceNext]_aliceVars /\ [LibraryNext]_libraryVars
    BY StepsOfTheGroups, StepsOfAdvice
<1> QED
    BY <1>1, <1>2, PTL DEF Spec, AliceSpec, LibrarySpec

-----------------------------------------------------------------------------
(* What the store promises *)

\* The component in focus is one of the components: a step leaves it there.
LEMMA FocusIsAComponent == Spec => [](focus \in Components)
<1>1. Init => focus \in Components
    BY DEF Init
<1>2. focus \in Components /\ [Next]_StoreVars => (focus \in Components)'
    BY StepsOfTheGroups
<1> QED
    BY <1>1, <1>2, PTL DEF Spec

\* Every variable of every component always holds a value of its kind: what the
\* columns of the tables, the enums of the code and its maps can hold, and no more.
THEOREM ServicesAreWellTyped == Spec => []ServicesTypeOK
<1>1. Spec => [](AfterTypeOK /\ PromoTypeOK /\ LedgerTypeOK /\ CounterTypeOK /\ OrderTxTypeOK)
    BY SalesBehave, AfterTypesAlways, PromoTypesAlways, LedgerTypesAlways,
       CounterTypesAlways, OrderTxTypesAlways, PTL
<1>2. Spec => [](LockoutTypeOK /\ AuthTypeOK /\ RightsTypeOK)
    BY AccessBehaves, LockoutTypesAlways, AuthTypesAlways, AccountRightsTypesAlways, PTL
<1>3. Spec => [](ResilienceTypeOK /\ GuardTypeOK /\ CatalogTypeOK)
    BY GuardedBehave, ResilienceTypesAlways, GuardTypesAlways, CatalogTypesAlways, PTL
<1>4. Spec => [](GatewayTypeOK /\ TrailTypeOK /\ IdentityTypeOK)
    BY TrustBehaves, GatewayTypesAlways, TrailTypesAlways, IdentityTypesAlways, PTL
<1>5. Spec => [](ShopTypeOK /\ CopurchaseTypeOK /\ ReviewTypeOK /\ GalleryTypeOK)
    BY ShopfrontBehaves, ShopTypesAlways, CopurchaseTypesAlways, ReviewTypesAlways,
       GalleryTypesAlways, PTL
<1>6. Spec => [](AliceTypeOK /\ LibraryTypeOK)
    BY AdviceBehaves, AliceTypesAlways, LibraryTypesAlways, PTL
<1> QED
    BY <1>1, <1>2, <1>3, <1>4, <1>5, <1>6, FocusIsAComponent, PTL DEF ServicesTypeOK

\* The safety of every service, side by side with the others: what was proved of a
\* component alone is not lost where the others run too.
THEOREM TheStoreKeepsItsPromises ==
    Spec => [](/\ NothingComesBackTwice /\ RefundsAreBookedAsDecided
               /\ StatementMatchesLots /\ NobodyIsPaidToBuy
               /\ BookCanBeHandedOver /\ CleanRunVouchesForTheBook
               /\ SettlementsAreSound
               /\ GuessingIsBounded /\ OnlyALateRequestOutlivesAReset
               /\ RightsTakenAreGone
               /\ ProbeSlotsAreHeld /\ ARetryHappensOnce /\ NoBurstOverTheLimit
               /\ QuietPapersAreExact
               /\ OneCallChargesOnce /\ NoRefusedTokenIsSentAgain
               /\ AVerificationTells /\ NoCallIsMisjudged
               /\ NothingIsShownTwice /\ EveryBasketCountsOnce
               /\ OnlyARaceMissesAReview /\ EveryPhotoCanBeDrawn
               /\ AliceKeepsHerWord /\ OnlyReadPagesAreCited)
<1>1. Spec => [](/\ NothingComesBackTwice /\ RefundsAreBookedAsDecided
                 /\ StatementMatchesLots /\ NobodyIsPaidToBuy
                 /\ BookCanBeHandedOver /\ CleanRunVouchesForTheBook
                 /\ SettlementsAreSound)
    BY SalesBehave, NoUnitComesBackTwice, RefundsStayInTheBook, StatementsMatchTheLots,
       OrdersCoverTheirDelivery, TheBookIsHandedOver, ACleanRunVouches, SettlementsStaySound, PTL
<1>2. Spec => [](/\ GuessingIsBounded /\ OnlyALateRequestOutlivesAReset
                 /\ RightsTakenAreGone)
    BY AccessBehaves, GuessesStopAtTheLock, AResetRevokesTheRest, TakenRightsStayTaken,
       PTL
<1>3. Spec => [](/\ ProbeSlotsAreHeld /\ ARetryHappensOnce /\ NoBurstOverTheLimit
                 /\ QuietPapersAreExact)
    BY GuardedBehave, SlotsAreAlwaysHeld, RetriesHappenOnce, TheLimitHolds,
       QuietPapersStayExact, PTL
<1>4. Spec => [](/\ OneCallChargesOnce /\ NoRefusedTokenIsSentAgain
                 /\ AVerificationTells /\ NoCallIsMisjudged)
    BY TrustBehaves, OneCallOneCharge, RefusedTokensStayAway, VerificationsTell,
       NobodyIsMisjudged, PTL
<1>5. Spec => [](/\ NothingIsShownTwice /\ EveryBasketCountsOnce
                 /\ OnlyARaceMissesAReview /\ EveryPhotoCanBeDrawn)
    BY ShopfrontBehaves, NothingComesUpTwice, BasketsCountOnce, TheScoreTellsTheReviews,
       PhotosStayWhole, PTL
<1>6. Spec => [](AliceKeepsHerWord /\ OnlyReadPagesAreCited)
    BY AdviceBehaves, AliceAlwaysKeepsHerWord, StagingNeverReachesAlice, PTL
<1> QED
    BY <1>1, <1>2, <1>3, <1>4, <1>5, <1>6, PTL

\* What a step of the services may never do: an order, and a return, goes only along its
\* journey, a return is paid for only after its goods; a coupon's last use goes to one cart; what was imported as
\* its sheet says has nothing left to change.
THEOREM TheStoreStepsAsPromised ==
    Spec => /\ ImplementsOrderJourney
            /\ ImplementsReturnJourney /\ MoneyLeavesAfterTheGoods
            /\ LastUseTakenOnce /\ ReimportChangesNothing
<1>1. Spec => /\ ImplementsOrderJourney /\ ImplementsReturnJourney
              /\ MoneyLeavesAfterTheGoods /\ LastUseTakenOnce
    BY SalesBehave, OrderTransactionsKeepTheJourney, ServicesKeepTheJourney, MoneyWaitsForTheGoods, LastUsesAreTakenOnce, PTL
<1>2. Spec => ReimportChangesNothing
    BY GuardedBehave, ReimportsChangeNothing, PTL
<1> QED
    BY <1>1, <1>2
=============================================================================

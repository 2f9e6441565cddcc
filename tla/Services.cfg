SPECIFICATION Spec
CONSTANTS
 drill = drill
 tools = tools
 paint = paint
 p1 = p1
 p2 = p2
 bia = bia
 chefe = chefe
 north = north
 c1 = c1
 c2 = c2
 c3 = c3
 sand = sand
 lime = lime
 Nobody = Nobody
 NoShop = NoShop
 Items = {drill}
 Bought <- MCBought
 Shipping = 1
 Returns = {x1, x2}
 Desks = {w1, w2}
 Orders <- MCOrders
 Days = {7, 91}
 MaxSlips = 1
 Carts = {x1, x2, c1}
 Categories = {tools, paint}
 Line <- MCLine
 Ship <- MCShip
 Programmes <- MCProgrammes
 CategoryRates <- MCRates
 CouponInputs <- MCCoupons
 MaxEdits = 1
 Payments = {p1}
 Sales = {s1}
 Refunds = {r1}
 Writers = {w1, w2}
 Closers = {a1}
 LastMonth = 2
 MaxDocs = 2
 MaxCheck = 2
 Checkable <- MCCheckable
 People = {bia, chefe}
 Stores = {north}
 CounterSales = {x1, x2}
 Receipts = {n1}
 Tills = {w1, w2}
 RoleOf <- MCRoleOf
 Bonds <- MCBonds
 FirstBonds <- MCFirstBonds
 Discounts = {0, 10}
 MaxRebinds = 1
 Logins = {x1, x2, c1}
 MaxFailedLogins = 2
 MaxMishaps = 1
 MaxGuesses = 7
 Requests = {w1, w2}
 MaxSessions = 3
 MaxResets = 1
 MaxSecrets = 1
 MaxAuthCrashes = 1
 Shops = {north}
 OpenShops = {north}
 Clerks = {w1, w2}
 AccessTTL = 2
 LastSecond = 3
 MaxCards = 1
 Calls = {c1, c2, c3}
 FailureThreshold = 2
 HalfOpenMaxCalls = 1
 SuccessesToClose = 2
 MaxAttempts = 2
 MaxPeriods = 2
 SafetyOf <- MCSafety
 Retries = {x1, x2, c1}
 MaxSlipUps = 1
 LimitMax = 2
 LimitWindow = 2
 LastTick = 4
 Skus = {sand}
 Hands = {w1, w2}
 Batches = {c1}
 Sheets <- MCSheets
 Patches <- MCPatches
 NewProducts <- MCNewProducts
 CsvRows <- MCCsvRows
 MaxWrites = 2
 Wires = {w1, w2}
 PspAsks <- MCPspAsks
 MaxRetriesV1 = 1
 MaxRevocations = 1
 MaxMoney = 100
 MaxWithdraw = 50
 Goods = {1, 2, 3}
 Shelves <- MCShelves
 ShopAsks <- MCShopAsks
 PairCount <- MCPairCount
 Rules <- MCRules
 MinPair = 2
 MaxShelfChanges = 2
 Baskets <- MCBaskets
 Refreshers = {w1, w2}
 LagWindow = 2
 CommitDelay = 1
 MaxBasketSize = 2
 BatchOrders = 1
 LastMinute = 3
 Authors = {x1, x2, c1}
 ReviewHands = {w1, w2}
 ReviewedProduct = sand
 Grants <- MCGrants
 CommittedRows <- MCCommittedRows
 Ratings = {1, 5}
 MaxReviewWrites = 3
 Photos = {x1, x2}
 PhotoHands = {w1, w2}
 FileOf <- MCFileOf
 MaxImages = 2
 MaxGalleryAsks = 4
 Scribes = {w1, w2}
 Payloads <- MCPayloads
 VerifyPage = 2
 MaxTrail = 3
 Jobs <- MCJobs
 Aliases <- MCAliases
 Terms = {"wall", "high", "cpf"}
 Personal = {"cpf"}
 Package <- MCPackage
 Catalogue <- MCCatalogue
 Measures <- MCMeasures
 Lists <- MCLists
 Bearers <- MCBearers
 MessageRisks <- MCMessageRisks
 MaxCatalogCalls = 4
 MaxCostLookups = 2
 MaxMapped = 1
 MaxComplements = 2
 MaxAlternatives = 1
 MaxListed = 2
 MaxTurns = 2
 MaxToolUses = 2
 MaxThemes = 1
 Geometry <- MCGeometry
 Limits <- MCLimits
 Texts = {"sheet", "order", "hidden"}
 Purchases = {c1}
 OrderHands = {w1, w2}
 Notices <- MCNotices
 MaxVersions = 2
SYMMETRY Sym
INVARIANTS ServicesTypeOK NothingComesBackTwice StatementMatchesLots BookCanBeHandedOver
 CleanRunVouchesForTheBook SettlementsAreSound GuessingIsBounded
 OnlyALateRequestOutlivesAReset RightsTakenAreGone ProbeSlotsAreHeld ARetryHappensOnce
 QuietPapersAreExact 
 OneCallChargesOnce NoRefusedTokenIsSentAgain AVerificationTells NoCallIsMisjudged
 NothingIsShownTwice EveryBasketCountsOnce OnlyARaceMissesAReview EveryPhotoCanBeDrawn
 AliceKeepsHerWord OnlyReadPagesAreCited
PROPERTIES ImplementsOrderJourney ImplementsReturnJourney LastUseTakenOnce
 MoneyLeavesAfterTheGoods
CHECK_DEADLOCK FALSE

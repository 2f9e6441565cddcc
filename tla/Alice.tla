------------------------------- MODULE Alice -------------------------------
(***************************************************************************)
(* A conversation with Alice, the assistant (services/assistant-service):  *)
(* who is asking decides whether costs are shown, the model is asked for   *)
(* an answer at most MaxTurns times, and each tool it calls may search the *)
(* catalogue, within one budget of calls per request.  The model is        *)
(* external: it may call any tool with any argument, in any order.  What   *)
(* it cannot do is what the properties are about.                          *)
(*                                                                         *)
(* Left out: every text but the names the model uses, the history, the     *)
(* conversions of units and the list of jobs (they read constant data),    *)
(* and where a document comes from.  Quantities are whole numbers of       *)
(* ten-thousandths of a material's unit; a coefficient here includes its   *)
(* loss.  The area of a roof is given along its slope, and the checks of   *)
(* slopes, tiles, joints and studs, which only shape such numbers, are     *)
(* left out.  The base of knowledge is a constant: LoadFS refuses to start *)
(* on one that breaks KnowledgeAssumption.                                 *)
(***************************************************************************)
EXTENDS Integers, Sequences, FiniteSets, SequencesExt, Sums

CONSTANTS
    Jobs,          \* job -> its risks, base, thickness, variants and uses
    Aliases,       \* [job, length, exact, near]: a name, the words it matches
    Terms,         \* what the model may call a job or a product
    Personal,      \* the words that hold personal data
    Package,       \* material -> what one package of it holds
    Geometry,      \* <<shape, dims>> -> the quantity it takes, if they tell it
    Limits,        \* measure -> the most of it that is believed
    Catalogue,     \* product -> its price and stock
    Measures,      \* the dimensions the model may send
    Lists,         \* the lists of works it may send: sequences of [word, dims]
    Bearers,       \* [signed, role]: the tokens a request may carry
    MessageRisks,  \* the sets of risks a message may name
    MaxCatalogCalls, MaxCostLookups, MaxMapped, MaxComplements, MaxAlternatives,
    MaxListed, MaxTurns, MaxToolUses, MaxThemes

Risks == {"gas", "structural", "demolition", "electric", "height"}

\* LoadFS and validateServico: what the process checks before it starts.
KnowledgeAssumption ==
    \A j \in DOMAIN Jobs :
        /\ IsFiniteSet(DOMAIN Jobs[j].uses) /\ DOMAIN Jobs[j].uses # {}
        /\ \A i \in DOMAIN Jobs[j].uses :
              /\ Jobs[j].uses[i].material \in DOMAIN Package /\ Jobs[j].uses[i].per \in Nat
              /\ Jobs[j].uses[i].variant \in {""} \union Range(Jobs[j].variants)
        /\ \A v \in Range(Jobs[j].variants) :
              \E i \in DOMAIN Jobs[j].uses : Jobs[j].uses[i].variant = v
        /\ Jobs[j].base = "m3" => /\ Jobs[j].thickness[2] \in Nat /\ Jobs[j].thickness[3] \in Nat
                                 /\ Jobs[j].thickness[1] \in Jobs[j].thickness[2] .. Jobs[j].thickness[3]
ASSUME KnowledgeAssumption
ASSUME AliceAssumption ==
    /\ \A m \in DOMAIN Package : Package[m] \in Nat \ {0}
    /\ \A a \in Aliases : a.job \in DOMAIN Jobs
    /\ \A asks \in Lists : /\ IsFiniteSet(DOMAIN asks)
                           /\ \A i \in DOMAIN asks : asks[i].word \in Terms
    /\ \A risks \in MessageRisks : risks \subseteq Risks
    /\ IsFiniteSet(DOMAIN Catalogue)
    /\ \A x \in DOMAIN Geometry : Geometry[x] \in Nat
    /\ Limits \in [{"area", "length", "height", "perimeter", "thickness", "coats"} -> Nat]
    /\ {MaxCatalogCalls, MaxCostLookups, MaxMapped, MaxComplements, MaxListed, MaxThemes,
        MaxTurns, MaxToolUses} \subseteq Nat
    /\ MaxMapped > 0 /\ MaxComplements > 0 /\ MaxTurns > 0

VARIABLES
    talk,      \* the request being answered
    gaps       \* the themes nobody could answer: a registry in memory
aliceVars == <<talk, gaps>>

Idle == [phase |-> "idle"]

-----------------------------------------------------------------------------
(* Who is asking. *)

\* OptionalAuth: a token that is not signed, or is a service's, is nobody's.
Authenticated(b) == b.signed /\ b.role # "service"
\* ModeFromClaims: any doubt is the customer's mode.
ModeFromClaims(b) ==
    IF Authenticated(b) /\ b.role \in {"store_operator", "admin"} THEN "counter" ELSE "customer"
SeesCost(t) == t.mode = "counter"

-----------------------------------------------------------------------------
(* The calculator: dimensions to materials to packages. *)

\* ResolveServico: the exact name, else the longest that matches; of two as long,
\* whichever the map gives first.
Resolve(w) ==
    LET exact == {a \in Aliases : w \in a.exact}
        near == {a \in Aliases : w \in a.near}
        longest == {a \in near : \A b \in near : b.length <= a.length}
    IN {a.job : a \in IF exact # {} THEN exact ELSE longest}

\* grandezaBase: the length, or the area however it was given; 0 when it was not.
GrandezaBase(j, d) ==
    IF j.base = "linear" THEN IF d.length # 0 THEN d.length ELSE d.perimeter
    ELSE IF d.area > 0 THEN d.area ELSE d.length * d.height

\* Validar: nothing negative, nothing absurd (what is not a number is sent as -1).
Validar(j, d) ==
    /\ \A measure \in DOMAIN Limits : d[measure] \in 0 .. Limits[measure]
    /\ GrandezaBase(j, d) > 0

Thickness(j, d) == IF d.thickness = 0 THEN j.thickness[1] ELSE d.thickness
Coats(j, d) == IF j.paint /\ d.coats = 0 THEN 2 ELSE d.coats
Variant(j, d) == IF d.variant = "" /\ j.variants # <<>> THEN j.variants[1] ELSE d.variant

Calculates(j, d) ==
    /\ Validar(j, d)
    /\ j.variants # <<>> => Variant(j, d) \in Range(j.variants)
    /\ j.base = "m3" => Thickness(j, d) \in j.thickness[2] .. j.thickness[3]
    /\ \E i \in DOMAIN j.uses : j.uses[i].variant \in {"", Variant(j, d)}

\* sobrescreverGeometria: the grout follows the tiles, the rails and the studs of a
\* dry wall its length and height, the board of a form the perimeter.
Overridden(c, d) ==
    IF <<c.follows, d>> \in DOMAIN Geometry THEN Geometry[c.follows, d] ELSE 0

\* What a use is a multiple of: a volume is nothing where the job has no thickness.
Base(j, c, d) == IF ~c.cubic THEN GrandezaBase(j, d)
                 ELSE IF j.base = "m3" THEN GrandezaBase(j, d) * Thickness(j, d) ELSE 0
Quantity(j, c, d) ==
    LET base == Base(j, c, d)
        coats == IF c.perCoat /\ Coats(j, d) > 0 THEN Coats(j, d) ELSE 1
    IN IF Overridden(c, d) > 0 THEN Overridden(c, d) ELSE base * c.per * coats

\* Embalagens: packages to buy, always rounded up.
Embalagens(quantity, content) ==
    IF quantity <= 0 THEN 0 ELSE (quantity + content - 1) \div content

\* arred(q, 3): a quantity is kept to the nearest thousandth.
Arred(quantity) == 10 * ((quantity + 5) \div 10)

\* Calcular: one item per use the variant has.
UsesOf(j, d) == {i \in DOMAIN j.uses : j.uses[i].variant \in {"", Variant(j, d)}}
Calcular(j, d) ==
    [i \in UsesOf(j, d) |->
        LET q == Quantity(j, j.uses[i], d)  m == j.uses[i].material
        IN [material |-> m, exact |-> q, parts |-> 0, packages |-> Embalagens(q, Package[m])]]

\* Consolidar: the same material of several jobs is summed, as it was rounded, and the
\* sum then rounded to packages.
ItemsOf(results) == UNION {{<<i, k>> : k \in DOMAIN results[i]} : i \in DOMAIN results}
Consolidar(results) ==
    LET items == ItemsOf(results)
        exact == [x \in items |-> results[x[1]][x[2]].exact]
        rounded == [x \in items |-> Arred(exact[x])]
        Of(m) == {x \in items : results[x[1]][x[2]].material = m}
    IN [m \in {results[x[1]][x[2]].material : x \in items} |->
          [material |-> m, exact |-> SumOver(exact, Of(m)), parts |-> Cardinality(Of(m)),
           packages |-> Embalagens(SumOver(rounded, Of(m)), Package[m])]]

-----------------------------------------------------------------------------
(* The budget, the cards and the warnings of one request. *)

\* consumir, and the call to the catalogue it allows.
Spend(t) == [t EXCEPT !.left = @ - 1, !.calls = @ + 1]

\* addProduto: the first card of a product stays; a customer's has no cost.
AddProducts(t, ps, costs) ==
    [t EXCEPT !.cards = @ \union {[product |-> p, cost |-> p \in costs /\ SeesCost(t)] :
                                     p \in ps \ {c.product : c \in @}}]

\* AnalisarRiscos: the categories a declared risk has a warning for.
Warnings(risks) == risks \intersect {"gas", "structural", "electric", "height"}

\* addAchados, one warning per category: the visitor is told how jobs are done, or
\* what they take.
RisksOf(js) == UNION {Jobs[j].risks : j \in js}
Told(t, js) == [t EXCEPT !.warned = @ \union Warnings(RisksOf(js)), !.owed = @ \union RisksOf(js)]

Ungrounded(t, ws) == [t EXCEPT !.ungrounded = @ \union ws]

\* Mutant: the ceiling of one answer, whatever the request has left.
CostCeilingAlone(left) == MaxCostLookups
\* enriquecer's teto.
CostCeiling(left) == IF left < MaxCostLookups THEN left ELSE MaxCostLookups

\* enriquecer and Client.Enriquecer: one call per product up to the ceiling; one
\* that fails leaves its product without a cost.
Enrich(t, ps) ==
    IF ~SeesCost(t) \/ t.left = 0 THEN {[talk |-> t, costs |-> {}]}
    ELSE LET n == IF Cardinality(ps) < CostCeiling(t.left) THEN Cardinality(ps) ELSE CostCeiling(t.left)
             paid == [t EXCEPT !.calls = @ + n, !.left = IF @ < n THEN 0 ELSE @ - n]
         IN {[talk |-> paid, costs |-> got] : got \in {g \in SUBSET ps : Cardinality(g) <= n}}

-----------------------------------------------------------------------------
(* The tools (runTool): each gives the requests it may leave behind. *)

SearchProducts(t, w) ==
    IF t.left = 0 THEN {t}
    ELSE {Spend(t), Ungrounded(Spend(t), {w})}   \* it failed, it found nothing
         \union UNION {{AddProducts(e.talk, ps, e.costs) : e \in Enrich(Spend(t), ps)} :
                          ps \in SUBSET DOMAIN Catalogue \ {{}}}

GetProduct(t) ==
    IF t.left = 0 THEN {t}
    ELSE {Spend(t)} \union UNION {{AddProducts(e.talk, {p}, e.costs) : e \in Enrich(Spend(t), {p})} :
                                     p \in DOMAIN Catalogue}

ListCategories(t) == {IF t.left = 0 THEN t ELSE Spend(t)}

\* buscarProdutoReal for one material after another, while the budget lasts and until
\* as many as are wanted have a product: after n searches, which found ps between them.
\* A card of what was found has no cost, nobody asked for it.
Searched(t, n) == [t EXCEPT !.left = @ - n, !.calls = @ + n]
FindProducts(t, materials, wanted) ==
    LET all == IF t.left < materials THEN t.left ELSE materials
        Found(n) == {ps \in SUBSET DOMAIN Catalogue :
                        /\ Cardinality(ps) <= n /\ Cardinality(ps) <= wanted
                        /\ n < all => wanted <= n /\ ps # {}}
    IN UNION {{AddProducts(Searched(t, n), ps, {}) : ps \in Found(n)} : n \in 0 .. all}

\* toolExplicarServico.
ExplainJob(t, w) ==
    IF Resolve(w) = {} THEN {Ungrounded(t, {w})} ELSE {Told(t, {j}) : j \in Resolve(w)}

\* toolCalcularMaterial and formatarResultado, with prices or without.
CalculateMaterial(t, w, d, priced) ==
    IF Resolve(w) = {} THEN {Ungrounded(t, {w})}
    ELSE UNION {IF ~Calculates(Jobs[j], d) THEN {Told(t, {j})}
                ELSE LET told == [Told(t, {j}) EXCEPT !.bought = Calcular(Jobs[j], d)]
                     IN IF priced THEN FindProducts(told, Cardinality(UsesOf(Jobs[j], d)), MaxMapped)
                        ELSE {told} :
                   j \in Resolve(w)}

\* toolMontarListaDeObra: the first MaxListed jobs, those that can be calculated.
ListOfWorks(t, asks) ==
    LET kept == {i \in DOMAIN asks : i <= MaxListed}
        known == {i \in kept : Resolve(asks[i].word) # {}}
        choices == {f \in [known -> DOMAIN Jobs] : \A i \in known : f[i] \in Resolve(asks[i].word)}
        Done(f) == {i \in known : Calculates(Jobs[f[i]], asks[i].dims)}
        Heard(f) == Told(Ungrounded(t, {asks[i].word : i \in kept \ known}), {f[i] : i \in known})
        Summed(f) == Consolidar([i \in Done(f) |-> Calcular(Jobs[f[i]], asks[i].dims)])
    IN UNION {IF Done(f) = {} THEN {Heard(f)}
              ELSE FindProducts([Heard(f) EXCEPT !.bought = Summed(f)],
                                Cardinality(DOMAIN Summed(f)), MaxMapped) :
                 f \in choices}

\* toolSugerirComplementares: the materials a job takes, and no warning of its risks.
SuggestComplements(t, w) ==
    IF Resolve(w) = {} THEN {Ungrounded(t, {w})}
    ELSE UNION {FindProducts(t, Cardinality(DOMAIN Jobs[j].uses), MaxComplements) : j \in Resolve(w)}

\* Another product, for the reason the model gives (none of them has its cost
\* here, so the one that protects the margin finds nothing).
Suits(motive, p, ref) ==
    /\ p # ref
    /\ CASE motive = "price" -> Catalogue[p].price < Catalogue[ref].price
         [] motive = "discount" -> FALSE
         [] OTHER -> Catalogue[p].stock > 0

\* toolSugerirAlternativas: two calls, and the cheapest of what suits.
SuggestAlternatives(t, motive) ==
    IF t.left = 0 THEN {t}
    ELSE {Spend(t)} \union UNION
         {LET seen == AddProducts(Spend(t), {ref}, {})
              Cheapest(ps) == {p \in ps : Cardinality({q \in ps : Catalogue[q].price < Catalogue[p].price})
                                            < MaxAlternatives}
          IN IF seen.left = 0 THEN {seen}
             ELSE {AddProducts(Spend(seen), Cheapest({p \in found : Suits(motive, p, ref)}), {}) :
                     found \in SUBSET DOMAIN Catalogue} :
            ref \in DOMAIN Catalogue}

\* consultar_base_ingerida: CuratedLibrary says what may be found there.
CiteDocuments(t, w) == {t, Ungrounded(t, {w})}

-----------------------------------------------------------------------------
(* The registry of questions nobody could answer. *)

\* Registrar: nothing personal, and of what is new as much as there is room for.
Registrar(themes, ws) ==
    LET new == {w \in ws : w \notin Personal \union themes}
        room == MaxThemes - Cardinality(themes)
        fits == {k \in SUBSET new : \/ k = new /\ Cardinality(new) <= room
                                    \/ Cardinality(k) = room /\ room < Cardinality(new)}
    IN {themes \union k : k \in fits}

-----------------------------------------------------------------------------
AliceInit == talk = Idle /\ gaps = {}

\* ChatHandler.Chat and the start of Engine.Chat: the message is read for risks
\* before the model is.
Ask(b, risks) ==
    /\ talk.phase \in {"idle", "answered"}
    /\ talk' = [phase |-> "model", mode |-> ModeFromClaims(b), turn |-> 0, todo |-> 0,
                left |-> MaxCatalogCalls, calls |-> 0, cards |-> {}, warned |-> risks, owed |-> risks,
                ungrounded |-> {}, bought |-> <<>>]
    /\ UNCHANGED gaps

\* The end of Engine.Chat: RedigirCusto, then the gaps of the request.
Answered(t) ==
    [t EXCEPT !.phase = "answered", !.todo = 0,
              !.cards = IF SeesCost(t) THEN @ ELSE {[c EXCEPT !.cost = FALSE] : c \in @}]
FinishWith(themes, t) ==
    /\ talk' = Answered(t)
    /\ gaps' \in Registrar(themes, t.ungrounded)
FinishTalk(t) == FinishWith(gaps, t)

\* model.Complete: some tools to run, or the answer.
Complete(tools) ==
    /\ talk.phase = "model"
    /\ IF tools = 0 THEN FinishTalk(talk)
       ELSE /\ talk' = [talk EXCEPT !.phase = "tools", !.todo = tools]
            /\ UNCHANGED gaps

\* It fails, or the visitor goes away: 502 and nothing of the request is kept.
ModelFails ==
    /\ talk.phase = "model"
    /\ talk' = Idle
    /\ UNCHANGED gaps

\* The request after one of its tools: the next tool, the next turn, or the last
\* turn done, and the results of its tools never shown to the model.
After(t) ==
    LET u == [t EXCEPT !.todo = @ - 1]
    IN IF u.todo > 0 THEN u ELSE [u EXCEPT !.phase = "model", !.turn = @ + 1]
Ran(outcomes) ==
    /\ talk.phase = "tools"
    /\ \E t \in outcomes :
          IF After(t).turn = MaxTurns THEN FinishTalk(After(t))
          ELSE talk' = After(t) /\ UNCHANGED gaps

RunSearch(w) == Ran(SearchProducts(talk, w))
RunGet == Ran(GetProduct(talk))
RunCategories == Ran(ListCategories(talk))
RunExplain(w) == Ran(ExplainJob(talk, w))
RunCalculate(w, d, priced) == Ran(CalculateMaterial(talk, w, d, priced))
RunList(asks) == Ran(ListOfWorks(talk, asks))
RunComplements(w) == Ran(SuggestComplements(talk, w))
RunAlternatives(motive) == Ran(SuggestAlternatives(talk, motive))
RunCite(w) == Ran(CiteDocuments(talk, w))

\* registrar_sem_resposta registers at once, whatever becomes of the request.
RunRegister(w) ==
    /\ talk.phase = "tools"
    /\ \E themes \in Registrar(gaps, {w}) :
          IF After(talk).turn = MaxTurns THEN FinishWith(themes, After(talk))
          ELSE talk' = After(talk) /\ gaps' = themes

\* The process is started again: nothing of this is kept anywhere.
AliceRestarts == talk' = Idle /\ gaps' = {}

AliceNext ==
    \/ \E b \in Bearers, risks \in MessageRisks : Ask(b, risks)
    \/ \E n \in 0 .. MaxToolUses : Complete(n)
    \/ ModelFails
    \/ \E w \in Terms : RunSearch(w) \/ RunExplain(w) \/ RunComplements(w) \/ RunCite(w) \/ RunRegister(w)
    \/ RunGet \/ RunCategories
    \/ \E w \in Terms, d \in Measures, priced \in BOOLEAN : RunCalculate(w, d, priced)
    \/ \E asks \in Lists : RunList(asks)
    \/ \E motive \in {"stock", "price", "discount"} : RunAlternatives(motive)
    \/ AliceRestarts

AliceSpec == AliceInit /\ [][AliceNext]_aliceVars
-----------------------------------------------------------------------------
AliceTypeOK ==
    /\ talk # Idle =>
          /\ talk.phase \in {"model", "tools", "answered"} /\ talk.mode \in {"customer", "counter"}
          /\ talk.turn \in 0 .. MaxTurns /\ talk.todo \in 0 .. MaxToolUses
          /\ talk.left \in 0 .. MaxCatalogCalls /\ talk.calls \in Nat
          /\ talk.cards \subseteq [product : DOMAIN Catalogue, cost : BOOLEAN]
          /\ talk.warned \subseteq Risks
    /\ gaps \subseteq Terms

\* "teto absoluto de idas ao catálogo por requisição": the searches of every tool
\* and the lookups of costs together.
WithinItsBudget == talk.calls <= MaxCatalogCalls

\* No risk of a job that was explained or measured goes without its warning, and
\* no warning is lost on the way.
EveryRiskIsWarned == Warnings(talk.owed) \subseteq talk.warned

\* A customer's cards tell no cost, and a product has one card.
CardsAreFit ==
    \A c, d \in talk.cards : (c.cost => SeesCost(talk)) /\ (c.product = d.product => c = d)

\* What is bought is enough and never a package more; of what several jobs take, but
\* for the thousandths their quantities were rounded by.
ListBuysEnough ==
    \A k \in DOMAIN talk.bought :
       LET it == talk.bought[k]
       IN /\ it.packages * Package[it.material] + 5 * it.parts >= it.exact
          /\ (it.packages - 1) * Package[it.material] < it.exact + 5 * it.parts

\* What an answered request could not ground is in the registry, unless it is
\* personal or the registry is full.
GapsAreKept ==
    talk.phase = "answered" =>
       \A w \in talk.ungrounded : w \in gaps \union Personal \/ Cardinality(gaps) >= MaxThemes

\* Whatever the model asks for, in whatever order, what a visitor gets costs the
\* catalogue no more than its budget, warns of every risk, shows no cost to a
\* customer, buys enough, and leaves its gaps in the registry.
AliceKeepsHerWord ==
    talk # Idle => /\ WithinItsBudget /\ EveryRiskIsWarned /\ CardsAreFit
                   /\ ListBuysEnough /\ GapsAreKept
=============================================================================

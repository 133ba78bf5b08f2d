--------------------------- MODULE ShoppingSearch ---------------------------
(***************************************************************************)
(* What a conversation remembers of a product search, and what every      *)
(* handler that lists products writes back: the shopping-intelligence     *)
(* functions (reading a message, merging topics, hard constraints, the    *)
(* ladder of relaxations) and the handlers of ShoppingFlowService and     *)
(* AssistedBuyingService that keep their result in                        *)
(* Conversation.assistedBuyingContext.                                     *)
(*                                                                         *)
(* A handler reads the conversation when its message arrives and writes   *)
(* the whole context at the end; another message may be handled between.  *)
(* The catalogue does not change.  Words, colours and prices are small    *)
(* sets; the ranking of a list is left open, which items it holds is not. *)
(* The price floor, gender, size and occasion are slots treated by the    *)
(* code exactly like the ceiling and the colour, and are left out.        *)
(***************************************************************************)
EXTENDS Naturals, FiniteSets, Sequences

CONSTANTS
  Products, Words, Colours, Prices, None,
  CoreWords,       \* the words that name a kind of product, not an occasion
  Text,            \* product -> the words and colours of its name and description
  Category,        \* product -> category
  VariantsOf,      \* product -> sequence of [price, stocked, colour]
  Related,         \* product -> the companions the merchant configured
  Limit,           \* CURATED_LIMIT
  Sayings,         \* the messages customers write: a subset of Said
  MaxTurns         \* bound: messages and taps handled

\* what one message says: words, colour, ceiling, what it asks for, and how
Said == [words : SUBSET Words, colour : Colours \cup {None}, max : Prices \cup {None},
         ask : {"none", "other", "similar", "cheaper"}, frame : BOOLEAN]

\* A price is positive (create-product.dto.ts 31-34), in whole units up to the largest; a product without an active
\* variant is never listed and left out.
ASSUME SearchAssumption ==
  /\ IsFiniteSet(Products) /\ IsFiniteSet(Prices) /\ Prices = 1..Cardinality(Prices)
  /\ VariantsOf \in [Products -> Seq([price : Prices, stocked : BOOLEAN, colour : Colours \cup {None}]) \ {<<>>}]
  /\ Related \in [Products -> SUBSET Products]
  /\ Sayings \subseteq Said /\ MaxTurns \in Nat

VARIABLES
  ctx,        \* Conversation.assistedBuyingContext
  active,     \* Conversation.activeProductId
  searching,  \* what a handler in flight read, or None
  listed,     \* history: every product listed since the topic began
  paged,      \* history: those of them that only the page of a category has listed
  overlapped, \* history: some message was handled while another one was
  turns       \* messages and taps handled, up to MaxTurns

searchVars == <<ctx, active, searching, listed, paged, overlapped, turns>>

Empty == [words |-> {}, colour |-> None, max |-> None, extra |-> {},
          results |-> {}, shown |-> {}, via |-> "none"]

ProductsOf(items) == {it.product : it \in items}
VariantOf(it) == VariantsOf[it.product][it.variant]

-----------------------------------------------------------------------------
(* Hard constraints and the choice of a list *)

Eligible(p, max) ==
  {i \in DOMAIN VariantsOf[p] :
     VariantsOf[p][i].stocked /\ (max = None \/ VariantsOf[p][i].price <= max)}

First(indices) == CHOOSE i \in indices : \A j \in indices : i <= j

\* a relaxed rung of the ladder that forgets the ceiling
ApplyStockOnly(ps, max) ==
  {[product |-> p, variant |-> First(Eligible(p, None))] :
     p \in {q \in ps : Eligible(q, None) # {}}}

ApplyHardConstraints(ps, max) ==
  {[product |-> p, variant |-> First(Eligible(p, max))] :
     p \in {q \in ps : Eligible(q, max) # {}}}

InColour(p, max, colour) ==
  IF colour \in Text[p] THEN Eligible(p, max)
  ELSE {i \in Eligible(p, max) : VariantsOf[p][i].colour = colour}

SplitByAttributes(ps, max, colour) ==
  {[product |-> p, variant |-> First(InColour(p, max, colour))] :
     p \in {q \in ps : InColour(q, max, colour) # {}}}

\* rankProducts, selectDiverse, slice: a list of at most Limit of the items
Curate(items) ==
  {S \in SUBSET items :
     Cardinality(S) = IF Cardinality(items) < Limit THEN Cardinality(items) ELSE Limit}

\* the lower median of the prices, or the only one; strictly below it, never above the current ceiling
CheaperCeiling(ps, priceOf, max) ==
  LET middle == (Cardinality(ps) - 1) \div 2
      reference == CHOOSE x \in {priceOf[p] : p \in ps} :
                     /\ Cardinality({p \in ps : priceOf[p] < x}) <= middle
                     /\ Cardinality({p \in ps : priceOf[p] <= x}) > middle
  IN IF max # None /\ max < reference THEN max ELSE reference - 1

CheapestStocked(p) ==
  LET prices == {VariantsOf[p][i].price : i \in Eligible(p, None)}
  IN CHOOSE x \in prices : \A y \in prices : x <= y

CheapestActive(p) ==
  LET prices == {VariantsOf[p][i].price : i \in DOMAIN VariantsOf[p]}
  IN CHOOSE x \in prices : \A y \in prices : x <= y

-----------------------------------------------------------------------------
(* Reading a message *)

\* coreTermsOf: not the words of a style, a material, an occasion or a look
CoreTerms(words) == words \cap CoreWords

Topicful(c) == c.words # {}
Constrained(c) == Topicful(c) \/ c.max # None \/ c.colour # None
HasSlots(s) == s.colour # None \/ s.max # None

\* the relation of the message to the search in progress, and whether it is a guess
Relation(s, c) ==
  IF ~Constrained(c) THEN [new |-> TRUE, ambiguous |-> FALSE]
  ELSE IF ~Topicful(c) \/ s.words = {} \/ s.words \cap c.words # {}
       THEN [new |-> FALSE, ambiguous |-> FALSE]
  ELSE IF s.frame /\ CoreTerms(s.words) # {} THEN [new |-> TRUE, ambiguous |-> FALSE]
  ELSE [new |-> FALSE, ambiguous |-> TRUE]

Intent(s) ==
  IF s.ask = "other" /\ CoreTerms(s.words) = {} THEN "ALTERNATIVES"
  ELSE IF s.ask = "similar" /\ CoreTerms(s.words) = {} THEN "SIMILAR"
  ELSE IF s.words = {} /\ ~HasSlots(s) /\ s.ask # "cheaper" THEN "UNCLEAR"
  ELSE "SEARCH"

InterpretDeterministically(s, c) ==
  [said |-> s, intent |-> Intent(s), new |-> Relation(s, c).new,
   ambiguous |-> Relation(s, c).ambiguous, extra |-> {}]

\* confidence below 0.75: the reading the model is asked about
Unsure(r) ==
  \/ r.intent = "UNCLEAR"
  \/ r.intent = "SEARCH" /\ r.said.words # {} /\ (CoreTerms(r.said.words) = {} \/ r.ambiguous)

\* the model settles the topic and proposes wider words; amounts and slots stay the customer's
MergeInterpretations(r) ==
  {[r EXCEPT !.new = n, !.ambiguous = FALSE, !.extra = x, !.intent = i] :
     n \in BOOLEAN, x \in SUBSET (Words \ r.said.words),
     i \in IF r.intent = "UNCLEAR" THEN {"UNCLEAR", "SEARCH", "ALTERNATIVES", "SIMILAR"}
           ELSE {r.intent}}

\* a model that is off, fails, is late or is malformed leaves the deterministic reading
Interpret(s, c) ==
  LET base == InterpretDeterministically(s, c)
  IN {base} \cup (IF Unsure(base) THEN MergeInterpretations(base) ELSE {})

MergeTopic(c, r) ==
  LET base == IF r.new THEN Empty ELSE c
  IN [words |-> base.words \cup r.said.words,
      colour |-> IF r.said.colour # None THEN r.said.colour ELSE base.colour,
      max |-> IF r.said.max # None THEN r.said.max ELSE base.max,
      extra |-> IF r.extra # {} THEN r.extra ELSE base.extra,
      reset |-> r.new]

-----------------------------------------------------------------------------
(* What a handler remembers *)

ForgetEarlier(c, items) == ProductsOf(items)
Accumulate(c, items) == c.shown \cup ProductsOf(items)

\* nextContext with a new list: the topic carries forward, the list joins what was shown
NextContext(c, items, via) ==
  [c EXCEPT !.results = items, !.shown = Accumulate(c, items), !.via = via]

ContextFor(c, t, items, unmet, via) ==
  [words |-> t.words, colour |-> IF unmet THEN None ELSE t.colour, max |-> t.max,
   extra |-> t.extra, results |-> items,
   shown |-> Accumulate(IF t.reset THEN Empty ELSE c, items), via |-> via]

-----------------------------------------------------------------------------
(* Retrieval.  A query is the set of the results it may return, {} for null *)

Result(t, items, unmet) == {[topic |-> t, items |-> S, unmet |-> unmet] : S \in Curate(items)}

Matching(ks, exclude) == {p \in Products \ exclude : ks \subseteq Text[p]}
Touching(ks, exclude) == {p \in Products \ exclude : ks \cap Text[p] # {}}

SlotWords(t) == IF t.colour = None THEN t.words ELSE t.words \cup {t.colour}
IsColourOnly(t) == t.colour # None /\ t.words = {}

\* a result, unless the list is empty
Unless(items, t, unmet) == IF items = {} THEN {} ELSE Result(t, items, unmet)

QueryExact(t, exclude) ==
  Unless(ApplyHardConstraints(Matching(SlotWords(t), exclude), t.max), t, FALSE)

QueryColour(t, exclude) ==
  LET ps == Matching(t.words, exclude)
      inColour == SplitByAttributes(ps, t.max, t.colour)
  IN IF t.colour = None THEN {}
     ELSE IF inColour # {} THEN Result(t, inColour, FALSE)
     ELSE IF t.words = {} THEN {}
     ELSE Unless(ApplyHardConstraints(ps, t.max), t, TRUE)

QueryPrimary(t, exclude) ==
  IF IsColourOnly(t) THEN QueryColour(t, exclude) ELSE QueryExact(t, exclude)

\* at least one word, then anything within the budget when no kind of product was named
QueryAnyWord(t) ==
  IF Cardinality(t.words) > 1 \/ t.extra # {}
  THEN Unless(ApplyHardConstraints(Touching(t.words \cup t.extra, {}), t.max), t, FALSE)
  ELSE {}
QueryBudget(t) ==
  IF t.max # None /\ CoreTerms(t.words) = {}
  THEN Unless(ApplyHardConstraints(Products, t.max), t, FALSE)
  ELSE {}

\* the first rung that finds something
Ladder(rungs) ==
  LET found == {i \in DOMAIN rungs : rungs[i] # {}}
  IN IF found = {} THEN {} ELSE rungs[First(found)]

Retrieve(t, recover) ==
  LET found == Ladder(<<QueryPrimary(t, {}),
                        UNION {QueryPrimary(u, {}) : u \in recover},
                        IF IsColourOnly(t) THEN {} ELSE QueryColour(t, {}),
                        QueryAnyWord(t), QueryBudget(t)>>)
  IN IF found # {} THEN found ELSE {[topic |-> t, items |-> {}, unmet |-> FALSE]}

SimilarTo(p, max, exclude) ==
  ApplyHardConstraints({q \in Products \ (exclude \cup {p}) : Category[q] = Category[p]}, max)

-----------------------------------------------------------------------------
(* Handlers.  Each works on what it read, `from`, and writes at the end *)

Remember(c, items, fresh) ==
  /\ ctx' = c
  /\ listed' = IF fresh THEN ProductsOf(items) ELSE listed \cup ProductsOf(items)
  /\ paged' = IF fresh THEN {} ELSE paged \ ProductsOf(items)

Unread == UNCHANGED <<ctx, active, listed, paged>>

\* presentResult: a miss is remembered only when it starts a topic
PresentResult(from, r) ==
  IF r.items = {}
  THEN /\ IF r.topic.reset THEN Remember(ContextFor(from.ctx, r.topic, {}, FALSE, "search"), {}, TRUE)
                           ELSE UNCHANGED <<ctx, listed, paged>>
       /\ UNCHANGED active
  ELSE /\ Remember(ContextFor(from.ctx, r.topic, r.items, r.unmet, "search"), r.items, r.topic.reset)
       /\ active' = IF from.active # None THEN None ELSE active

ReferencesOf(from) == IF from.active # None THEN {from.active} ELSE ProductsOf(from.ctx.results)

\* "other options": the search again without what was shown, else products like the one in view
TryAlternatives(from, r) ==
  LET t == [MergeTopic(from.ctx, [r EXCEPT !.new = FALSE]) EXCEPT !.reset = FALSE]
      similar == r.intent = "SIMILAR"
      search == SlotWords(t) # {}
      via == IF similar THEN "search" ELSE "other"
  IN \E ref \in IF ReferencesOf(from) = {} THEN {None} ELSE ReferencesOf(from) :
       LET shown == from.ctx.shown \cup ProductsOf(from.ctx.results) \cup ({ref} \ {None})
           again == IF similar \/ ~search THEN {}
                    ELSE {q \in Ladder(<<QueryPrimary(t, shown), QueryColour(t, shown)>>) : ~q.unmet}
           nearby == IF ref = None \/ (search /\ ~similar /\ IsColourOnly(t)) THEN {}
                     ELSE Unless(SimilarTo(ref, t.max, IF similar THEN {} ELSE shown), t, FALSE)
           found == Ladder(<<again, nearby>>)
       IN IF found = {} THEN Unread
          ELSE \E q \in found : /\ Remember(ContextFor(from.ctx, t, q.items, FALSE, via), q.items, FALSE)
                                /\ active' = None

\* "something cheaper": the same search under a ceiling below what is in view
CheaperTopic(from, r, anchors) ==
  LET ceiling == CheaperCeiling(anchors, [p \in anchors |-> CheapestStocked(p)], from.ctx.max)
  IN MergeTopic(from.ctx, [r EXCEPT !.new = FALSE, !.said.max = ceiling])

AnchorsOf(from) == {p \in ReferencesOf(from) : Eligible(p, None) # {}}

\* nothing in stock to be cheaper than, or no search and no single product to compare: read as a search
CheaperDeclines(from, r) ==
  \/ ReferencesOf(from) # {} /\ AnchorsOf(from) = {}
  \/ /\ from.active = None /\ AnchorsOf(from) # {}
     /\ LET t == CheaperTopic(from, r, AnchorsOf(from)) IN t.max # 0 /\ t.words = {}

TryCheaper(from, r) ==
  LET t == CheaperTopic(from, r, AnchorsOf(from))
      nearby == Unless(SimilarTo(from.active, t.max, {}), t, FALSE)
  IN IF AnchorsOf(from) = {} THEN Unread
     ELSE IF t.max = 0 THEN Unread
     ELSE IF t.words # {} THEN \E q \in Retrieve(t, {}) : PresentResult(from, q)
     ELSE IF nearby = {} THEN Unread
     ELSE \E q \in nearby : /\ Remember(ContextFor(from.ctx, t, q.items, FALSE, "search"), q.items, FALSE)
                            /\ active' = None

\* a question about the product in view (a colour of "this") is answered from its variants
AnswerAboutVariant(from) == active' = from.active /\ UNCHANGED <<ctx, listed, paged>>

WantsCheaper(from, s, r) == s.ask = "cheaper" /\ s.words = {} /\ ~CheaperDeclines(from, r)

InterpretAndSearch(from, s) ==
  \/ /\ from.active # None /\ s.words = {} /\ s.colour # None
     /\ AnswerAboutVariant(from)
  \/ \E r \in Interpret(s, from.ctx) :
       \/ r.intent \in {"ALTERNATIVES", "SIMILAR"} /\ TryAlternatives(from, r)
       \/ r.intent = "SEARCH" /\ WantsCheaper(from, s, r) /\ TryCheaper(from, r)
       \/ r.intent = "UNCLEAR" /\ Unread
       \/ /\ r.intent = "SEARCH" /\ ~WantsCheaper(from, s, r)
          /\ LET t == MergeTopic(from.ctx, r)
                 recover == IF r.ambiguous THEN {MergeTopic(from.ctx, [r EXCEPT !.new = TRUE])} ELSE {}
             IN \E q \in Retrieve(t, recover) : PresentResult(from, q)

\* a list that ignores the search: cheaper, dearer, companions, the same category, two compared
PlainList(from, ps) ==
  LET items == {[product |-> p, variant |-> 1] : p \in ps}
  IN ps # {} /\ Remember(NextContext(from.ctx, items, "list"), items, FALSE) /\ UNCHANGED active

SameCategory(p) == {q \in Products \ {p} : Category[q] = Category[p]}

TrySimilarButCheaper(from) ==
  from.active # None
  /\ PlainList(from, {q \in SameCategory(from.active) : CheapestActive(q) < CheapestActive(from.active)})
TryMorePremium(from) ==
  \E p \in ReferencesOf(from) :
    PlainList(from, {q \in SameCategory(p) :
                       \E i \in DOMAIN VariantsOf[q] : VariantsOf[q][i].price > CheapestActive(p)})
TryCrossSell(from) == from.active # None /\ PlainList(from, Related[from.active])
ListSimilarProducts(from) == \E p \in Products : PlainList(from, SameCategory(p))
TryCompareProducts(from) == \E p, q \in Products : p # q /\ PlainList(from, {p, q})

\* "top N" keeps the first N of the list that was shown
TryTopN(from) ==
  \E S \in SUBSET from.ctx.results \ {{}} :
    /\ Remember(NextContext(from.ctx, S, IF from.ctx.via = "other" THEN "search" ELSE from.ctx.via), S, FALSE)
    /\ UNCHANGED active

\* the assistant's own recommendation: the same ladder, and a miss is left to the chat
TryRecommend(from, s) ==
  \E r \in Interpret(s, from.ctx) :
    LET shownItems == {p \in ProductsOf(from.ctx.results) : Eligible(p, None) # {}}
        cheaper == s.ask = "cheaper" /\ s.words = {} /\ shownItems # {}
        t == IF cheaper THEN CheaperTopic([from EXCEPT !.active = None], r, shownItems)
             ELSE MergeTopic(from.ctx, r)
        exclude == IF r.intent = "ALTERNATIVES"
                   THEN from.ctx.shown \cup ProductsOf(from.ctx.results) ELSE {}
        near == Matching(t.words, exclude)
        coloured == {p \in near : InColour(p, t.max, t.colour) # {}}
        byColour == IF t.colour = None \/ t.words = {} THEN {}
                    ELSE IF coloured # {} THEN Unless(SplitByAttributes(coloured, t.max, t.colour), t, FALSE)
                    ELSE Unless(ApplyHardConstraints(near, t.max), t, TRUE)
        anyWord == IF Cardinality(t.words) < 2 THEN {}
                   ELSE Unless(ApplyHardConstraints(Touching(t.words, exclude), t.max), t, FALSE)
        inBudget == IF t.max = None \/ CoreTerms(t.words) # {} THEN {}
                    ELSE Unless(ApplyHardConstraints(Products \ exclude, t.max), t, FALSE)
    IN /\ r.intent # "UNCLEAR" /\ t.max # 0
       /\ r.intent \in {"ALTERNATIVES", "SIMILAR"} => t.words # {}
       /\ \E q \in Ladder(<<QueryExact(t, exclude), byColour, anyWord, inBudget>>) :
            Remember(ContextFor(from.ctx, t, q.items, q.unmet,
                                IF r.intent = "ALTERNATIVES" THEN "other" ELSE "search"),
                     q.items, t.reset)
       /\ UNCHANGED active

\* comparing what is listed changes nothing; a pick from it is module ShoppingFlow's
TryCompare(from) == Cardinality(from.ctx.results) >= 2 /\ Unread
\* "what do you sell?" is answered with the categories, which the conversation does not keep
TryStoreDiscovery(from) == Unread
AssistedBuying(from, s) == TryStoreDiscovery(from) \/ TryCompare(from) \/ TryRecommend(from, s)

\* the agent's turn takes over a budget, or drops that of another topic, and leaves the list as it is
ResolveEffectiveBudgetMax(s, persisted) == IF s.max # None THEN s.max ELSE persisted

TrackBudget(from, s) ==
  LET max == ResolveEffectiveBudgetMax(s, IF Relation(s, from.ctx).new THEN None ELSE from.ctx.max)
  IN /\ max # from.ctx.max
     /\ ctx' = [from.ctx EXCEPT !.max = max, !.via = "agent"]
     /\ UNCHANGED <<active, listed, paged>>

\* a change of the cart brings its product into view and writes back the search it read
MutateCartItemInView(from) == \E p \in Products : active' = p /\ ctx' = from.ctx /\ UNCHANGED <<listed, paged>>

\* browsing starts a fresh topic, and so does a greeting; a product's page and the cart keep the search
StartTopic == Remember(Empty, {}, TRUE) /\ UNCHANGED active

\* A page lists the products of a category, or all of a shop without any, and starts a topic that does not keep them
\* (MAX_LIST_ROWS is taken to hold the page). With nothing to list the search stays as it is.
Pages == {{}, Products} \cup {{q \in Products : Category[q] = Category[p]} : p \in Products}
ShowPage ==
  \E page \in Pages :
    IF page = {} THEN Unread
    ELSE ctx' = Empty /\ listed' = page /\ paged' = page /\ UNCHANGED active
Browse == StartTopic \/ ShowPage
OpenProduct == \E p \in Products : active' = p /\ UNCHANGED <<ctx, listed, paged>>
OrderPlaced == active # None /\ active' = None /\ UNCHANGED <<ctx, listed, paged>>

-----------------------------------------------------------------------------
SearchInit ==
  /\ ctx = Empty /\ active = None /\ searching = None
  /\ listed = {} /\ paged = {} /\ overlapped = FALSE /\ turns = 0

Answer(from) ==
  \/ \E s \in Sayings : InterpretAndSearch(from, s)
  \/ \E s \in Sayings : AssistedBuying(from, s)
  \/ \E s \in Sayings : TrackBudget(from, s)
  \/ MutateCartItemInView(from)
  \/ TrySimilarButCheaper(from)
  \/ TryMorePremium(from)
  \/ TryCrossSell(from)
  \/ ListSimilarProducts(from)
  \/ TryCompareProducts(from)
  \/ TryTopN(from)

SearchReading == [ctx |-> ctx, active |-> active]

Counted == turns < MaxTurns /\ turns' = turns + 1
Meanwhile == UNCHANGED searching /\ overlapped' = (overlapped \/ searching # None)

\* a message handled from start to end, one that starts, and one that ends late
SearchAtOnce == Counted /\ Answer(SearchReading) /\ Meanwhile
StartSearch ==
  /\ searching = None /\ ~overlapped /\ searching' = SearchReading
  /\ UNCHANGED <<ctx, active, listed, paged, overlapped, turns>>
FinishSearch == Counted /\ searching # None /\ Answer(searching) /\ searching' = None /\ UNCHANGED overlapped
Tap == Counted /\ (Browse \/ OpenProduct \/ OrderPlaced) /\ Meanwhile

SearchNext == SearchAtOnce \/ StartSearch \/ FinishSearch \/ Tap

SearchSpec == SearchInit /\ [][SearchNext]_searchVars

-----------------------------------------------------------------------------
Items == UNION {{[product |-> p, variant |-> i] : i \in DOMAIN VariantsOf[p]} : p \in Products}
Contexts == [words : SUBSET Words, colour : Colours \cup {None}, max : Prices \cup {None},
             extra : SUBSET Words, results : SUBSET Items, shown : SUBSET Products,
             via : {"none", "search", "other", "list", "agent"}]

\* Every search variable has its type: one context, one product in view, one reading in flight.
SearchTypeOK ==
  /\ ctx \in Contexts
  /\ active \in Products \cup {None}
  /\ searching \in {None} \cup [ctx : Contexts, active : Products \cup {None}]
  /\ paged \subseteq listed /\ listed \subseteq Products /\ overlapped \in BOOLEAN /\ turns \in 0..MaxTurns

\* However a search was relaxed, recovered, narrowed or tightened, and whichever message's context was written
\* last, what a search lists is in stock and within the ceiling remembered with it, unless the agent has changed that
\* ceiling since
\* (shopping-flow.service.ts 784-788: "only ever loosens SOFT preferences - never the price ceiling or availability").
WithinBudget ==
  ctx.via \in {"search", "other"} =>
    \A it \in ctx.results : VariantOf(it).stocked /\ (ctx.max # None => VariantOf(it).price <= ctx.max)

\* "Other options" never lists again what was listed since the topic began (shopping-context.ts 24: "every product
\* shown since the topic began, so 'other options' can exclude what the customer already saw"), through whichever
\* handler, as long as no two messages were handled at once. The code forgets one list: what only the page of a category
\* listed may be offered again.
AlternativesAreNew ==
  [][(ctx'.via = "other" /\ ctx' # ctx /\ ~overlapped') =>
       ProductsOf(ctx'.results) \cap (listed \ paged) = {}]_searchVars
=============================================================================

---------------------------- MODULE PagesProofs ----------------------------
(***************************************************************************)
(* Proofs about Pages, for all pages, queries and bounds: no spinner turns *)
(* without a request that will end it, and every part of the page that is  *)
(* shown is, or is being asked for, what the page is about. About Library, *)
(* for any number of items and threads: the list that is shown is the one  *)
(* the service has.                                                        *)
(***************************************************************************)
EXTENDS MCPages, QueueLemmas, FiniteSetTheorems

\* The promises p and the requests f fit together: what waits is on its way,
\* and the parts of a page were last asked for the same. The first part of a
\* page answers for the others when the page is gone to again, so that the
\* second fact is needed to know what they show.
Typed(p, f) ==
  /\ DOMAIN p = Parts /\ \A s \in Parts : IsPromise(s, p[s])
  /\ DOMAIN f = Kinds /\ \A k \in Kinds : f[k] \in [RequestsOf[k] -> Nat]
Awaited(p, f) ==
  \A s \in Parts : p[s].st = "Deferred" =>
    \E k \in Kinds : \E a \in RequestsOf[k] :
      Target(k) = s /\ DefOf(k, a) = p[s].def /\ f[k][a] > 0
Agree(p) ==
  \A r \in Details : \A s \in PartsOf(r) : \A d \in RequestsOf[s] :
    AskedFor(p[s], d) <=> AskedFor(p[KeyOf(r)], d)
Good(p, f) == Typed(p, f) /\ Awaited(p, f) /\ Agree(p)

\* The promises p are for the page n.
OfNav(n, p) ==
  /\ n.route \in Details \ {"Recommendations"} => \A s \in PartsOf(n.route) : AskedFor(p[s], n.arg)
  /\ n.route = "Recommendations" => p["recommend"] # Empty /\ p["recommend"].def.seed = n.arg
  /\ n.route = "Home" => \A s \in HomeParts : p[s] # Empty

Inv ==
  /\ nav \in AllPages /\ history \in Seq(AllPages)
  /\ topic \in Topics \cup {"all"} /\ typed \in Queries \cup {""} /\ playing \in Songs \cup {"none"}
  /\ started \in BOOLEAN /\ Good(promise, flying)
  /\ started => OfNav(nav, promise)

\* The parts and what each is asked for by.
LEMMA PartsFacts ==
  /\ Parts \subseteq Kinds /\ Kinds = Parts \cup {"link"} /\ "link" \notin Parts
  /\ "search" \in Parts /\ "lyrics" \in Parts /\ "recommend" \in Parts /\ HomeParts \subseteq Parts
  /\ \A r \in Details : PartsOf(r) \subseteq Parts \ {"search", "lyrics"} /\ KeyOf(r) \in PartsOf(r)
                        /\ PartsOf(r) \cap HomeParts = {}
  /\ \A r \in Details, s \in Details : r # s => PartsOf(r) \cap PartsOf(s) = {}
  /\ PartsOf("Recommendations") = {"recommend"} /\ KeyOf("Recommendations") = "recommend"
BY DEF Parts, Kinds, HomeParts, Details, PartsOf, KeyOf

LEMMA RequestsFacts ==
  /\ \A k \in HomeParts : RequestsOf[k] = {"()"}
  /\ RequestsOf["search"] = Searches /\ RequestsOf["link"] = Links /\ RequestsOf["lyrics"] = Songs
  /\ RequestsOf["recommend"] = Seeds
  /\ \A r \in Details \ {"Recommendations"} : \A k \in PartsOf(r) : RequestsOf[k] = ArgsOf(r)
<1>1. \A k \in Kinds : RequestsOf[k] =
        CASE k \in HomeParts -> {"()"}
          [] k = "search" -> Searches
          [] k = "link" -> Links
          [] k = "lyrics" -> Songs
          [] k = "recommend" -> Seeds
          [] OTHER -> UNION {ArgsOf(r) : r \in {d \in Details : k \in PartsOf(d)}}
  BY DEF RequestsOf
<1>2. \A k \in HomeParts : RequestsOf[k] = {"()"}  BY <1>1, PartsFacts DEF HomeParts
<1>3. RequestsOf["search"] = Searches /\ RequestsOf["link"] = Links /\ RequestsOf["lyrics"] = Songs
      /\ RequestsOf["recommend"] = Seeds
  BY <1>1, PartsFacts DEF HomeParts
<1>4. ASSUME NEW r \in Details \ {"Recommendations"}, NEW k \in PartsOf(r)
      PROVE  RequestsOf[k] = ArgsOf(r)
  <2>1. {d \in Details : k \in PartsOf(d)} = {r}  BY <1>4, PartsFacts
  <2>2. k \in Kinds /\ k \notin HomeParts /\ k \notin {"search", "link", "lyrics", "recommend"}
    BY <1>4, PartsFacts DEF Details
  <2>3. RequestsOf[k] = UNION {ArgsOf(x) : x \in {d \in Details : k \in PartsOf(d)}}
    BY <1>1, <2>2
  <2> QED  BY <2>1, <2>3
<1> QED  BY <1>2, <1>3, <1>4

\* What was asked is on its way, and its parts wait for it.
LEMMA AskGood ==
  ASSUME NEW p, NEW f, Good(p, f), NEW ks \in SUBSET Kinds, NEW a,
         \A k \in ks : a \in RequestsOf[k],
         \A r \in Details : PartsOf(r) \subseteq ks \/ PartsOf(r) \cap ks = {},
         Ask(p, f, ks, a)
  PROVE  /\ Good(promise', flying')
         /\ \A s \in Parts \ {"search", "lyrics"} :
              promise'[s] = IF s \in ks THEN Deferred(a) ELSE p[s]
<1> DEFINE asked(s) == \E k \in ks : Target(k) = s
           chosen(s) == CHOOSE k \in ks : Target(k) = s
<1>1. \A s \in Parts : asked(s) => chosen(s) \in ks /\ Target(chosen(s)) = s
  OBVIOUS
<1>2. /\ DOMAIN promise' = Parts
      /\ \A s \in Parts : promise'[s] = IF asked(s) THEN Deferred(DefOf(chosen(s), a)) ELSE p[s]
      /\ DOMAIN flying' = Kinds
      /\ \A k \in Kinds : flying'[k] = IF k \in ks THEN [f[k] EXCEPT ![a] = @ + 1] ELSE f[k]
  BY DEF Ask
<1>3. \A k \in Kinds : f[k] \in [RequestsOf[k] -> Nat]  BY DEF Good, Typed
<1>4. \A k \in Kinds : flying'[k] \in [RequestsOf[k] -> Nat]  BY <1>2, <1>3
<1>a. \A k \in Kinds : \A b \in RequestsOf[k] : f[k][b] > 0 => flying'[k][b] > 0
  <2> SUFFICES ASSUME NEW k \in Kinds, NEW b \in RequestsOf[k], f[k][b] > 0
               PROVE  flying'[k][b] > 0
    OBVIOUS
  <2>1. f[k] \in [RequestsOf[k] -> Nat]  BY <1>3
  <2>2. flying'[k] = f[k] \/ flying'[k] = [f[k] EXCEPT ![a] = @ + 1]  BY <1>2
  <2> QED  BY <2>1, <2>2
<1>b. \A k \in ks : flying'[k][a] > 0
  <2> SUFFICES ASSUME NEW k \in ks PROVE flying'[k][a] > 0
    OBVIOUS
  <2>1. f[k] \in [RequestsOf[k] -> Nat] /\ a \in RequestsOf[k]  BY <1>3
  <2>2. flying'[k] = [f[k] EXCEPT ![a] = @ + 1]  BY <1>2
  <2> QED  BY <2>1, <2>2
<1>5. \A s \in Parts : asked(s) => DefOf(chosen(s), a) \in IF s = "lyrics" THEN {"()"} ELSE RequestsOf[s]
  <2> SUFFICES ASSUME NEW s \in Parts, asked(s)
               PROVE  DefOf(chosen(s), a) \in IF s = "lyrics" THEN {"()"} ELSE RequestsOf[s]
    OBVIOUS
  <2>1. chosen(s) \in ks /\ Target(chosen(s)) = s /\ a \in RequestsOf[chosen(s)]  BY <1>1
  <2>2. CASE chosen(s) = "link"
    <3>1. s = "search" /\ a \in Queries
      BY <2>1, <2>2, RequestsFacts, PagesAssumption DEF Target
    <3>2. DefOf("link", a) \in Searches  BY <3>1 DEF DefOf, Searches
    <3> QED  BY <3>1, <3>2, <2>2, RequestsFacts
  <2>3. CASE chosen(s) # "link"
    <3>1. chosen(s) = s  BY <2>1, <2>3 DEF Target
    <3>2. DefOf(s, a) = IF s = "lyrics" THEN "()" ELSE a  BY PartsFacts DEF DefOf
    <3> QED  BY <2>1, <3>1, <3>2
  <2> QED  BY <2>2, <2>3
<1>6. Typed(promise', flying')
  <2>1. \A s \in Parts : IsPromise(s, promise'[s])
    BY <1>2, <1>5 DEF IsPromise, Deferred, Good, Typed
  <2> QED  BY <1>2, <1>4, <2>1 DEF Typed
<1>7. Awaited(promise', flying')
  <2> SUFFICES ASSUME NEW s \in Parts, promise'[s].st = "Deferred"
               PROVE  \E k \in Kinds : \E b \in RequestsOf[k] :
                        Target(k) = s /\ DefOf(k, b) = promise'[s].def /\ flying'[k][b] > 0
    BY DEF Awaited
  <2>1. CASE asked(s)
    <3>1. promise'[s].def = DefOf(chosen(s), a)  BY <2>1, <1>2 DEF Deferred
    <3>2. chosen(s) \in ks /\ Target(chosen(s)) = s  BY <2>1, <1>1
    <3>3. chosen(s) \in Kinds /\ a \in RequestsOf[chosen(s)]  BY <3>2
    <3>4. flying'[chosen(s)][a] > 0  BY <3>2, <1>b
    <3> HIDE DEF chosen, asked
    <3> QED  BY <3>1, <3>2, <3>3, <3>4
  <2>2. CASE ~asked(s)
    <3>1. promise'[s] = p[s]  BY <2>2, <1>2
    <3>2. PICK k \in Kinds : \E b \in RequestsOf[k] :
            Target(k) = s /\ DefOf(k, b) = p[s].def /\ f[k][b] > 0
      BY <3>1 DEF Good, Awaited
    <3>3. PICK b \in RequestsOf[k] : Target(k) = s /\ DefOf(k, b) = p[s].def /\ f[k][b] > 0
      BY <3>2
    <3>4. flying'[k][b] > 0  BY <3>3, <1>a
    <3> QED  BY <3>1, <3>3, <3>4
  <2> QED  BY <2>1, <2>2
<1>8. \A s \in Parts \ {"search", "lyrics"} : promise'[s] = IF s \in ks THEN Deferred(a) ELSE p[s]
  <2> SUFFICES ASSUME NEW s \in Parts \ {"search", "lyrics"}
               PROVE  promise'[s] = IF s \in ks THEN Deferred(a) ELSE p[s]
    OBVIOUS
  <2>1. \A k \in ks : Target(k) = s <=> k = s  BY PartsFacts DEF Target
  <2>2. asked(s) <=> s \in ks  BY <2>1
  <2>3. s \in ks => chosen(s) = s  BY <2>1
  <2>4. DefOf(s, a) = a  BY PartsFacts DEF DefOf
  <2> QED  BY <1>2, <2>2, <2>3, <2>4
<1>9. Agree(promise')
  <2> SUFFICES ASSUME NEW r \in Details, NEW s \in PartsOf(r), NEW d \in RequestsOf[s]
               PROVE  AskedFor(promise'[s], d) <=> AskedFor(promise'[KeyOf(r)], d)
    BY DEF Agree
  <2>1. s \in Parts \ {"search", "lyrics"} /\ KeyOf(r) \in Parts \ {"search", "lyrics"}
        /\ KeyOf(r) \in PartsOf(r)
    BY PartsFacts
  <2>2. s \in ks <=> KeyOf(r) \in ks  BY <2>1
  <2> QED  BY <2>1, <2>2, <1>8 DEF Good, Agree
<1> QED  BY <1>6, <1>7, <1>8, <1>9 DEF Good

\* A page is asked for by what its parts know requests by.
LEMMA PageFacts ==
  ASSUME NEW n \in AllPages
  PROVE  /\ [n EXCEPT !.mark = "none"] \in AllPages
         /\ [n EXCEPT !.mark = "none"].route = n.route /\ [n EXCEPT !.mark = "none"].arg = n.arg
         /\ n.route = "SearchResults" => n.arg \in Queries
         /\ n.arg \in ArgsOf(n.route) \/ n.route = "SearchResults"
         /\ n.route = "Home" => n.arg = "()"
<1>1. CASE n \in Navs
  <2>1. n.arg \in ArgsOf(n.route)  BY <1>1 DEF ArgsOf
  <2>2. [n EXCEPT !.mark = "none"] \in Navs  BY <1>1, PagesAssumption
  <2>3. n = [route |-> n.route, arg |-> n.arg, mark |-> n.mark]  BY <1>1, PagesAssumption
  <2> QED  BY <2>1, <2>2, <2>3, PagesAssumption DEF AllPages
<1>2. CASE n \in [route : {"SearchResults"}, arg : Queries, mark : {"none"}]
  BY <1>2 DEF AllPages
<1> QED  BY <1>1, <1>2 DEF AllPages

\* Going to a page asks for what it lacks.
LEMMA LoadGood ==
  ASSUME NEW p, NEW f, Good(p, f), NEW n \in AllPages, topic \in Topics \cup {"all"},
         LoadRouteData(n, p, f)
  PROVE  Good(promise', flying') /\ OfNav(n, promise')
<1> DEFINE ks == Wanted(n, p)
           a == Argument(n)
<1>0. Ask(p, f, ks, a)  BY DEF LoadRouteData
<1>1. CASE n.route = "Home"
  <2>1. ks = {s \in HomeParts : p[s] = Empty} /\ a = "()"
    BY <1>1, PageFacts DEF Wanted, Argument
  <2>2. \A k \in ks : a \in RequestsOf[k]  BY <2>1, RequestsFacts
  <2>3. \A r \in Details : PartsOf(r) \cap ks = {}  BY <2>1, PartsFacts
  <2>4. ks \in SUBSET Kinds  BY <2>1, PartsFacts
  <2> HIDE DEF ks, a
  <2>5. /\ Good(promise', flying')
        /\ \A s \in Parts \ {"search", "lyrics"} : promise'[s] = IF s \in ks THEN Deferred(a) ELSE p[s]
    BY <1>0, <2>2, <2>3, <2>4, AskGood
  <2>6. \A s \in HomeParts : promise'[s] # Empty
    <3>1. HomeParts \subseteq Parts \ {"search", "lyrics"}  BY PartsFacts DEF HomeParts
    <3>2. Deferred(a) # Empty  BY DEF Deferred, Empty
    <3> QED  BY <2>1, <2>5, <3>1, <3>2
  <2> QED  BY <1>1, <2>5, <2>6 DEF OfNav, Details
<1>2. CASE n.route = "SearchResults"
  <2>1. ks \in SUBSET {"link", "search"} /\ \A k \in ks : a \in RequestsOf[k]
    <3>1. n.arg \in Queries  BY <1>2, PageFacts
    <3>2. CASE n.arg \in Links
      BY <1>2, <3>1, <3>2, RequestsFacts DEF Wanted, Argument
    <3>3. CASE n.arg \notin Links
      <4>1. a = [q |-> n.arg, id |-> FALSE, topic |-> topic]  BY <1>2, <3>3 DEF Argument
      <4>2. a \in Searches  BY <3>1, <4>1 DEF Searches
      <4>3. ks \subseteq {"search"}  BY <1>2, <3>3 DEF Wanted
      <4> QED  BY <4>2, <4>3, RequestsFacts
    <3> QED  BY <3>2, <3>3
  <2>2. \A r \in Details : PartsOf(r) \cap ks = {}  BY <2>1, PartsFacts
  <2>3. ks \in SUBSET Kinds  BY <2>1, PartsFacts
  <2> HIDE DEF ks, a
  <2>4. Good(promise', flying')  BY <1>0, <2>1, <2>2, <2>3, AskGood
  <2> QED  BY <1>2, <2>4 DEF OfNav, Details
<1>3. CASE n.route \in Details
  <2> DEFINE d == IF n.route = "Recommendations" THEN [seed |-> n.arg, params |-> "default"] ELSE n.arg
  <2>1. ks = (IF AskedFor(p[KeyOf(n.route)], d) THEN {} ELSE PartsOf(n.route)) /\ a = d
    <3>1. PartsOf(n.route) # {}  BY <1>3, PartsFacts
    <3>2. CASE n.route = "Recommendations"
      BY <3>2, PartsFacts DEF Wanted, Argument
    <3>3. CASE n.route # "Recommendations"
      BY <1>3, <3>1, <3>3 DEF Wanted, Argument, Details
    <3> QED  BY <3>2, <3>3
  <2>2. \A k \in PartsOf(n.route) : d \in RequestsOf[k]
    <3>1. n.arg \in ArgsOf(n.route)  BY <1>3, PageFacts DEF Details
    <3>2. CASE n.route = "Recommendations"
      <4>1. d \in Seeds  BY <3>1, <3>2 DEF Seeds
      <4> QED  BY <3>2, <4>1, PartsFacts, RequestsFacts
    <3>3. CASE n.route # "Recommendations"
      BY <1>3, <3>1, <3>3, RequestsFacts
    <3> QED  BY <3>2, <3>3
  <2>3. ks \in SUBSET Kinds /\ \A r \in Details : PartsOf(r) \subseteq ks \/ PartsOf(r) \cap ks = {}
    BY <1>3, <2>1, PartsFacts
  <2>4. \A k \in ks : a \in RequestsOf[k]  BY <2>1, <2>2
  <2> HIDE DEF ks, a
  <2>5. /\ Good(promise', flying')
        /\ \A s \in Parts \ {"search", "lyrics"} : promise'[s] = IF s \in ks THEN Deferred(a) ELSE p[s]
    BY <1>0, <2>3, <2>4, AskGood
  <2>6. PartsOf(n.route) \subseteq Parts \ {"search", "lyrics"}  BY <1>3, PartsFacts
  <2>7. \A s \in PartsOf(n.route) : AskedFor(promise'[s], d)
    <3>1. CASE AskedFor(p[KeyOf(n.route)], d)
      <4>1. \A s \in PartsOf(n.route) : AskedFor(p[s], d)
        BY <1>3, <2>2, <3>1 DEF Good, Agree
      <4> QED  BY <2>1, <2>5, <2>6, <3>1, <4>1
    <3>2. CASE ~AskedFor(p[KeyOf(n.route)], d)
      BY <2>1, <2>5, <2>6, <3>2 DEF AskedFor, Deferred
    <3> QED  BY <3>1, <3>2
  <2>8. OfNav(n, promise')
    <3>1. CASE n.route = "Recommendations"
      <4>1. AskedFor(promise'["recommend"], d)  BY <2>7, <3>1, PartsFacts
      <4> QED  BY <3>1, <4>1 DEF OfNav, AskedFor, Empty
    <3>2. CASE n.route # "Recommendations"
      BY <1>3, <2>7, <3>2 DEF OfNav, Details
    <3> QED  BY <3>1, <3>2
  <2> QED  BY <2>5, <2>8
<1>4. CASE n.route \notin Details \cup {"Home", "SearchResults"}
  <2>1. PartsOf(n.route) = {}  BY <1>4 DEF Details, PartsOf
  <2>2. ks = {}  BY <1>4, <2>1 DEF Wanted, Details
  <2> HIDE DEF ks, a
  <2>3. Good(promise', flying')  BY <1>0, <2>2, AskGood
  <2> QED  BY <1>4, <2>3 DEF OfNav, Details
<1> QED  BY <1>1, <1>2, <1>3, <1>4

\* One step back leads to a page there is.
LEMMA BackFacts ==
  ASSUME NEW at \in [nav : AllPages, history : Seq(AllPages)]
  PROVE  NavigateBack(at) \in [nav : AllPages, history : Seq(AllPages)]
<1>1. CASE at.history = <<>>  BY <1>1 DEF NavigateBack
<1>2. CASE at.history # <<>>
  <2> DEFINE rest == Front(at.history)
             skip == IsLink(Last(at.history))
             to == IF ~skip THEN Last(at.history) ELSE IF rest = <<>> THEN Home ELSE Last(rest)
  <2>1. Last(at.history) \in AllPages /\ rest \in Seq(AllPages)
    BY <1>2 DEF Front, Last
  <2>2. rest # <<>> => Last(rest) \in AllPages /\ Front(rest) \in Seq(AllPages)
    BY <2>1 DEF Front, Last
  <2>3. Home \in AllPages  BY PagesAssumption DEF AllPages
  <2>4. to \in AllPages  BY <2>1, <2>2, <2>3
  <2>5. [to EXCEPT !.mark = "none"] \in AllPages  BY <2>4, PageFacts
  <2>6. NavigateBack(at) = [nav |-> [to EXCEPT !.mark = "none"],
                            history |-> IF skip /\ rest # <<>> THEN Front(rest) ELSE rest]
    BY <1>2 DEF NavigateBack
  <2> HIDE DEF rest, skip, to
  <2> QED  BY <2>1, <2>2, <2>5, <2>6 DEF Front
<1> QED  BY <1>1, <1>2

\* An answer ends the wait for it and no other.
Replaces(v, q) == v = q \/ (v.st # "Empty" /\ q.st # "Empty" /\ v.def = q.def)

LEMMA LandGood ==
  ASSUME NEW p, NEW f, Good(p, f), NEW k \in Kinds, NEW a \in RequestsOf[k], f[k][a] > 0,
         NEW v, IsPromise(Target(k), v),
         v.st = "Deferred" => v = p[Target(k)] /\ v.def # DefOf(k, a),
         Target(k) # "search" => Replaces(v, p[Target(k)])
  PROVE  LET q == [p EXCEPT ![Target(k)] = v] IN
         /\ Good(q, [f EXCEPT ![k][a] = @ - 1])
         /\ \A n \in AllPages : OfNav(n, p) => OfNav(n, q)
<1> DEFINE q == [p EXCEPT ![Target(k)] = v]
           g == [f EXCEPT ![k][a] = @ - 1]
<1>1. Target(k) \in Parts  BY PartsFacts DEF Target
<1>2. DOMAIN q = Parts /\ q[Target(k)] = v /\ \A s \in Parts \ {Target(k)} : q[s] = p[s]
  BY <1>1 DEF Good, Typed
<1>3. DOMAIN g = Kinds /\ g[k] = [f[k] EXCEPT ![a] = @ - 1] /\ \A i \in Kinds \ {k} : g[i] = f[i]
  BY DEF Good, Typed
<1>4. f[k] \in [RequestsOf[k] -> Nat]  BY DEF Good, Typed
<1>5. g[k] \in [RequestsOf[k] -> Nat] /\ \A b \in RequestsOf[k] \ {a} : g[k][b] = f[k][b]
  BY <1>3, <1>4
<1> HIDE DEF q, g
<1>6. Typed(q, g)
  <2>1. \A s \in Parts : IsPromise(s, q[s])  BY <1>1, <1>2 DEF Good, Typed
  <2>2. \A i \in Kinds : g[i] \in [RequestsOf[i] -> Nat]  BY <1>3, <1>5 DEF Good, Typed
  <2> QED  BY <1>2, <1>3, <2>1, <2>2 DEF Typed
<1>7. Awaited(q, g)
  <2> SUFFICES ASSUME NEW s \in Parts, q[s].st = "Deferred"
               PROVE  \E i \in Kinds : \E b \in RequestsOf[i] :
                        Target(i) = s /\ DefOf(i, b) = q[s].def /\ g[i][b] > 0
    BY DEF Awaited
  <2>1. q[s] = p[s] /\ (s = Target(k) => p[s].def # DefOf(k, a))  BY <1>2
  <2>2. PICK i \in Kinds : \E b \in RequestsOf[i] :
          Target(i) = s /\ DefOf(i, b) = p[s].def /\ f[i][b] > 0
    BY <2>1 DEF Good, Awaited
  <2>3. PICK b \in RequestsOf[i] : Target(i) = s /\ DefOf(i, b) = p[s].def /\ f[i][b] > 0
    BY <2>2
  <2>4. g[i][b] = f[i][b]
    <3>1. CASE i = k
      <4>1. b # a  BY <2>1, <2>3, <3>1
      <4> QED  BY <3>1, <4>1, <1>5
    <3>2. CASE i # k  BY <3>2, <1>3
    <3> QED  BY <3>1, <3>2
  <2> QED  BY <2>1, <2>3, <2>4
<1>8. \A s \in Parts \ {"search"} : Replaces(q[s], p[s])
  <2> SUFFICES ASSUME NEW s \in Parts \ {"search"} PROVE Replaces(q[s], p[s])
    OBVIOUS
  <2>1. CASE s = Target(k)  BY <2>1, <1>2
  <2>2. CASE s # Target(k)
    <3>1. q[s] = p[s]  BY <2>2, <1>2
    <3> QED  BY <3>1 DEF Replaces
  <2> QED  BY <2>1, <2>2
<1>9. \A s \in Parts \ {"search"} : \A d : AskedFor(q[s], d) <=> AskedFor(p[s], d)
  BY <1>8 DEF Replaces, AskedFor
<1>10. Agree(q)
  <2> SUFFICES ASSUME NEW r \in Details, NEW s \in PartsOf(r), NEW d \in RequestsOf[s]
               PROVE  AskedFor(q[s], d) <=> AskedFor(q[KeyOf(r)], d)
    BY DEF Agree
  <2>1. s \in Parts \ {"search"} /\ KeyOf(r) \in Parts \ {"search"}  BY PartsFacts
  <2> QED  BY <2>1, <1>9 DEF Good, Agree
<1>11. ASSUME NEW n \in AllPages, OfNav(n, p) PROVE OfNav(n, q)
  <2>1. n.route \in Details \ {"Recommendations"} => \A s \in PartsOf(n.route) : AskedFor(q[s], n.arg)
    BY <1>9, <1>11, PartsFacts DEF OfNav
  <2>2. n.route = "Recommendations" => q["recommend"] # Empty /\ q["recommend"].def.seed = n.arg
    <3>1. Replaces(q["recommend"], p["recommend"])  BY <1>8, PartsFacts
    <3> QED  BY <1>11, <3>1 DEF OfNav, Replaces, Empty
  <2>3. n.route = "Home" => \A s \in HomeParts : q[s] # Empty
    <3>1. \A s \in HomeParts : Replaces(q[s], p[s])  BY <1>8, PartsFacts DEF HomeParts
    <3> QED  BY <1>11, <3>1 DEF OfNav, Replaces, Empty
  <2> QED  BY <2>1, <2>2, <2>3 DEF OfNav
<1> QED  BY <1>6, <1>7, <1>10, <1>11 DEF Good, q, g

\* A part of a page that is asked for again is asked for the same.
LEMMA OnPageGood ==
  ASSUME Inv, started, NEW ks \in SUBSET Kinds, NEW a, \A k \in ks : a \in RequestsOf[k],
         \A r \in Details : PartsOf(r) \subseteq ks \/ PartsOf(r) \cap ks = {},
         nav.route \in Details \ {"Recommendations"} /\ PartsOf(nav.route) \subseteq ks => a = nav.arg,
         nav.route = "Recommendations" /\ "recommend" \in ks => a.seed = nav.arg,
         Ask(promise, flying, ks, a)
  PROVE  Good(promise', flying') /\ OfNav(nav, promise')
<1>1. /\ Good(promise', flying')
      /\ \A s \in Parts \ {"search", "lyrics"} :
           promise'[s] = IF s \in ks THEN Deferred(a) ELSE promise[s]
  <2>1. Good(promise, flying)  BY DEF Inv
  <2>2. Ask(promise, flying, ks, a)  OBVIOUS
  <2> QED  BY <2>1, <2>2, AskGood
<1>2. Deferred(a) # Empty /\ Deferred(a).def = a /\ AskedFor(Deferred(a), a)
  BY DEF Deferred, Empty, AskedFor
<1>3. OfNav(nav, promise)  BY DEF Inv
<1>4. nav.route \in Details \ {"Recommendations"} =>
        \A s \in PartsOf(nav.route) : AskedFor(promise'[s], nav.arg)
  <2> SUFFICES ASSUME nav.route \in Details \ {"Recommendations"}, NEW s \in PartsOf(nav.route)
               PROVE  AskedFor(promise'[s], nav.arg)
    OBVIOUS
  <2>1. s \in Parts \ {"search", "lyrics"}  BY PartsFacts
  <2>2. s \in ks => a = nav.arg  OBVIOUS
  <2>3. AskedFor(promise[s], nav.arg)  BY <1>3 DEF OfNav
  <2> QED  BY <1>1, <1>2, <2>1, <2>2, <2>3
<1>5. nav.route = "Recommendations" =>
        promise'["recommend"] # Empty /\ promise'["recommend"].def.seed = nav.arg
  BY <1>1, <1>2, <1>3, PartsFacts DEF OfNav
<1>6. nav.route = "Home" => \A s \in HomeParts : promise'[s] # Empty
  <2>1. HomeParts \subseteq Parts \ {"search", "lyrics"}  BY PartsFacts DEF HomeParts
  <2> QED  BY <1>1, <1>2, <1>3, <2>1 DEF OfNav
<1> QED  BY <1>1, <1>4, <1>5, <1>6 DEF OfNav

\* What a part was last asked for, it may be asked for again.
LEMMA DefTyped ==
  ASSUME Inv, NEW s \in Parts, promise[s] # Empty, s # "lyrics"
  PROVE  promise[s].def \in RequestsOf[s]
BY DEF Inv, Good, Typed, IsPromise

LEMMA InitInv == Init => Inv
<1> SUFFICES ASSUME Init PROVE Inv
  OBVIOUS
<1>1. nav \in AllPages  BY PagesAssumption DEF Init, AllPages
<1>2. \A k \in Kinds : flying[k] \in [RequestsOf[k] -> Nat]  BY DEF Init
<1>3. \A s \in Parts : promise[s] = Empty /\ promise[s].st # "Deferred"  BY DEF Init, Empty
<1>4. Typed(promise, flying)  BY <1>2, <1>3 DEF Typed, IsPromise, Init
<1>5. Awaited(promise, flying)  BY <1>3 DEF Awaited
<1>6. Agree(promise)  BY <1>3, PartsFacts DEF Agree
<1>7. history \in Seq(AllPages)  BY EmptySeq DEF Init
<1>8. topic = "all" /\ typed = "" /\ playing = "none" /\ started = FALSE  BY DEF Init
<1> QED  BY <1>1, <1>4, <1>5, <1>6, <1>7, <1>8 DEF Inv, Good

\* The steps that go to a page.
LEMMA NavigateInv ==
  ASSUME Inv, NEW p, NEW f, Good(p, f), NEW n \in AllPages, NavigateFrom(n, p, f), topic' = topic,
         typed' \in Queries \cup {""}, playing' = playing, started' \in BOOLEAN
  PROVE  Inv'
<1>1. Good(promise', flying') /\ OfNav(n, promise')  BY LoadGood DEF Inv, NavigateFrom
<1>2. nav' = n /\ history' \in Seq(AllPages)
  <2>1. nav \in AllPages /\ history \in Seq(AllPages)  BY DEF Inv
  <2>2. Append(history, nav) \in Seq(AllPages)  BY <2>1, AppendProperties
  <2> QED  BY <2>1, <2>2 DEF NavigateFrom
<1> QED  BY <1>1, <1>2 DEF Inv

LEMMA BackInv ==
  ASSUME Inv, NEW at \in [nav : AllPages, history : Seq(AllPages)], BackTo(at),
         UNCHANGED <<topic, typed, playing, started>>
  PROVE  Inv'
<1>1. Good(promise', flying') /\ OfNav(at.nav, promise')  BY LoadGood DEF Inv, BackTo
<1>2. nav' = at.nav /\ history' \in Seq(AllPages)  BY DEF BackTo
<1> QED  BY <1>1, <1>2 DEF Inv

LEMMA ForgetInv ==
  ASSUME Inv, NEW parts \in SUBSET Parts, Forget(parts),
         \A r \in Details : PartsOf(r) \subseteq parts \/ PartsOf(r) \cap parts = {}
  PROVE  Inv'
<1> DEFINE p == [s \in Parts |-> IF s \in parts THEN Empty ELSE promise[s]]
<1>1. \A s \in Parts : p[s] = IF s \in parts THEN Empty ELSE promise[s]
  OBVIOUS
<1>2. DOMAIN p = Parts  OBVIOUS
<1>3. LoadRouteData(nav, p, flying) /\ nav' = nav /\ history' = history
      /\ UNCHANGED <<typed, topic, playing, started>>
  BY DEF Forget
<1> HIDE DEF p
<1>4. Typed(p, flying)  BY <1>1, <1>2 DEF Inv, Good, Typed, IsPromise
<1>5. Awaited(p, flying)
  <2>1. \A s \in Parts : p[s].st = "Deferred" => p[s] = promise[s]  BY <1>1 DEF Empty
  <2> QED  BY <2>1 DEF Inv, Good, Awaited
<1>6. Agree(p)
  <2>1. \A r \in Details : \A s \in PartsOf(r) :
          s \in Parts /\ KeyOf(r) \in Parts /\ (s \in parts <=> KeyOf(r) \in parts)
    BY PartsFacts
  <2> QED  BY <1>1, <2>1 DEF Inv, Good, Agree
<1>7. Good(promise', flying') /\ OfNav(nav, promise')
  BY <1>3, <1>4, <1>5, <1>6, LoadGood DEF Inv, Good
<1> QED  BY <1>3, <1>7 DEF Inv

LEMMA OnPageInv ==
  ASSUME Inv, NEW ks \in SUBSET Kinds, NEW a, \A k \in ks : a \in RequestsOf[k],
         \A r \in Details : PartsOf(r) \subseteq ks \/ PartsOf(r) \cap ks = {},
         nav.route \in Details \ {"Recommendations"} /\ PartsOf(nav.route) \subseteq ks => a = nav.arg,
         nav.route = "Recommendations" /\ "recommend" \in ks => a.seed = nav.arg,
         OnPage(ks, a), topic' \in Topics \cup {"all"}
  PROVE  Inv'
<1>1. started /\ Ask(promise, flying, ks, a) /\ UNCHANGED <<nav, history, typed, playing, started>>
  BY DEF OnPage, Spend
<1>2. Good(promise', flying') /\ OfNav(nav, promise')  BY <1>1, OnPageGood
<1> QED  BY <1>1, <1>2 DEF Inv

LEMMA RetryInv == ASSUME Inv, NEW s \in Parts, Retry(s) PROVE Inv'
<1> DEFINE ks == IF nav.route \in Details THEN PartsOf(nav.route) ELSE {s}
           d == promise[s].def
<1>1. /\ s \in Retryable(nav.route) /\ promise[s] # Empty
      /\ OnPage(ks, d) /\ topic' = topic /\ started
  BY DEF Retry, Empty, OnPage, Spend
<1>2. CASE nav.route \in Details
  <2>1. s \in PartsOf(nav.route) /\ s # "lyrics"
    BY <1>1, <1>2, PartsFacts DEF Retryable, Details
  <2>2. d \in RequestsOf[s]  BY <1>1, <2>1, DefTyped
  <2>3. \A k \in PartsOf(nav.route) : RequestsOf[k] = RequestsOf[s]
    BY <1>2, <2>1, PartsFacts, RequestsFacts
  <2>4. nav.route \in Details \ {"Recommendations"} => d = nav.arg
    BY <1>1, <2>1 DEF Inv, OfNav, AskedFor
  <2>5. nav.route = "Recommendations" => d.seed = nav.arg
    BY <1>1, <2>1, PartsFacts DEF Inv, OfNav
  <2>6. ks = PartsOf(nav.route) /\ ks \in SUBSET Kinds
        /\ \A r \in Details : PartsOf(r) \subseteq ks \/ PartsOf(r) \cap ks = {}
    BY <1>2, PartsFacts
  <2> HIDE DEF ks, d
  <2>7. topic' \in Topics \cup {"all"}  BY <1>1 DEF Inv
  <2> QED  BY <1>1, <2>2, <2>3, <2>4, <2>5, <2>6, <2>7, OnPageInv
<1>3. CASE nav.route \notin Details
  <2>1. s \in HomeParts \cup {"search"}
    <3>1. PartsOf(nav.route) = {}  BY <1>3 DEF Details, PartsOf
    <3> QED  BY <1>1, <3>1 DEF Retryable
  <2>2. s # "lyrics"  BY <2>1 DEF HomeParts
  <2>3. d \in RequestsOf[s]  BY <1>1, <2>2, DefTyped
  <2>4. ks = {s} /\ ks \in SUBSET Kinds /\ \A r \in Details : PartsOf(r) \cap ks = {}
    BY <1>3, <2>1, PartsFacts
  <2> HIDE DEF ks, d
  <2>5. topic' \in Topics \cup {"all"}  BY <1>1 DEF Inv
  <2>6. nav.route # "Recommendations"  BY <1>3 DEF Details
  <2> QED  BY <1>1, <1>3, <2>3, <2>4, <2>5, <2>6, OnPageInv
<1> QED  BY <1>2, <1>3

LEMMA RefreshDetailInv == ASSUME Inv, RefreshDetail PROVE Inv'
<1> DEFINE key == KeyOf(nav.route)
           d == promise[key].def
<1>1. /\ nav.route \in Details \ {"Recommendations"} /\ promise[key] # Empty
      /\ OnPage(PartsOf(nav.route), d) /\ topic' = topic /\ started
  BY DEF RefreshDetail, IsResolved, Empty, Details, OnPage, Spend
<1>2. key \in PartsOf(nav.route) /\ key \in Parts /\ key # "lyrics"  BY <1>1, PartsFacts
<1>3. d \in RequestsOf[key]  BY <1>1, <1>2, DefTyped
<1>4. \A k \in PartsOf(nav.route) : RequestsOf[k] = RequestsOf[key]
  BY <1>1, <1>2, PartsFacts, RequestsFacts
<1>5. d = nav.arg  BY <1>1, <1>2 DEF Inv, OfNav, AskedFor
<1>6. PartsOf(nav.route) \in SUBSET Kinds
      /\ \A r \in Details : PartsOf(r) \subseteq PartsOf(nav.route) \/ PartsOf(r) \cap PartsOf(nav.route) = {}
  BY <1>1, PartsFacts
<1> HIDE DEF key, d
<1>7. topic' \in Topics \cup {"all"} /\ nav.route # "Recommendations"  BY <1>1 DEF Inv
<1> QED  BY <1>1, <1>3, <1>4, <1>5, <1>6, <1>7, OnPageInv

LEMMA SetTopicInv ==
  ASSUME Inv, NEW t \in Topics \cup {"all"}, SetTopic(t)
  PROVE  Inv'
<1> DEFINE again == promise["search"].st # "Empty"
           q == IF typed # "" THEN typed ELSE IF again THEN promise["search"].def.q ELSE ""
           id == typed = "" /\ again /\ promise["search"].def.id
           ks == IF typed # "" \/ again THEN {"search"} ELSE {}
           a == [q |-> q, id |-> id, topic |-> t]
<1>1. OnPage(ks, a) /\ topic' = t /\ nav.route = "SearchResults"  BY DEF SetTopic
<1>2. \A k \in ks : a \in RequestsOf[k]
  <2>1. again => promise["search"].def \in Searches
    <3>1. again => promise["search"] # Empty  BY DEF Empty
    <3> QED  BY <3>1, DefTyped, PartsFacts, RequestsFacts
  <2>2. typed \in Queries \cup {""}  BY DEF Inv
  <2>3. typed # "" \/ again => q \in Queries /\ id \in BOOLEAN
    BY <2>1, <2>2 DEF Searches
  <2>4. typed # "" \/ again => a \in Searches  BY <2>3 DEF Searches
  <2> QED  BY <2>4, RequestsFacts
<1>3. ks \in SUBSET Kinds /\ \A r \in Details : PartsOf(r) \cap ks = {}  BY PartsFacts, ZenonT(40)
<1>4. nav.route \notin Details  BY <1>1 DEF Details
<1>5. nav.route # "Recommendations"  BY <1>1
<1> HIDE DEF ks, a
<1> QED  BY <1>1, <1>2, <1>3, <1>4, <1>5, OnPageInv

LEMMA UpdateParamsInv ==
  ASSUME Inv, NEW ps \in Params, UpdateParams(ps)
  PROVE  Inv'
<1> DEFINE d == promise["recommend"].def
           a == [d EXCEPT !.params = ps]
<1>1. OnPage({"recommend"}, a) /\ topic' = topic /\ promise["recommend"] # Empty /\ started
  BY DEF UpdateParams, Empty, OnPage, Spend
<1>2. d \in Seeds  BY <1>1, DefTyped, PartsFacts, RequestsFacts
<1>3. a \in Seeds /\ a.seed = d.seed  BY <1>2 DEF Seeds
<1>4. nav.route = "Recommendations" => a.seed = nav.arg  BY <1>1, <1>3 DEF Inv, OfNav
<1>5. \A r \in Details : PartsOf(r) \subseteq {"recommend"} \/ PartsOf(r) \cap {"recommend"} = {}
  BY PartsFacts DEF Details
<1>6. nav.route \in Details \ {"Recommendations"} => ~(PartsOf(nav.route) \subseteq {"recommend"})
  BY PartsFacts DEF Details
<1>7. a \in RequestsOf["recommend"] /\ {"recommend"} \in SUBSET Kinds
  BY <1>3, PartsFacts, RequestsFacts
<1>8. topic' \in Topics \cup {"all"}  BY <1>1 DEF Inv
<1> HIDE DEF a, d
<1> QED  BY <1>1, <1>4, <1>5, <1>6, <1>7, <1>8, OnPageInv

LEMMA LyricsAsked ==
  ASSUME Inv, NEW t \in Songs \cup {"none"}, NEW ks \in SUBSET {"lyrics"}, t = "none" => ks = {},
         Ask(promise, flying, ks, t)
  PROVE  Good(promise', flying') /\ \A n \in AllPages : OfNav(n, promise) => OfNav(n, promise')
<1>1. \A k \in ks : t \in RequestsOf[k]  BY RequestsFacts
<1>2. ks \in SUBSET Kinds /\ \A r \in Details : PartsOf(r) \cap ks = {}  BY PartsFacts
<1>3. /\ Good(promise', flying')
      /\ \A s \in Parts \ {"search", "lyrics"} :
           promise'[s] = IF s \in ks THEN Deferred(t) ELSE promise[s]
  <2>1. Good(promise, flying)  BY DEF Inv
  <2> QED  BY <1>1, <1>2, <2>1, AskGood
<1>4. \A s \in Parts \ {"search", "lyrics"} : promise'[s] = promise[s]  BY <1>3
<1>5. HomeParts \subseteq Parts \ {"search", "lyrics"}  BY PartsFacts DEF HomeParts
<1>6. "recommend" \in Parts \ {"search", "lyrics"}  BY PartsFacts
<1>7. \A r \in Details : PartsOf(r) \subseteq Parts \ {"search", "lyrics"}  BY PartsFacts
<1> QED  BY <1>3, <1>4, <1>5, <1>6, <1>7 DEF OfNav

LEMMA AnswerInv ==
  ASSUME Inv, NEW k \in Parts, NEW a \in RequestsOf[k], NEW ok \in BOOLEAN, Answer(k, a, ok)
  PROVE  Inv'
<1> DEFINE v == Updated(promise[k], DefOf(k, a), ok, a)
<1>1. /\ promise' = [promise EXCEPT ![k] = v] /\ flying' = [flying EXCEPT ![k][a] = @ - 1]
      /\ flying[k][a] > 0 /\ UNCHANGED <<nav, history, topic, typed, playing, started>>
  BY DEF Answer, Landed
<1>2. Target(k) = k /\ k \in Kinds  BY PartsFacts DEF Target
<1>3. DefOf(k, a) \in IF k = "lyrics" THEN {"()"} ELSE RequestsOf[k]  BY PartsFacts DEF DefOf
<1>4. IsPromise(k, promise[k])  BY DEF Inv, Good, Typed
<1>5. /\ IsPromise(k, v) /\ Replaces(v, promise[k])
      /\ v.st = "Deferred" => v = promise[k] /\ v.def # DefOf(k, a)
  <2>1. CASE ~IsDeferred(promise[k], DefOf(k, a))
    <3>1. v = promise[k]  BY <2>1 DEF Updated
    <3>2. v.st = "Deferred" => v.def # DefOf(k, a)  BY <2>1, <3>1 DEF IsDeferred
    <3>3. Replaces(v, promise[k])  BY <3>1 DEF Replaces
    <3>4. IsPromise(k, v)  BY <3>1, <1>4
    <3> QED  BY <3>1, <3>2, <3>3, <3>4
  <2>2. CASE IsDeferred(promise[k], DefOf(k, a))
    <3>1. v = Resolved(DefOf(k, a), a) \/ v = Rejected(DefOf(k, a))  BY <2>2 DEF Updated
    <3> QED  BY <2>2, <3>1, <1>3 DEF Replaces, IsDeferred, IsPromise, Resolved, Rejected
  <2> QED  BY <2>1, <2>2
<1> HIDE DEF v
<1>6. Good(promise, flying)  BY DEF Inv
<1>7. /\ Good(promise', flying')
      /\ \A n \in AllPages : OfNav(n, promise) => OfNav(n, promise')
  BY <1>1, <1>2, <1>5, <1>6, LandGood
<1> QED  BY <1>1, <1>7 DEF Inv

LEMMA OpenLinkInv ==
  ASSUME Inv, NEW l \in Links, NEW ok \in BOOLEAN, OpenLink(l, ok)
  PROVE  Inv'
<1> DEFINE f == [flying EXCEPT !["link"][l] = @ - 1]
<1>1. Good(promise, flying) /\ flying["link"][l] > 0 /\ UNCHANGED <<topic, typed, playing, started>>
  BY DEF Inv, OpenLink
<1>2. Target("link") = "search" /\ "link" \in Kinds /\ l \in RequestsOf["link"]
  BY PartsFacts, RequestsFacts DEF Target
<1>3. CASE ok
  <2> DEFINE p == [promise EXCEPT !["search"] = Empty]
  <2>1. IsPromise("search", Empty) /\ Empty.st # "Deferred"  BY DEF IsPromise, Empty
  <2>2. Good(p, f)  BY <1>1, <1>2, <2>1, LandGood
  <2>3. NavigateFrom(LinkNav[l], p, f)  BY <1>3 DEF OpenLink, Landed
  <2>4. LinkNav[l] \in AllPages  BY PagesAssumption DEF AllPages
  <2>5. typed' \in Queries \cup {""} /\ started' \in BOOLEAN  BY <1>1 DEF Inv
  <2> HIDE DEF p, f
  <2> QED  BY <1>1, <2>2, <2>3, <2>4, <2>5, NavigateInv
<1>4. CASE ~ok
  <2> DEFINE v == Rejected(DefOf("link", l))
  <2>1. promise' = [promise EXCEPT !["search"] = v] /\ flying' = f /\ UNCHANGED <<nav, history>>
    BY <1>4 DEF OpenLink, Landed
  <2>2. DefOf("link", l) \in Searches  BY PagesAssumption DEF DefOf, Searches
  <2>3. IsPromise("search", v) /\ v.st # "Deferred"
    BY <2>2, RequestsFacts DEF IsPromise, Rejected
  <2> HIDE DEF v
  <2>4. Good(promise', flying') /\ \A n \in AllPages : OfNav(n, promise) => OfNav(n, promise')
    BY <1>1, <1>2, <2>1, <2>3, LandGood
  <2> QED  BY <1>1, <2>1, <2>4 DEF Inv
<1> QED  BY <1>3, <1>4

LEMMA ToggleLyricsInv == ASSUME Inv, ToggleLyrics PROVE Inv'
<1>1. UNCHANGED <<typed, topic, playing, started>>  BY DEF ToggleLyrics
<1>2. CASE nav = Lyrics
  <2> DEFINE at == NavigateBack([nav |-> nav, history |-> history])
  <2>1. at \in [nav : AllPages, history : Seq(AllPages)]  BY BackFacts DEF Inv
  <2>2. BackTo(at)  BY <1>2 DEF ToggleLyrics
  <2> HIDE DEF at
  <2> QED  BY <1>1, <2>1, <2>2, BackInv
<1>3. CASE nav # Lyrics
  <2> DEFINE ks == IF playing = "none" THEN {} ELSE {"lyrics"}
  <2>1. nav' = Lyrics /\ history' = Append(history, nav) /\ Ask(promise, flying, ks, playing)
    BY <1>3 DEF ToggleLyrics
  <2>2. Good(promise', flying')  BY <2>1, LyricsAsked DEF Inv
  <2>3. Lyrics \in AllPages  BY PagesAssumption DEF AllPages
  <2>4. OfNav(Lyrics, promise')  BY DEF OfNav, Lyrics, Nav, Details
  <2>5. history' \in Seq(AllPages)
    <3>1. nav \in AllPages /\ history \in Seq(AllPages)  BY DEF Inv
    <3> QED  BY <2>1, <3>1, AppendProperties
  <2> QED  BY <1>1, <2>1, <2>2, <2>3, <2>4, <2>5 DEF Inv
<1> QED  BY <1>2, <1>3

LEMMA NowPlayingInv == ASSUME Inv, NEW t \in Songs, NowPlaying(t) PROVE Inv'
<1> DEFINE ks == IF "Lyrics" \in visited THEN {"lyrics"} ELSE {}
<1>1. /\ Ask(promise, flying, ks, t) /\ playing' = t
      /\ UNCHANGED <<nav, history, typed, topic, started>>
  BY DEF NowPlaying
<1>2. t # "none"  BY PagesAssumption
<1>3. /\ Good(promise', flying')
      /\ \A n \in AllPages : OfNav(n, promise) => OfNav(n, promise')
  BY <1>1, <1>2, LyricsAsked
<1> QED  BY <1>1, <1>3 DEF Inv

LEMMA NextInv == Inv /\ [Next]_vars => Inv'
<1> SUFFICES ASSUME Inv, [Next]_vars PROVE Inv'
  OBVIOUS
<1>0. Good(promise, flying)  BY DEF Inv
<1>1. CASE \E n \in LastRoutes : Start(n)
  <2>1. PICK n \in LastRoutes : Start(n)  BY <1>1
  <2>2. n \in AllPages  BY PagesAssumption DEF AllPages
  <2>3. /\ NavigateFrom(n, promise, flying) /\ topic' = topic /\ playing' = playing
        /\ typed' \in Queries \cup {""} /\ started' \in BOOLEAN
    BY <2>1 DEF Start, Inv
  <2> QED  BY <1>0, <2>2, <2>3, NavigateInv
<1>2. CASE \E n \in Navs : Navigate(n)
  <2>1. PICK n \in Navs : Navigate(n)  BY <1>2
  <2>2. n \in AllPages  BY DEF AllPages
  <2>3. /\ NavigateFrom(n, promise, flying) /\ topic' = topic /\ playing' = playing
        /\ typed' \in Queries \cup {""} /\ started' \in BOOLEAN
    BY <2>1 DEF Navigate, Inv
  <2> QED  BY <1>0, <2>2, <2>3, NavigateInv
<1>3. CASE \E q \in Queries : Type(q)
  <2>1. PICK q \in Queries : Type(q)  BY <1>3
  <2> QED  BY <2>1 DEF Type, Inv
<1>4. CASE Submit
  <2> DEFINE n == Nav("SearchResults", typed)
  <2>1. typed \in Queries  BY <1>4 DEF Submit, Inv
  <2>2. n \in AllPages  BY <2>1 DEF AllPages, Nav
  <2>3. /\ NavigateFrom(n, promise, flying) /\ topic' = topic /\ playing' = playing
        /\ typed' \in Queries \cup {""} /\ started' \in BOOLEAN
    BY <1>4 DEF Submit, Inv
  <2> HIDE DEF n
  <2> QED  BY <1>0, <2>2, <2>3, NavigateInv
<1>5. CASE \E twice \in BOOLEAN : Back(twice)
  <2>1. PICK twice \in BOOLEAN : Back(twice)  BY <1>5
  <2> DEFINE once == NavigateBack([nav |-> nav, history |-> history])
             at == IF twice THEN NavigateBack(once) ELSE once
  <2>2. once \in [nav : AllPages, history : Seq(AllPages)]  BY BackFacts DEF Inv
  <2>3. NavigateBack(once) \in [nav : AllPages, history : Seq(AllPages)]  BY <2>2, BackFacts
  <2>4. BackTo(at) /\ UNCHANGED <<topic, typed, playing, started>>  BY <2>1 DEF Back
  <2>5. at \in [nav : AllPages, history : Seq(AllPages)]  BY <2>2, <2>3
  <2> HIDE DEF at, once
  <2> QED  BY <2>4, <2>5, BackInv
<1>6. CASE RefreshPlaylist
  <2>1. "PlaylistDetail" \in Details  BY DEF Details
  <2> QED  BY <1>6, <2>1, PartsFacts, ForgetInv DEF RefreshPlaylist
<1>7. CASE RefreshAll
  <2> DEFINE parts == UNION {PartsOf(r) : r \in Details \ {"Recommendations"}}
  <2>1. parts \in SUBSET Parts
        /\ \A r \in Details : PartsOf(r) \subseteq parts \/ PartsOf(r) \cap parts = {}
    BY PartsFacts
  <2>2. Forget(parts)  BY <1>7 DEF RefreshAll
  <2> HIDE DEF parts
  <2> QED  BY <2>1, <2>2, ForgetInv
<1>8. CASE ToggleLyrics  BY <1>8, ToggleLyricsInv
<1>9. CASE \E t \in Songs : NowPlaying(t)  BY <1>9, NowPlayingInv
<1>10. CASE \E s \in Parts : Retry(s)  BY <1>10, RetryInv
<1>11. CASE RefreshDetail  BY <1>11, RefreshDetailInv
<1>12. CASE \E t \in Topics \cup {"all"} : SetTopic(t)  BY <1>12, SetTopicInv
<1>13. CASE \E ps \in Params : UpdateParams(ps)  BY <1>13, UpdateParamsInv
<1>14. CASE \E k \in Parts : AnswerAny(k)  BY <1>14, AnswerInv DEF AnswerAny
<1>15. CASE OpenLinkAny  BY <1>15, OpenLinkInv DEF OpenLinkAny
<1>16. CASE UNCHANGED vars  BY <1>16 DEF vars, Inv
<1> QED
  BY <1>1, <1>2, <1>3, <1>4, <1>5, <1>6, <1>7, <1>8, <1>9, <1>10, <1>11, <1>12, <1>13, <1>14, <1>15, <1>16
  DEF Next

\* A spinner always has a request on its way that will end it, whatever was
\* asked for again, forgotten or answered late (data/promise.rs).
THEOREM SpinnersAreAwaited == Spec => []DeferredIsAsked
<1>1. Inv => DeferredIsAsked  BY DEF Inv, Good, Awaited, DeferredIsAsked
<1> QED  BY <1>1, InitInv, NextInv, PTL DEF Spec

\* All parts of the page that is shown are about what the page is about, or
\* wait for that (controller/nav.rs).
THEOREM PagesShowTheirNav == Spec => []PageIsOfNav
<1>1. Inv => PageIsOfNav  BY DEF Inv, OfNav, PageIsOfNav
<1> QED  BY <1>1, InitInv, NextInv, PTL DEF Spec

-----------------------------------------------------------------------------
\* What Without() computes, one entry after the other.
Keeping(s, x, k) ==
  /\ k[0] = <<>>
  /\ \A i \in 1..Len(s) : k[i] = IF s[i] = x THEN k[i - 1] ELSE Append(k[i - 1], s[i])
  /\ L!Without(s, x) = k[Len(s)]

LEMMA WithoutIs ==
  ASSUME NEW S, NEW s \in Seq(S), NEW x
  PROVE  \E k \in [0..Len(s) -> Seq(S)] : Keeping(s, x, k)
<1> DEFINE step == [p \in (1..Len(s)) \X Seq(S) |-> IF s[p[1]] = x THEN p[2] ELSE Append(p[2], s[p[1]])]
<1>1. \A i \in 1..Len(s), v \in Seq(S) : step[<<i, v>>] \in Seq(S) /\ step[<<i, v>>] = IF s[i] = x THEN v ELSE Append(v, s[i])
  OBVIOUS
<1> DEFINE a == <<>>
           U == Seq(S)
           n == Len(s)
<1>0. a \in U /\ n \in Nat OBVIOUS
<1>11. \A i \in 1..n, v \in U : step[<<i, v>>] \in U
  BY <1>1
<1> HIDE DEF step, a, U, n
<1>2. PICK f \in [0..n -> U] : f[0] = a /\ \A i \in 1..n : f[i] = step[<<i, f[i - 1]>>]
  <2>1. \E f \in [0..n -> U] : Recurs(f, n, a, step)
    BY <1>0, <1>11, Recursion, Zenon
  <2> QED
    BY <2>1, Zenon DEF Recurs
<1>21. \A i \in 1..n : i - 1 \in 0..n /\ i \in 0..n /\ f[i - 1] \in U
  BY <1>0, <1>2
<1>22. \A i \in 1..n : f[i] = IF s[i] = x THEN f[i - 1] ELSE Append(f[i - 1], s[i])
  BY <1>1, <1>2, <1>21 DEF n, U
<1>23. f[0] = <<>>
  BY <1>2 DEF a
<1> DEFINE Is(k) == k = [i \in 0..Len(s) |-> IF i = 0 THEN <<>> ELSE IF s[i] = x THEN k[i - 1] ELSE Append(k[i - 1], s[i])]
<1>3. Is(f)
  <2> DEFINE g(i) == IF i = 0 THEN <<>> ELSE IF s[i] = x THEN f[i - 1] ELSE Append(f[i - 1], s[i])
  <2>1. \A i \in 0..n : i = 0 \/ i \in 1..n
    BY <1>0
  <2>2. \A i \in 0..n : f[i] = g(i)
    BY <1>22, <1>23, <2>1
  <2>3. f = [i \in 0..n |-> f[i]]
    BY <1>2
  <2> HIDE DEF g
  <2>4. f = [i \in 0..n |-> g(i)]
    BY <2>2, <2>3
  <2> QED BY <2>4, Zenon DEF g, n
<1> DEFINE k == CHOOSE k : Is(k)
<1>4. Is(k) BY <1>3
<1>5. L!Without(s, x) = k[Len(s)]
  BY Zenon DEF L!Without
<1> HIDE DEF k
<1>6. k \in [0..n -> U] /\ k = f
  <2>0. /\ k[0] = <<>> /\ DOMAIN k = 0..n
        /\ \A i \in 1..n : k[i] = IF s[i] = x THEN k[i - 1] ELSE Append(k[i - 1], s[i])
        /\ k = [i \in 0..n |-> k[i]]
    <3>1. k = [i \in 0..n |-> IF i = 0 THEN <<>> ELSE IF s[i] = x THEN k[i - 1] ELSE Append(k[i - 1], s[i])]
      BY <1>4, Zenon DEF n
    <3> HIDE DEF Is
    <3>2. DOMAIN k = 0..n /\ \A i \in 0..n : k[i] = IF i = 0 THEN <<>> ELSE IF s[i] = x THEN k[i - 1] ELSE Append(k[i - 1], s[i])
      BY <3>1, Zenon
    <3>3. k = [i \in 0..n |-> k[i]]
      BY <3>1, <3>2, Zenon
    <3>4. 0 \in 0..n /\ \A i \in 1..n : i \in 0..n /\ i # 0
      BY <1>0
    <3> QED BY <3>2, <3>3, <3>4, Zenon
  <2> HIDE DEF Is
  <2> DEFINE T == {m \in Nat : m <= n => k[m] = f[m]}
  <2>1. 0 \in T BY <1>23, <2>0
  <2>2. ASSUME NEW m \in Nat, m \in T, m + 1 <= n PROVE k[m + 1] = f[m + 1]
    <3>1. m + 1 \in 1..n /\ (m + 1) - 1 = m /\ k[m] = f[m] BY <1>0, <2>2
    <3> QED BY <1>22, <2>0, <3>1
  <2>3. \A m \in Nat : m \in T => m + 1 \in T
    BY <2>2
  <2>4. Nat \subseteq T
    <3> HIDE DEF T
    <3> QED BY <2>1, <2>3, Induction
  <2>5. \A i \in 0..n : k[i] = f[i]
    BY <1>0, <2>4
  <2> QED BY <1>2, <2>0, <2>5
<1> QED BY <1>0, <1>22, <1>23, <1>5, <1>6 DEF n, U, Keeping

Apart(s) == \A i, j \in DOMAIN s : s[i] = s[j] => i = j

\* A removal takes every copy out, and nothing else.
LEMMA WithoutFacts ==
  ASSUME NEW S, NEW s \in Seq(S), NEW x
  PROVE  /\ L!Without(s, x) \in Seq(S) /\ L!Ids(L!Without(s, x)) = L!Ids(s) \ {x}
         /\ Apart(s) => Apart(L!Without(s, x))
<1>0. PICK k \in [0..Len(s) -> Seq(S)] : Keeping(s, x, k)
  BY WithoutIs
<1>1. /\ k[0] = <<>>
      /\ \A i \in 1..Len(s) : k[i] = IF s[i] = x THEN k[i - 1] ELSE Append(k[i - 1], s[i])
      /\ L!Without(s, x) = k[Len(s)]
  BY <1>0 DEF Keeping
<1> DEFINE n == Len(s)
           Until(i) == {s[m] : m \in 1..i}
           T == {i \in Nat : i <= n =>
                   /\ L!Ids(k[i]) = Until(i) \ {x}
                   /\ Apart(s) => Apart(k[i])}
<1>2. n \in Nat /\ DOMAIN s = 1..n /\ \A i \in 1..n : s[i] \in S
  OBVIOUS
<1>3. 0 \in T
  BY <1>1 DEF L!Ids, Apart
<1>4. ASSUME NEW i \in Nat, i \in T, i + 1 <= n
      PROVE  /\ L!Ids(k[i + 1]) = Until(i + 1) \ {x}
             /\ Apart(s) => Apart(k[i + 1])
  <2>1. /\ i + 1 \in 1..n /\ (i + 1) - 1 = i /\ i \in 0..n /\ k[i] \in Seq(S) /\ s[i + 1] \in S
        /\ k[i + 1] = IF s[i + 1] = x THEN k[i] ELSE Append(k[i], s[i + 1])
    BY <1>1, <1>2, <1>4
  <2>2. L!Ids(k[i]) = Until(i) \ {x} /\ (Apart(s) => Apart(k[i]))
    BY <1>2, <1>4
  <2>3. Until(i + 1) = Until(i) \cup {s[i + 1]}
    <3>1. \A m \in 1..(i + 1) : m \in 1..i \/ m = i + 1
      OBVIOUS
    <3>2. \A m \in 1..i : m \in 1..(i + 1)
      OBVIOUS
    <3>3. i + 1 \in 1..(i + 1)
      OBVIOUS
    <3> QED BY <3>1, <3>2, <3>3
  <2>4. CASE s[i + 1] = x
    BY <2>1, <2>2, <2>3, <2>4
  <2>5. CASE s[i + 1] # x
    <3> DEFINE a == Append(k[i], s[i + 1])
    <3>1. /\ DOMAIN a = 1..(Len(k[i]) + 1) /\ DOMAIN k[i] = 1..Len(k[i]) /\ Len(k[i]) \in Nat
          /\ a[Len(k[i]) + 1] = s[i + 1] /\ \A m \in 1..Len(k[i]) : a[m] = k[i][m]
      BY <2>1
    <3> HIDE DEF a
    <3>2. L!Ids(a) = L!Ids(k[i]) \cup {s[i + 1]}
      <4>1. \A m \in DOMAIN a : m = Len(k[i]) + 1 \/ m \in DOMAIN k[i]
        BY <3>1
      <4>2. \A m \in DOMAIN k[i] : m \in DOMAIN a
        BY <3>1
      <4>3. Len(k[i]) + 1 \in DOMAIN a
        BY <3>1
      <4> QED BY <3>1, <4>1, <4>2, <4>3, SMTT(30) DEF L!Ids
    <3>3. ASSUME Apart(s) PROVE Apart(a)
      <4>1. s[i + 1] \notin Until(i)
        <5>1. \A m \in 1..i : m \in DOMAIN s /\ m # i + 1
          BY <1>2, <2>1
        <5>2. i + 1 \in DOMAIN s
          BY <1>2, <2>1
        <5> QED BY <3>3, <5>1, <5>2 DEF Apart
      <4>2. s[i + 1] \notin L!Ids(k[i])
        BY <2>2, <4>1
      <4>3. \A m \in 1..Len(k[i]) : k[i][m] # s[i + 1]
        BY <3>1, <4>2 DEF L!Ids
      <4>4. \A m \in DOMAIN a : m = Len(k[i]) + 1 \/ m \in DOMAIN k[i]
        BY <3>1
      <4> QED BY <2>2, <3>1, <3>3, <4>3, <4>4 DEF Apart
    <3> QED BY <2>1, <2>2, <2>3, <2>5, <3>2, <3>3 DEF a
  <2> QED BY <2>4, <2>5
<1>5. Nat \subseteq T
  <2>1. ASSUME NEW i \in Nat, i \in T PROVE i + 1 \in T
    <3> DEFINE Right(m) == L!Ids(k[m]) = Until(m) \ {x} /\ (Apart(s) => Apart(k[m]))
    <3>1. i + 1 <= n => Right(i + 1)
      BY <1>4, <2>1
    <3>2. i + 1 \in Nat
      OBVIOUS
    <3> HIDE DEF Right
    <3>3. i + 1 \in {m \in Nat : m <= n => Right(m)}
      BY <3>1, <3>2
    <3> QED BY <3>3 DEF Right
  <2> HIDE DEF T
  <2> QED BY <1>3, <2>1, Induction
<1>6. L!Ids(k[n]) = Until(n) \ {x} /\ (Apart(s) => Apart(k[n]))
  <2>1. n \in T BY <1>2, <1>5
  <2>2. n <= n BY <1>2
  <2> QED BY <2>1, <2>2
<1>7. Until(n) = L!Ids(s)
  BY <1>2 DEF L!Ids
<1> QED BY <1>1, <1>2, <1>6, <1>7

-----------------------------------------------------------------------------
\* The promise of a list, the pages and what threads do.
PageSet == [items : Seq(Savable), total : Nat]
ListPromises ==
  {L!Empty} \cup [st : {"Deferred", "Rejected"}, def : {"list"}]
    \cup [st : {"Resolved"}, def : {"list"}, val : [list : Seq(Savable), set : SUBSET Savable]]
Changes ==
  {r \in [op : {"save", "unsave"}, kind : LibraryKinds, item : Savable, at : {"call", "clear", "answer"}, ok : BOOLEAN] :
     r.at # "answer" => r.ok}
Loads ==
  [op : {"load"}, kind : LibraryKinds, at : {"read", "store", "answer"}, off : Nat, got : Seq(Savable),
   page : PageSet, ok : BOOLEAN]

LibraryTyped ==
  /\ server \in [LibraryKinds -> Seq(Savable)] /\ \A k \in LibraryKinds : Apart(server[k])
  /\ DOMAIN cache = LibraryKinds
  /\ \A k \in LibraryKinds : DOMAIN cache[k] \subseteq Nat /\ \A o \in DOMAIN cache[k] : cache[k][o] \in PageSet
  /\ saved \in [LibraryKinds -> ListPromises]
  /\ threads \in [Threads -> {L!Idle} \cup Changes \cup Loads]
  /\ orderly \in BOOLEAN

\* What a thread r does is about the list of kind k.
Of(k, r) == r.op # "idle" /\ r.kind = k

\* The page at an offset of the list s, and what comes before an offset.
PageIn(s, o) ==
  [items |-> SubSeq(s, o + 1, IF o + LibraryPageSize < Len(s) THEN o + LibraryPageSize ELSE Len(s)), total |-> Len(s)]
Prefix(s, n) == SubSeq(s, 1, IF n < Len(s) THEN n ELSE Len(s))

\* What holds of a kind k while nothing overlaps, when the service has the list s, the
\* cache the pages c, the promise is p, the threads do what T says and the alerts are al.
\* All that is under way comes from one command.
Alike(k, T) ==
  \A t, u \in Threads : Of(k, T[t]) /\ Of(k, T[u]) =>
    /\ T[t].op = T[u].op /\ (T[t].op # "load" => T[t].item = T[u].item)
    /\ k # "shows" => t = u

\* The cached pages are those of the service, but between a change and their removal.
CachedRight(k, s, c, T) ==
  (\A t \in Threads : Of(k, T[t]) => T[t].at # "clear") => \A o \in DOMAIN c : c[o] = PageIn(s, o)

\* A list that is loaded is so far that of the service.
LoadedRight(k, s, T) ==
  \A t \in Threads : Of(k, T[t]) /\ T[t].op = "load" =>
    /\ T[t].at = "store" => T[t].page = PageIn(s, T[t].off)
    /\ T[t].at # "answer" => T[t].got = Prefix(s, T[t].off)
    /\ T[t].at = "answer" /\ T[t].ok => T[t].got = s

\* What was sent and has not failed is done.
ChangedRight(k, s, T) ==
  \A t \in Threads : Of(k, T[t]) /\ T[t].op # "load" /\ T[t].at # "call" /\ T[t].ok =>
    (T[t].op = "save" <=> T[t].item \in L!Ids(s))

\* A list that is shown differs from that of the service by the change under way.
Expected(k, s, v, r) ==
  /\ v.set = IF r.op = "save" THEN L!Ids(s) \cup {r.item} ELSE L!Ids(s) \ {r.item}
  /\ k # "shows" =>
       v.list = IF r.at # "call" THEN s ELSE IF r.op = "save" THEN <<r.item>> \o s ELSE L!Without(s, r.item)
  /\ k # "shows" /\ r.at = "call" /\ r.op = "save" => r.item \notin L!Ids(s)
ShownRight(k, s, p, T, al) ==
  /\ "error" \notin al /\ L!IsResolved(p)
  /\ \A t \in Threads : Of(k, T[t]) /\ T[t].op # "load" => T[t].ok
  => /\ (\A t \in Threads : Of(k, T[t]) => T[t].op = "load") =>
          p.val.set = L!Ids(s) /\ (k # "shows" => p.val.list = s)
     /\ \A t \in Threads : Of(k, T[t]) /\ T[t].op # "load" => Expected(k, s, p.val, T[t])

Sound(k, s, c, p, T, al) ==
  /\ Alike(k, T) /\ CachedRight(k, s, c, T) /\ LoadedRight(k, s, T)
  /\ ChangedRight(k, s, T) /\ ShownRight(k, s, p, T, al)

LibraryInv ==
  /\ LibraryTyped
  /\ orderly => \A k \in LibraryKinds : Sound(k, server[k], cache[k], saved[k], threads, alerts)

\* What is done for another kind changes nothing.
LEMMA Elsewhere ==
  ASSUME NEW k, NEW s, NEW c, NEW p, NEW T, NEW al, Sound(k, s, c, p, T, al),
         NEW U, NEW am, al \subseteq am,
         \A t \in Threads : U[t] = T[t] \/ (~Of(k, T[t]) /\ ~Of(k, U[t]))
  PROVE  Sound(k, s, c, p, U, am)
<1>1. \A t \in Threads : Of(k, U[t]) => U[t] = T[t]
  OBVIOUS
<1>2. \A t \in Threads : Of(k, T[t]) => U[t] = T[t]
  OBVIOUS
<1>3. Alike(k, U)
  BY <1>1 DEF Sound, Alike
<1>4. CachedRight(k, s, c, U)
  BY <1>2 DEF Sound, CachedRight
<1>5. LoadedRight(k, s, U) /\ ChangedRight(k, s, U)
  BY <1>1 DEF Sound, LoadedRight, ChangedRight
<1>6. ShownRight(k, s, p, U, am)
  BY <1>1, <1>2 DEF Sound, ShownRight
<1> QED BY <1>3, <1>4, <1>5, <1>6 DEF Sound

\* Pages put together.
LEMMA PrefixJoins ==
  ASSUME NEW S, NEW s \in Seq(S), NEW o \in Nat, LibraryPageSize \in Nat \ {0}
  PROVE  Prefix(s, o) \o PageIn(s, o).items = Prefix(s, o + LibraryPageSize)
<1> DEFINE n == Len(s)
           m == IF o + LibraryPageSize < n THEN o + LibraryPageSize ELSE n
           i == IF o < n THEN o ELSE n
<1>1. n \in Nat /\ m \in 0..n /\ i \in 0..n /\ PageIn(s, o).items = SubSeq(s, o + 1, m) /\ Prefix(s, o) = SubSeq(s, 1, i)
      /\ Prefix(s, o + LibraryPageSize) = SubSeq(s, 1, m)
  BY DEF PageIn, Prefix
<1> HIDE DEF n, m, i
<1>2. CASE o < n
  <2>1. i = o /\ o \in 0..n /\ m \in o..n /\ 1 \in 1..(n + 1) BY <1>1, <1>2 DEF i, m
  <2>2. SubSeq(s, 1, o) \o SubSeq(s, o + 1, m) = SubSeq(s, 1, m)
    BY <2>1, ConcatAdjacentSubSeq DEF n
  <2> QED BY <1>1, <2>1, <2>2
<1>3. CASE n <= o
  <2>1. i = n /\ m = n /\ n < o + 1 BY <1>1, <1>3 DEF i, m
  <2>2. SubSeq(s, o + 1, n) = <<>> BY <1>1, <2>1, SubSeqEmpty
  <2>3. SubSeq(s, 1, n) = s BY SubSeqProperties DEF n
  <2>4. s \o <<>> = s BY ConcatEmptySeq
  <2> QED BY <1>1, <2>1, <2>2, <2>3, <2>4
<1> QED BY <1>1, <1>2, <1>3

LEMMA PrefixFacts ==
  ASSUME NEW S, NEW s \in Seq(S), NEW o \in Nat, LibraryPageSize \in Nat \ {0}
  PROVE  /\ Prefix(s, o) \in Seq(S) /\ Prefix(s, 0) = <<>>
         /\ PageIn(s, o) \in [items : Seq(S), total : Nat]
         /\ Len(s) <= o => Prefix(s, o) = s
<1> DEFINE n == Len(s)
           m == IF o + LibraryPageSize < n THEN o + LibraryPageSize ELSE n
           i == IF o < n THEN o ELSE n
<1>1. n \in Nat /\ m \in 0..n /\ i \in 0..n /\ PageIn(s, o).items = SubSeq(s, o + 1, m) /\ Prefix(s, o) = SubSeq(s, 1, i)
      /\ PageIn(s, o).total = n
  BY DEF PageIn, Prefix
<1>2. \A j \in 1..n : s[j] \in S
  OBVIOUS
<1>3. SubSeq(s, o + 1, m) \in Seq(S) /\ SubSeq(s, 1, i) \in Seq(S)
  <2>1. \A j \in (o + 1)..m : s[j] \in S BY <1>1, <1>2
  <2>2. \A j \in 1..i : s[j] \in S BY <1>1, <1>2
  <2> QED BY <1>1, <2>1, <2>2, SubSeqProperties
<1>4. Len(s) <= o => i = n /\ SubSeq(s, 1, n) = s
  BY SubSeqProperties
<1>5. SubSeq(s, 1, 0) = <<>>
  BY <1>1
<1> HIDE DEF n, m, i
<1>6. PageIn(s, o) \in [items : Seq(S), total : Nat]
  BY <1>1, <1>3 DEF PageIn
<1>7. Prefix(s, 0) = <<>>
  BY <1>1, <1>5 DEF Prefix
<1>8. Len(s) <= o => Prefix(s, o) = s
  BY <1>4 DEF Prefix, n
<1> QED BY <1>1, <1>3, <1>6, <1>7, <1>8

-----------------------------------------------------------------------------
LEMMA LibraryCounts ==
  /\ \A S : L!Cardinality(S) = Cardinality(S)
  /\ \A S : L!IsFiniteSet(S) <=> IsFiniteSet(S)
BY DEF Cardinality, L!Cardinality, IsFiniteSet, L!IsFiniteSet

\* A command that starts threads: each does r.
Starts(k, h, r) ==
  \E ts \in SUBSET {t \in Threads : threads[t] = L!Idle} :
    /\ Cardinality(ts) = h
    /\ threads' = [t \in Threads |-> IF t \in ts THEN r ELSE threads[t]]
    /\ orderly' = (orderly /\ (h = 0 \/ L!Busy(k) = {}))

LEMMA LoadStarts ==
  ASSUME NEW k \in LibraryKinds, NEW h \in Nat, LibraryTyped, L!Load(k, h)
  PROVE  /\ Starts(k, h, L!Loader(k))
         /\ saved' = [saved EXCEPT ![k] = IF h = 0 THEN saved[k] ELSE L!Deferred("list")]
<1>1. /\ Starts(k, h, L!Loader(k))
      /\ saved' = [saved EXCEPT ![k] = L!Times(h, LAMBDA p : L!Deferred("list"), saved[k])]
  BY Zenon DEF L!Load, L!Handle, Starts, L!Cardinality, Cardinality
<1>2. L!Times(h, LAMBDA p : L!Deferred("list"), saved[k]) = IF h = 0 THEN saved[k] ELSE L!Deferred("list")
  BY DEF L!Times
<1> QED BY <1>1, <1>2

\* What a change does to the promise: once, or twice where two pages handle it.
Twice(h, once, twice) == IF h = 1 THEN once ELSE twice
LEMMA SaveStarts ==
  ASSUME NEW k \in LibraryKinds, NEW x \in Savable, LibraryTyped, L!Save(k, x)
  PROVE  /\ ~L!IsSaved(k, x)
         /\ \E h \in {Cardinality(L!Handlers(k))} :
              /\ Starts(k, h, L!Call("save", k, x))
              /\ saved' = [saved EXCEPT ![k] =
                   IF h = 0 \/ ~L!IsResolved(saved[k]) THEN saved[k]
                   ELSE L!Resolved(saved[k].def, Twice(h, L!Added(saved[k].val, x), L!Added(L!Added(saved[k].val, x), x)))]
         /\ UNCHANGED <<server, cache, alerts>>
<1> DEFINE h == Cardinality(L!Handlers(k))
           p == saved[k]
<1>1. /\ Starts(k, h, L!Call("save", k, x)) /\ ~L!IsSaved(k, x) /\ UNCHANGED <<server, cache, alerts>>
      /\ saved' = [saved EXCEPT ![k] = L!Times(h, LAMBDA q : L!ResolvedMut(q, LAMBDA c : L!Added(c, x)), p)]
  BY Zenon DEF L!Save, L!Handle, Starts, L!Cardinality, Cardinality
<1>2. L!Times(h, LAMBDA q : L!ResolvedMut(q, LAMBDA c : L!Added(c, x)), p) =
        IF h = 0 \/ ~L!IsResolved(p) THEN p
        ELSE L!Resolved(p.def, Twice(h, L!Added(p.val, x), L!Added(L!Added(p.val, x), x)))
  BY DEF L!Times, L!ResolvedMut, Twice, L!IsResolved, L!Resolved
<1> QED BY <1>1, <1>2

LEMMA UnsaveStarts ==
  ASSUME NEW k \in LibraryKinds, NEW x \in Savable, LibraryTyped, L!Unsave(k, x)
  PROVE  /\ L!IsSaved(k, x)
         /\ \E h \in {Cardinality(L!Handlers(k))} :
              /\ Starts(k, h, L!Call("unsave", k, x))
              /\ saved' = [saved EXCEPT ![k] =
                   IF h = 0 \/ ~L!IsResolved(saved[k]) THEN saved[k]
                   ELSE L!Resolved(saved[k].def, Twice(h, L!Removed(saved[k].val, x), L!Removed(L!Removed(saved[k].val, x), x)))]
         /\ UNCHANGED <<server, cache, alerts>>
<1> DEFINE h == Cardinality(L!Handlers(k))
           p == saved[k]
<1>1. /\ Starts(k, h, L!Call("unsave", k, x)) /\ L!IsSaved(k, x) /\ UNCHANGED <<server, cache, alerts>>
      /\ saved' = [saved EXCEPT ![k] = L!Times(h, LAMBDA q : L!ResolvedMut(q, LAMBDA c : L!Removed(c, x)), p)]
  BY Zenon DEF L!Unsave, L!Handle, Starts, L!Cardinality, Cardinality
<1>2. L!Times(h, LAMBDA q : L!ResolvedMut(q, LAMBDA c : L!Removed(c, x)), p) =
        IF h = 0 \/ ~L!IsResolved(p) THEN p
        ELSE L!Resolved(p.def, Twice(h, L!Removed(p.val, x), L!Removed(L!Removed(p.val, x), x)))
  BY DEF L!Times, L!ResolvedMut, Twice, L!IsResolved, L!Resolved
<1> QED BY <1>1, <1>2

\* Of the songs and of the albums there is one page.
LEMMA OnePage ==
  ASSUME NEW k \in LibraryKinds, L!LibraryAssumption
  PROVE  LET n == Cardinality(L!Handlers(k))
             m == Cardinality(L!Handlers(k) \cup {L!PageOf(k)})
         IN /\ n \in Nat /\ m \in Nat \ {0}
            /\ k # "shows" => n \in {0, 1} /\ m = 1
<1> DEFINE pages == {"SavedTracks", "SavedAlbums", "Home", "Shows"}
<1>1. IsFiniteSet(pages)
  <2>1. IsFiniteSet({"SavedTracks"}) /\ IsFiniteSet({"SavedAlbums"}) /\ IsFiniteSet({"Home"}) /\ IsFiniteSet({"Shows"})
    BY FS_Singleton
  <2>2. IsFiniteSet({"Home"} \cup {"Shows"})
    BY <2>1, FS_Union
  <2>3. IsFiniteSet({"SavedAlbums"} \cup ({"Home"} \cup {"Shows"}))
    BY <2>1, <2>2, FS_Union
  <2>4. IsFiniteSet({"SavedTracks"} \cup ({"SavedAlbums"} \cup ({"Home"} \cup {"Shows"})))
    BY <2>1, <2>3, FS_Union
  <2>5. pages = {"SavedTracks"} \cup ({"SavedAlbums"} \cup ({"Home"} \cup {"Shows"}))
    OBVIOUS
  <2> QED BY <2>4, <2>5
<1>2. k \in {"tracks", "albums", "shows"}
  BY DEF L!LibraryAssumption
<1>3. L!Handlers(k) \subseteq pages /\ L!Handlers(k) \cup {L!PageOf(k)} \subseteq pages
  BY <1>2 DEF L!Handlers, L!PageOf
<1>4. IsFiniteSet(L!Handlers(k)) /\ IsFiniteSet(L!Handlers(k) \cup {L!PageOf(k)})
  BY <1>1, <1>3, FS_Subset
<1>5. /\ Cardinality(L!Handlers(k)) \in Nat /\ Cardinality(L!Handlers(k) \cup {L!PageOf(k)}) \in Nat
      /\ Cardinality(L!Handlers(k) \cup {L!PageOf(k)}) # 0
  <2>1. L!Handlers(k) \cup {L!PageOf(k)} # {}
    OBVIOUS
  <2> QED BY <1>4, <2>1, FS_CardinalityType, FS_EmptySet
<1>6. ASSUME k # "shows" PROVE Cardinality(L!Handlers(k)) \in {0, 1} /\ Cardinality(L!Handlers(k) \cup {L!PageOf(k)}) = 1
  <2>1. L!Handlers(k) \subseteq {L!PageOf(k)}
    BY <1>2, <1>6 DEF L!Handlers, L!PageOf
  <2>2. L!Handlers(k) = {} \/ L!Handlers(k) = {L!PageOf(k)}
    BY <2>1
  <2>3. L!Handlers(k) \cup {L!PageOf(k)} = {L!PageOf(k)}
    BY <2>1
  <2>4. Cardinality({}) = 0 /\ Cardinality({L!PageOf(k)}) = 1
    BY FS_EmptySet, FS_Singleton
  <2> QED BY <2>2, <2>3, <2>4
<1> QED BY <1>5, <1>6

\* The threads ts are those that a command has started.
Started(k, h, r, ts) ==
  /\ threads' = [t \in Threads |-> IF t \in ts THEN r ELSE threads[t]]
  /\ \A t \in ts : threads[t] = L!Idle
  /\ h = 0 <=> ts = {}
  /\ k # "shows" => \A t, u \in ts : t = u
  /\ orderly' => orderly /\ (h # 0 => \A t \in Threads : ~Of(k, threads[t]))
LEMMA StartsFacts ==
  ASSUME LibraryTyped, L!LibraryAssumption, NEW k \in LibraryKinds, NEW h \in Nat, k # "shows" => h \in {0, 1},
         NEW r, Starts(k, h, r)
  PROVE  \E ts \in SUBSET Threads : Started(k, h, r, ts)
<1>1. PICK ts \in SUBSET {t \in Threads : threads[t] = L!Idle} :
        /\ Cardinality(ts) = h
        /\ threads' = [t \in Threads |-> IF t \in ts THEN r ELSE threads[t]]
        /\ orderly' = (orderly /\ (h = 0 \/ L!Busy(k) = {}))
  BY DEF Starts
<1>2. ts \in SUBSET Threads /\ \A t \in ts : threads[t] = L!Idle
  OBVIOUS
<1>3. IsFiniteSet(ts)
  BY <1>2, FS_Subset, LibraryCounts DEF L!LibraryAssumption
<1>4. h = 0 <=> ts = {}
  BY <1>1, <1>3, FS_EmptySet
<1>5. ASSUME k # "shows" PROVE \A t, u \in ts : t = u
  <2>1. CASE h = 0
    BY <1>4, <2>1
  <2>2. CASE h = 1
    <3>1. \E x : ts = {x}
      BY <1>1, <1>3, <2>2, FS_Singleton
    <3> QED BY <3>1
  <2> QED BY <1>5, <2>1, <2>2
<1>6. ASSUME orderly' PROVE orderly /\ (h # 0 => \A t \in Threads : ~Of(k, threads[t]))
  BY <1>1, <1>6 DEF L!Busy, Of, LibraryTyped
<1>7. threads' = [t \in Threads |-> IF t \in ts THEN r ELSE threads[t]]
  BY <1>1
<1>8. Started(k, h, r, ts)
  BY <1>2, <1>4, <1>5, <1>6, <1>7 DEF Started
<1> QED BY <1>2, <1>8

\* A command has started its threads, and nothing else of its kind is under way.
LEMMA BegunSound ==
  ASSUME NEW k, NEW s, NEW c, NEW p, NEW T, NEW al, Sound(k, s, c, p, T, al),
         \A t \in Threads : ~Of(k, T[t]),
         NEW ts \in SUBSET Threads, ts # {}, k # "shows" => \A t, u \in ts : t = u,
         NEW U, NEW r, \A t \in Threads : U[t] = IF t \in ts THEN r ELSE T[t],
         Of(k, r), r.op = "load" => r.at = "read" /\ r.got = Prefix(s, r.off),
         r.op # "load" => r.at = "call",
         NEW q, "error" \notin al /\ L!IsResolved(q) => r.op # "load" /\ Expected(k, s, q.val, r)
  PROVE  Sound(k, s, c, q, U, al)
<1>1. \A t \in Threads : Of(k, U[t]) => t \in ts /\ U[t] = r
  OBVIOUS
<1>2. PICK v \in Threads : v \in ts /\ U[v] = r
  OBVIOUS
<1>3. Alike(k, U)
  BY <1>1 DEF Alike
<1>4. CachedRight(k, s, c, U)
  BY DEF Sound, CachedRight
<1>5. LoadedRight(k, s, U)
  BY <1>1 DEF LoadedRight
<1>6. ChangedRight(k, s, U)
  BY <1>1 DEF ChangedRight
<1>7. ShownRight(k, s, q, U, al)
  BY <1>1, <1>2 DEF ShownRight
<1> QED BY <1>3, <1>4, <1>5, <1>6, <1>7 DEF Sound

-----------------------------------------------------------------------------
\* A step of the thread t, which was doing r about the kind k.
StepOf(k, T, t, U) == t \in Threads /\ Of(k, T[t]) /\ \A u \in Threads \ {t} : U[u] = T[u]

NeverClears(T) == \A t \in Threads : T[t].op = "load" => T[t].at # "clear"
LoadIsRight(k, s, u) ==
  /\ Of(k, u) /\ u.op = "load"
  /\ u.at = "store" => u.page = PageIn(s, u.off)
  /\ u.at # "answer" => u.got = Prefix(s, u.off)
  /\ u.at = "answer" /\ u.ok => u.got = s

LEMMA LoadGoesOn ==
  ASSUME NEW k, NEW s, NEW c, NEW p, NEW T, NEW al, Sound(k, s, c, p, T, al),
         NEW t, NEW U, StepOf(k, T, t, U), T[t].op = "load", NeverClears(T), LoadIsRight(k, s, U[t])
  PROVE  Sound(k, s, c, p, U, al)
<1>1. \A u \in Threads : Of(k, T[u]) => T[u].op = "load"
  BY DEF Sound, Alike, StepOf
<1>2. \A u \in Threads : u = t \/ U[u] = T[u]
  BY DEF StepOf
<1>3. \A u \in Threads : Of(k, U[u]) => U[u].op = "load" /\ Of(k, T[u])
  BY <1>1, <1>2 DEF StepOf, LoadIsRight
<1>4. Alike(k, U)
  BY <1>3 DEF Sound, Alike
<1>5. CachedRight(k, s, c, U)
  BY <1>1 DEF Sound, CachedRight, NeverClears
<1>6. LoadedRight(k, s, U)
  BY <1>2 DEF Sound, LoadedRight, LoadIsRight
<1>7. ChangedRight(k, s, U)
  BY <1>3 DEF ChangedRight
<1>8. ShownRight(k, s, p, U, al)
  BY <1>1, <1>3 DEF Sound, ShownRight
<1> QED BY <1>4, <1>5, <1>6, <1>7, <1>8 DEF Sound

LEMMA LoadEnds ==
  ASSUME NEW k, NEW s, NEW c, NEW p, NEW T, NEW al, Sound(k, s, c, p, T, al),
         NEW t, NEW U, StepOf(k, T, t, U), T[t].op = "load", T[t].at = "answer", U[t] = L!Idle, NeverClears(T)
  PROVE  Sound(k, s, c, L!Updated(p, "list", T[t].ok, L!New(T[t].got)), U, al)
<1> DEFINE q == L!Updated(p, "list", T[t].ok, L!New(T[t].got))
<1>1. \A u \in Threads : Of(k, T[u]) => T[u].op = "load"
  BY DEF Sound, Alike, StepOf
<1>2. \A u \in Threads : Of(k, U[u]) => U[u] = T[u] /\ Of(k, T[u])
  BY DEF StepOf, Of, L!Idle
<1>3. Alike(k, U)
  BY <1>2 DEF Sound, Alike
<1>4. CachedRight(k, s, c, U)
  BY <1>1 DEF Sound, CachedRight, NeverClears
<1>5. LoadedRight(k, s, U)
  BY <1>2 DEF Sound, LoadedRight
<1>6. ChangedRight(k, s, U)
  BY <1>1, <1>2 DEF ChangedRight
<1>7. ShownRight(k, s, q, U, al)
  <2> SUFFICES ASSUME "error" \notin al, L!IsResolved(q)
               PROVE  q.val.set = L!Ids(s) /\ (k # "shows" => q.val.list = s)
    BY <1>1, <1>2 DEF ShownRight
  <2>1. CASE q = p
    BY <1>1, <2>1 DEF Sound, ShownRight
  <2>2. CASE q = L!Resolved("list", L!New(T[t].got)) /\ T[t].ok
    <3>1. T[t].got = s
      BY <2>2 DEF Sound, LoadedRight, StepOf
    <3> DEFINE n == L!New(T[t].got)
    <3>2. n = L!New(s)
      BY <3>1
    <3>3. q = [st |-> "Resolved", def |-> "list", val |-> n]
      BY <2>2 DEF L!Resolved
    <3> HIDE DEF q, n
    <3>4. q.val = L!New(s)
      BY <3>2, <3>3
    <3> QED BY <3>4 DEF L!New
  <2>3. CASE q = L!Rejected("list")
    BY <2>3 DEF L!Rejected, L!IsResolved
  <2> QED BY <2>1, <2>2, <2>3 DEF L!Updated
<1> QED BY <1>3, <1>4, <1>5, <1>6, <1>7 DEF Sound

\* The others of the command whose thread is t do the same.
LEMMA OneChange ==
  ASSUME NEW k, NEW s, NEW c, NEW p, NEW T, NEW al, Sound(k, s, c, p, T, al),
         NEW t, NEW U, StepOf(k, T, t, U), T[t].op # "load"
  PROVE  /\ \A u \in Threads : Of(k, T[u]) => T[u].op = T[t].op /\ T[u].item = T[t].item
         /\ k # "shows" => \A u \in Threads : Of(k, T[u]) => u = t
         /\ \A u \in Threads : u = t \/ U[u] = T[u]
  BY DEF Sound, Alike, StepOf

\* The change r, made to the list s, which becomes z, goes on as u.
ChangeIsRight(k, s, r, z, u) ==
  /\ r.op \in {"save", "unsave"} /\ r.at \in {"call", "clear"}
  /\ Of(k, u) /\ u.op = r.op /\ u.item = r.item /\ u.at \in {"clear", "answer"} /\ (u.ok => r.ok)
  /\ u.ok => L!Ids(z) = IF r.op = "save" THEN L!Ids(s) \cup {r.item} ELSE L!Ids(s) \ {r.item}
  /\ ~u.ok => z = s
  /\ r.at = "clear" => z = s
  /\ r.at = "call" /\ u.ok /\ k # "shows" =>
       z = IF r.op = "unsave" THEN L!Without(s, r.item) ELSE IF r.item \in L!Ids(s) THEN s ELSE <<r.item>> \o s

LEMMA ChangeGoesOn ==
  ASSUME NEW k, NEW s, NEW c, NEW p, NEW T, NEW al, Sound(k, s, c, p, T, al),
         NEW t, NEW U, StepOf(k, T, t, U), NEW z, ChangeIsRight(k, s, T[t], z, U[t]),
         NEW d, CachedRight(k, z, d, U)
  PROVE  Sound(k, z, d, p, U, al)
<1>1. /\ \A u \in Threads : Of(k, T[u]) => T[u].op = T[t].op /\ T[u].item = T[t].item
      /\ k # "shows" => \A u \in Threads : Of(k, T[u]) => u = t
      /\ \A u \in Threads : u = t \/ U[u] = T[u]
      /\ t \in Threads /\ Of(k, T[t])
  <2>1. T[t].op # "load"
    BY DEF ChangeIsRight
  <2>2. t \in Threads /\ Of(k, T[t])
    BY DEF StepOf
  <2> QED BY <2>1, <2>2, OneChange
<1>0. /\ T[t].op \in {"save", "unsave"} /\ T[t].at \in {"call", "clear"}
      /\ Of(k, U[t]) /\ U[t].op = T[t].op /\ U[t].item = T[t].item /\ U[t].at \in {"clear", "answer"}
      /\ U[t].ok => T[t].ok
      /\ U[t].ok => L!Ids(z) = IF T[t].op = "save" THEN L!Ids(s) \cup {T[t].item} ELSE L!Ids(s) \ {T[t].item}
      /\ ~U[t].ok => z = s
      /\ T[t].at = "clear" => z = s
  BY DEF ChangeIsRight
<1>2. \A u \in Threads : Of(k, U[u]) => Of(k, T[u]) /\ U[u].op = T[t].op /\ U[u].item = T[t].item
  BY <1>0, <1>1
<1>3. Alike(k, U)
  BY <1>0, <1>1, <1>2 DEF Alike
<1>4. CachedRight(k, z, d, U)
  OBVIOUS
<1>5. LoadedRight(k, z, U)
  BY <1>0, <1>2 DEF LoadedRight
<1>6. ChangedRight(k, z, U)
  <2> SUFFICES ASSUME NEW u \in Threads, Of(k, U[u]), U[u].at # "call", U[u].ok
               PROVE  U[u].op = "save" <=> U[u].item \in L!Ids(z)
    BY DEF ChangedRight
  <2>1. CASE u = t
    BY <1>0, <1>2, <2>1
  <2>2. CASE u # t
    <3>1. T[t].op = "save" <=> T[t].item \in L!Ids(s)
      BY <1>0, <1>1, <1>2, <2>2 DEF Sound, ChangedRight
    <3> QED BY <1>0, <1>2, <3>1
  <2> QED BY <2>1, <2>2
<1>7. ShownRight(k, z, p, U, al)
  <2> SUFFICES ASSUME "error" \notin al, L!IsResolved(p),
                      \A u \in Threads : Of(k, U[u]) /\ U[u].op # "load" => U[u].ok,
                      NEW u \in Threads, Of(k, U[u])
               PROVE  Expected(k, z, p.val, U[u])
    BY <1>0, <1>1, <1>2 DEF ShownRight
  <2>1. U[t].ok /\ T[t].ok
    BY <1>0, <1>1, <1>2
  <2>2. \A w \in Threads : Of(k, T[w]) => T[w].ok
    BY <1>0, <1>1, <1>2, <2>1
  <2>3. Expected(k, s, p.val, T[t])
    BY <1>0, <1>1, <2>2 DEF Sound, ShownRight
  <2>4. p.val.set = IF T[t].op = "save" THEN L!Ids(z) \cup {T[t].item} ELSE L!Ids(z) \ {T[t].item}
    BY <1>0, <2>1, <2>3 DEF Expected
  <2>5. CASE k = "shows"
    BY <1>0, <1>2, <2>4, <2>5 DEF Expected
  <2>6. CASE k # "shows"
    <3>1. u = t BY <1>0, <1>1, <1>2, <2>6
    <3>2. p.val.list = z
      <4>0. /\ p.val.list = IF T[t].at # "call" THEN s
                            ELSE IF T[t].op = "save" THEN <<T[t].item>> \o s ELSE L!Without(s, T[t].item)
            /\ T[t].at = "call" /\ T[t].op = "save" => T[t].item \notin L!Ids(s)
        BY <2>3, <2>6, Zenon DEF Expected
      <4>1. CASE T[t].at = "call"
        <5>1. z = IF T[t].op = "unsave" THEN L!Without(s, T[t].item)
                  ELSE IF T[t].item \in L!Ids(s) THEN s ELSE <<T[t].item>> \o s
          BY <2>1, <2>6, <4>1 DEF ChangeIsRight
        <5> QED BY <1>0, <4>0, <4>1, <5>1
      <4>2. CASE T[t].at = "clear"
        BY <1>0, <4>0, <4>2
      <4> QED BY <1>0, <4>1, <4>2
    <3> QED BY <1>0, <1>2, <2>4, <2>6, <3>1, <3>2 DEF Expected
  <2> QED BY <2>5, <2>6
<1> QED BY <1>3, <1>4, <1>5, <1>6, <1>7 DEF Sound

LEMMA ChangeEnds ==
  ASSUME NEW k, NEW s, NEW c, NEW p, NEW T, NEW al, Sound(k, s, c, p, T, al),
         NEW t, NEW U, StepOf(k, T, t, U), T[t].op \in {"save", "unsave"}, T[t].at = "answer", U[t] = L!Idle,
         NEW am, am = al \cup {IF T[t].ok THEN "info" ELSE "error"}
  PROVE  Sound(k, s, c, p, U, am)
<1>1. /\ \A u \in Threads : Of(k, T[u]) => T[u].op = T[t].op /\ T[u].item = T[t].item
      /\ k # "shows" => \A u \in Threads : Of(k, T[u]) => u = t
      /\ \A u \in Threads : u = t \/ U[u] = T[u]
      /\ t \in Threads /\ Of(k, T[t])
  <2>1. T[t].op # "load"
    OBVIOUS
  <2>2. t \in Threads /\ Of(k, T[t])
    BY DEF StepOf
  <2> QED BY <2>1, <2>2, OneChange
<1>2. \A u \in Threads : Of(k, U[u]) => U[u] = T[u] /\ Of(k, T[u]) /\ u # t
  BY <1>1 DEF Of, L!Idle
<1>3. Alike(k, U)
  BY <1>2 DEF Sound, Alike
<1>4. CachedRight(k, s, c, U)
  BY <1>1 DEF Sound, CachedRight
<1>5. LoadedRight(k, s, U)
  BY <1>2 DEF Sound, LoadedRight
<1>6. ChangedRight(k, s, U)
  BY <1>2 DEF Sound, ChangedRight
<1>7. ShownRight(k, s, p, U, am)
  <2> SUFFICES ASSUME "error" \notin am, L!IsResolved(p),
                      \A u \in Threads : Of(k, U[u]) /\ U[u].op # "load" => U[u].ok
               PROVE  /\ (\A u \in Threads : Of(k, U[u]) => U[u].op = "load") =>
                           p.val.set = L!Ids(s) /\ (k # "shows" => p.val.list = s)
                      /\ \A u \in Threads : Of(k, U[u]) /\ U[u].op # "load" => Expected(k, s, p.val, U[u])
    BY DEF ShownRight
  <2>1. T[t].ok /\ "error" \notin al
    OBVIOUS
  <2>2. \A w \in Threads : Of(k, T[w]) => T[w].ok
    BY <1>1, <2>1
  <2>3. \A w \in Threads : Of(k, T[w]) => Expected(k, s, p.val, T[w])
    BY <1>1, <2>1, <2>2 DEF Sound, ShownRight
  <2>4. T[t].op = "save" <=> T[t].item \in L!Ids(s)
    BY <1>1, <2>1 DEF Sound, ChangedRight
  <2>5. p.val.set = L!Ids(s) /\ (k # "shows" => p.val.list = s)
    <3>1. Expected(k, s, p.val, T[t])
      BY <1>1, <2>3
    <3>2. p.val.set = IF T[t].op = "save" THEN L!Ids(s) \cup {T[t].item} ELSE L!Ids(s) \ {T[t].item}
      BY <3>1, Zenon DEF Expected
    <3>3. k # "shows" => p.val.list = s
      BY <3>1 DEF Expected
    <3>4. p.val.set = L!Ids(s)
      BY <2>4, <3>2
    <3> QED BY <3>3, <3>4
  <2> QED BY <1>2, <2>3, <2>5
<1> QED BY <1>3, <1>4, <1>5, <1>6, <1>7 DEF Sound

-----------------------------------------------------------------------------
\* What a thread does, by its types.
LEMMA ThreadIs ==
  ASSUME LibraryTyped, NEW t \in Threads
  PROVE  LET r == threads[t] IN
         /\ r.op \in {"idle", "load", "save", "unsave"}
         /\ r.op = "idle" => r = L!Idle
         /\ r.op = "load" => r \in Loads
         /\ r.op \in {"save", "unsave"} => r \in Changes
<1>1. threads[t] \in {L!Idle} \cup Changes \cup Loads
  BY DEF LibraryTyped
<1> QED BY <1>1 DEF L!Idle, Changes, Loads

\* A list without repetition is no longer than there are items.
LEMMA NoLonger ==
  ASSUME L!LibraryAssumption, NEW s \in Seq(Savable), Apart(s)
  PROVE  Len(s) <= Cardinality(Savable) /\ Cardinality(Savable) \in Nat
<1>1. IsFiniteSet(Savable)
  BY LibraryCounts DEF L!LibraryAssumption
<1> DEFINE D == 1..Len(s)
<1>2. s \in [D -> Savable] /\ DOMAIN s = D /\ Len(s) \in Nat
  OBVIOUS
<1>3. IsFiniteSet(D) /\ Cardinality(D) = Len(s)
  <2>1. 1 \in Int /\ Len(s) \in Int /\ (1 > Len(s) => Len(s) = 0) /\ (Len(s) - 1) + 1 = Len(s)
    BY <1>2
  <2>2. /\ IsFiniteSet(1..Len(s))
        /\ Cardinality(1..Len(s)) = IF 1 > Len(s) THEN 0 ELSE Len(s) - 1 + 1
    BY <2>1, FS_Interval, Zenon
  <2> QED BY <2>1, <2>2
<1> HIDE DEF D
<1>4. s \in Injection(D, Savable)
  BY <1>2 DEF Apart, Injection, IsInjective
<1>5. Cardinality(D) <= Cardinality(Savable)
  BY <1>1, <1>4, FS_Injection
<1> QED BY <1>1, <1>3, <1>5, FS_CardinalityType

\* A page put behind what comes before it.
LEMMA PagesJoin ==
  ASSUME L!LibraryAssumption, NEW s \in Seq(Savable), NEW o \in Nat
  PROVE  Prefix(s, o) \o PageIn(s, o).items = Prefix(s, o + LibraryPageSize)
<1>1. LibraryPageSize \in Nat \ {0}
  BY DEF L!LibraryAssumption
<1> QED BY <1>1, PrefixJoins

\* SetToSeq of the community modules lists a finite set.
LEMMA AllOfThem ==
  ASSUME L!LibraryAssumption
  PROVE  L!SetToSeq(Savable) \in Seq(Savable) /\ Apart(L!SetToSeq(Savable))
<1> DEFINE n == Cardinality(Savable)
<1>1. n \in Nat /\ ExistsBijection(1..n, Savable)
  BY FS_CardinalityType, LibraryCounts DEF L!LibraryAssumption
<1>2. \E f \in [1..n -> Savable] : IsInjective(f)
  BY <1>1, Zenon DEF ExistsBijection, Bijection, Injection
<1>3. L!SetToSeq(Savable) \in [1..n -> Savable] /\ IsInjective(L!SetToSeq(Savable))
  BY <1>2, Zenon DEF L!SetToSeq, L!IsInjective, IsInjective, L!Cardinality, Cardinality
<1> HIDE DEF n
<1>4. \A f \in [1..n -> Savable] : f \in Seq(Savable)
  BY <1>1
<1> QED BY <1>3, <1>4 DEF Apart, IsInjective

LEMMA InitGood ==
  ASSUME L!LibraryAssumption, L!Init
  PROVE  LibraryInv
<1>1. server \in [LibraryKinds -> Seq(Savable)] /\ \A k \in LibraryKinds : Apart(server[k])
  <2>1. L!SetToSeq(Savable) \in Seq(Savable) /\ Apart(L!SetToSeq(Savable)) /\ <<>> \in Seq(Savable) /\ Apart(<<>>)
    BY AllOfThem DEF Apart
  <2> QED BY <2>1 DEF L!Init
<1>2. \A k \in LibraryKinds : DOMAIN cache[k] = {} /\ saved[k] = L!Empty
  BY DEF L!Init
<1>3. \A t \in Threads : threads[t] = L!Idle
  BY DEF L!Init
<1>4. LibraryTyped
  <2>1. DOMAIN cache = LibraryKinds /\ orderly \in BOOLEAN
    BY DEF L!Init
  <2>2. saved \in [LibraryKinds -> ListPromises] /\ threads \in [Threads -> {L!Idle} \cup Changes \cup Loads]
    BY DEF L!Init, ListPromises
  <2> QED BY <1>1, <1>2, <2>1, <2>2 DEF LibraryTyped
<1>5. ASSUME NEW k \in LibraryKinds PROVE Sound(k, server[k], cache[k], saved[k], threads, alerts)
  <2>1. \A t \in Threads : ~Of(k, threads[t])
    BY <1>3 DEF Of, L!Idle
  <2>2. ~L!IsResolved(saved[k])
    BY <1>2 DEF L!IsResolved, L!Empty
  <2> QED BY <1>2, <2>1, <2>2 DEF Sound, Alike, CachedRight, LoadedRight, ChangedRight, ShownRight
<1> QED BY <1>4, <1>5 DEF LibraryInv

\* The program is started again.
LEMMA RestartKeeps ==
  ASSUME L!LibraryAssumption, LibraryInv, L!Restart
  PROVE  LibraryInv'
<1>0. LibraryTyped
  BY DEF LibraryInv
<1>1. \A k \in LibraryKinds : saved'[k] = L!Empty
  BY DEF L!Restart
<1>2. \A t \in Threads : threads'[t] = L!Idle
  BY DEF L!Restart
<1>3. LibraryTyped'
  <2>1. UNCHANGED <<server, cache>> /\ orderly' \in BOOLEAN
    BY <1>0 DEF L!Restart, LibraryTyped
  <2>2. saved' \in [LibraryKinds -> ListPromises] /\ threads' \in [Threads -> {L!Idle} \cup Changes \cup Loads]
    BY DEF L!Restart, ListPromises
  <2> QED BY <1>0, <2>1, <2>2 DEF LibraryTyped
<1>4. ASSUME orderly', NEW k \in LibraryKinds
      PROVE  Sound(k, server'[k], cache'[k], saved'[k], threads', alerts')
  <2>1. \A t \in Threads : ~Of(k, threads'[t])
    BY <1>2 DEF Of, L!Idle
  <2>2. ~L!IsResolved(saved'[k])
    BY <1>1 DEF L!IsResolved, L!Empty
  <2>3. orderly /\ \A t \in Threads : threads[t].op \notin {"idle", "load"} => threads[t].at # "clear"
    BY <1>4 DEF L!Restart
  <2>4. \A t \in Threads : Of(k, threads[t]) => threads[t].at # "clear"
    BY <1>0, <2>3, ThreadIs DEF Loads, Of
  <2>5. \A o \in DOMAIN cache[k] : cache[k][o] = PageIn(server[k], o)
    BY <2>3, <2>4 DEF LibraryInv, Sound, CachedRight
  <2>6. CachedRight(k, server'[k], cache'[k], threads')
    BY <2>5 DEF L!Restart, CachedRight
  <2> QED BY <2>1, <2>2, <2>6 DEF Sound, Alike, LoadedRight, ChangedRight, ShownRight
<1> QED BY <1>3, <1>4 DEF LibraryInv

-----------------------------------------------------------------------------
\* A command of the kind k starts h threads that do r, and the promise becomes q.
LEMMA CommandGood ==
  ASSUME L!LibraryAssumption, LibraryInv, NEW k \in LibraryKinds, NEW h \in Nat, k # "shows" => h \in {0, 1},
         NEW r \in Changes \cup Loads, Starts(k, h, r), Of(k, r),
         r.op = "load" => r.at = "read" /\ r.off = 0 /\ r.got = <<>>, r.op # "load" => r.at = "call",
         NEW q \in ListPromises, saved' = [saved EXCEPT ![k] = q], h = 0 => q = saved[k],
         UNCHANGED <<server, cache, alerts>>,
         orderly /\ h # 0 /\ (\A t \in Threads : ~Of(k, threads[t])) /\ "error" \notin alerts /\ L!IsResolved(q) =>
           r.op # "load" /\ Expected(k, server[k], q.val, r)
  PROVE  LibraryInv'
<1>0. LibraryTyped
  BY DEF LibraryInv
<1>1. PICK ts \in SUBSET Threads : Started(k, h, r, ts)
  BY <1>0, StartsFacts
<1>11. /\ threads' = [t \in Threads |-> IF t \in ts THEN r ELSE threads[t]]
       /\ \A t \in ts : threads[t] = L!Idle
       /\ h = 0 <=> ts = {}
       /\ k # "shows" => \A t, u \in ts : t = u
       /\ orderly' => orderly /\ (h # 0 => \A t \in Threads : ~Of(k, threads[t]))
  BY <1>1 DEF Started
<1>2. \A t \in Threads : threads'[t] = IF t \in ts THEN r ELSE threads[t]
  BY <1>11
<1>3. DOMAIN saved = LibraryKinds /\ saved'[k] = q /\ \A j \in LibraryKinds \ {k} : saved'[j] = saved[j]
  BY <1>0 DEF LibraryTyped
<1>4. LibraryTyped'
  <2>1. threads' \in [Threads -> {L!Idle} \cup Changes \cup Loads]
    BY <1>0, <1>11 DEF LibraryTyped
  <2>2. saved' \in [LibraryKinds -> ListPromises]
    BY <1>0 DEF LibraryTyped
  <2>3. orderly' \in BOOLEAN
    BY <1>0 DEF Starts, LibraryTyped
  <2> QED BY <1>0, <2>1, <2>2, <2>3 DEF LibraryTyped
<1>5. ASSUME orderly' PROVE \A j \in LibraryKinds : Sound(j, server'[j], cache'[j], saved'[j], threads', alerts')
  <2>1. orderly /\ \A j \in LibraryKinds : Sound(j, server[j], cache[j], saved[j], threads, alerts)
    BY <1>11, <1>5 DEF LibraryInv
  <2>2. \A t \in Threads : threads'[t] = threads[t] \/
          \A j \in LibraryKinds \ {k} : ~Of(j, threads[t]) /\ ~Of(j, threads'[t])
    BY <1>11, <1>2 DEF Of, L!Idle
  <2>3. Sound(k, server[k], cache[k], q, threads', alerts)
    <3>1. CASE h = 0
      <4>1. q = saved[k] /\ \A t \in Threads : threads'[t] = threads[t]
        BY <1>11, <1>2, <3>1
      <4>2. Sound(k, server[k], cache[k], q, threads, alerts)
        BY <2>1, <4>1
      <4> QED BY <4>1, <4>2, Elsewhere
    <3>2. CASE h # 0
      <4>1. \A t \in Threads : ~Of(k, threads[t])
        BY <1>11, <1>5, <3>2
      <4>2. ts # {}
        BY <1>11, <3>2
      <4>3. Sound(k, server[k], cache[k], saved[k], threads, alerts)
        BY <2>1
      <4>4. r.op = "load" => r.at = "read" /\ r.got = Prefix(server[k], r.off)
        <5>1. server[k] \in Seq(Savable) /\ LibraryPageSize \in Nat \ {0}
          BY <1>0 DEF LibraryTyped, L!LibraryAssumption
        <5>2. Prefix(server[k], 0) = <<>>
          BY <5>1, PrefixFacts
        <5> QED BY <5>2
      <4>5. "error" \notin alerts /\ L!IsResolved(q) => r.op # "load" /\ Expected(k, server[k], q.val, r)
        BY <2>1, <3>2, <4>1
      <4> QED BY <1>11, <1>2, <4>1, <4>2, <4>3, <4>4, <4>5, BegunSound
    <3> QED BY <3>1, <3>2
  <2>4. ASSUME NEW j \in LibraryKinds, j # k PROVE Sound(j, server'[j], cache'[j], saved'[j], threads', alerts')
    <3>1. Sound(j, server[j], cache[j], saved[j], threads, alerts)
      BY <2>1
    <3>2. \A t \in Threads : threads'[t] = threads[t] \/ (~Of(j, threads[t]) /\ ~Of(j, threads'[t]))
      BY <2>2, <2>4
    <3>3. Sound(j, server[j], cache[j], saved[j], threads', alerts)
      BY <3>1, <3>2, Elsewhere
    <3> QED BY <1>3, <2>4, <3>3
  <2>5. Sound(k, server'[k], cache'[k], saved'[k], threads', alerts')
    BY <1>3, <2>3
  <2> QED BY <2>4, <2>5
<1> QED BY <1>4, <1>5 DEF LibraryInv

LEMMA ListLoadGood ==
  ASSUME L!LibraryAssumption, LibraryInv, NEW k \in LibraryKinds, NEW h \in Nat, k # "shows" => h \in {0, 1},
         L!Load(k, h), UNCHANGED <<server, cache, alerts>>
  PROVE  LibraryInv'
<1> DEFINE q == IF h = 0 THEN saved[k] ELSE L!Deferred("list")
<1>0. LibraryTyped
  BY DEF LibraryInv
<1>1. Starts(k, h, L!Loader(k)) /\ saved' = [saved EXCEPT ![k] = q]
  BY <1>0, LoadStarts
<1>2. L!Loader(k) \in Loads /\ Of(k, L!Loader(k)) /\ L!Loader(k).op = "load" /\ L!Loader(k).at = "read"
      /\ L!Loader(k).off = 0 /\ L!Loader(k).got = <<>>
  BY DEF L!Loader, Loads, L!NoPage, PageSet, Of
<1>3. q \in ListPromises /\ (h = 0 => q = saved[k]) /\ (h # 0 => ~L!IsResolved(q))
  <2>1. L!Deferred("list") \in ListPromises /\ ~L!IsResolved(L!Deferred("list"))
    BY DEF L!Deferred, ListPromises, L!IsResolved
  <2> QED BY <1>0, <2>1 DEF LibraryTyped
<1> HIDE DEF q
<1> QED BY <1>1, <1>2, <1>3, CommandGood

LEMMA VisitKeeps ==
  ASSUME L!LibraryAssumption, LibraryInv, NEW k \in LibraryKinds, L!Visit(k)
  PROVE  LibraryInv'
<1> DEFINE h == Cardinality(L!Handlers(k) \cup {L!PageOf(k)})
<1>1. h \in Nat /\ (k # "shows" => h \in {0, 1})
  BY OnePage
<1> HIDE DEF h
<1>2. UNCHANGED <<server, cache, alerts>>
  BY DEF L!Visit
<1>3. L!Load(k, h) \/ UNCHANGED <<saved, threads, orderly>>
  BY LibraryCounts DEF L!Visit, L!LoadRouteData, h
<1>4. CASE L!Load(k, h)
  BY <1>1, <1>2, <1>4, ListLoadGood
<1>5. CASE UNCHANGED <<saved, threads, orderly>>
  BY <1>2, <1>5 DEF LibraryInv, LibraryTyped
<1> QED BY <1>3, <1>4, <1>5

LEMMA RetryLoadKeeps ==
  ASSUME L!LibraryAssumption, LibraryInv, NEW k \in LibraryKinds, L!RetryLoad(k)
  PROVE  LibraryInv'
<1> DEFINE h == Cardinality(L!Handlers(k))
<1>1. h \in Nat /\ (k # "shows" => h \in {0, 1})
  BY OnePage
<1>2. L!Load(k, h) /\ UNCHANGED <<server, cache, alerts>>
  BY LibraryCounts DEF L!RetryLoad
<1> HIDE DEF h
<1> QED BY <1>1, <1>2, ListLoadGood

\* What is in the list and in its set after a change.
LEMMA ChangedLists ==
  ASSUME NEW v \in [list : Seq(Savable), set : SUBSET Savable], NEW x \in Savable
  PROVE  /\ L!Added(v, x) \in [list : Seq(Savable), set : SUBSET Savable]
         /\ L!Removed(v, x) \in [list : Seq(Savable), set : SUBSET Savable]
         /\ L!Added(v, x).list = <<x>> \o v.list /\ L!Added(v, x).set = v.set \cup {x}
         /\ L!Removed(v, x).list = L!Without(v.list, x) /\ L!Removed(v, x).set = v.set \ {x}
<1>1. v.list \in Seq(Savable) /\ v.set \in SUBSET Savable
  OBVIOUS
<1>2. L!Without(v.list, x) \in Seq(Savable)
  BY <1>1, WithoutFacts
<1>3. <<x>> \o v.list \in Seq(Savable)
  BY <1>1
<1> QED BY <1>1, <1>2, <1>3 DEF L!Added, L!Removed

LEMMA SaveKeeps ==
  ASSUME L!LibraryAssumption, LibraryInv, NEW k \in LibraryKinds, NEW x \in Savable, L!Save(k, x)
  PROVE  LibraryInv'
<1> DEFINE h == Cardinality(L!Handlers(k))
           p == saved[k]
           w == Twice(h, L!Added(p.val, x), L!Added(L!Added(p.val, x), x))
           q == IF h = 0 \/ ~L!IsResolved(p) THEN p ELSE L!Resolved(p.def, w)
           r == L!Call("save", k, x)
<1>0. LibraryTyped
  BY DEF LibraryInv
<1>1. h \in Nat /\ (k # "shows" => h \in {0, 1})
  BY OnePage
<1>2. Starts(k, h, r) /\ saved' = [saved EXCEPT ![k] = q] /\ ~L!IsSaved(k, x) /\ UNCHANGED <<server, cache, alerts>>
  BY <1>0, SaveStarts
<1>3. r \in Changes /\ Of(k, r) /\ r.op = "save" /\ r.at = "call" /\ r.item = x
  BY DEF L!Call, Changes, Of
<1>4. p \in ListPromises
  BY <1>0 DEF LibraryTyped
<1>5. ASSUME L!IsResolved(p), h # 0
      PROVE  /\ p.val \in [list : Seq(Savable), set : SUBSET Savable] /\ p.def = "list"
             /\ w \in [list : Seq(Savable), set : SUBSET Savable]
             /\ w.set = p.val.set \cup {x} /\ (k # "shows" => w.list = <<x>> \o p.val.list)
  <2>1. p.val \in [list : Seq(Savable), set : SUBSET Savable] /\ p.def = "list"
    BY <1>4, <1>5 DEF ListPromises, L!IsResolved, L!Empty
  <2>2. /\ L!Added(p.val, x) \in [list : Seq(Savable), set : SUBSET Savable]
        /\ L!Added(p.val, x).set = p.val.set \cup {x} /\ L!Added(p.val, x).list = <<x>> \o p.val.list
    BY <2>1, ChangedLists
  <2>3. /\ L!Added(L!Added(p.val, x), x) \in [list : Seq(Savable), set : SUBSET Savable]
        /\ L!Added(L!Added(p.val, x), x).set = p.val.set \cup {x}
    BY <2>2, ChangedLists
  <2>4. k # "shows" => h = 1
    BY <1>1, <1>5
  <2> QED BY <2>1, <2>2, <2>3, <2>4 DEF Twice
<1> HIDE DEF w, r, h
<1>6. q \in ListPromises /\ (h = 0 => q = p)
  BY <1>4, <1>5 DEF L!Resolved, ListPromises
<1>7. ASSUME orderly, h # 0, \A t \in Threads : ~Of(k, threads[t]), "error" \notin alerts, L!IsResolved(q)
      PROVE  Expected(k, server[k], q.val, r)
  <2>1. L!IsResolved(p) /\ q.val = w
    BY <1>7 DEF L!Resolved
  <2>2. Sound(k, server[k], cache[k], p, threads, alerts)
    BY <1>7 DEF LibraryInv
  <2>3. p.val.set = L!Ids(server[k]) /\ (k # "shows" => p.val.list = server[k])
    BY <1>7, <2>1, <2>2 DEF Sound, ShownRight
  <2>4. x \notin L!Ids(server[k])
    BY <1>2, <2>1, <2>3 DEF L!IsSaved
  <2>5. w.set = L!Ids(server[k]) \cup {x} /\ (k # "shows" => w.list = <<x>> \o server[k])
    BY <1>5, <1>7, <2>1, <2>3
  <2> QED BY <1>3, <2>1, <2>4, <2>5 DEF Expected
<1> HIDE DEF q
<1> QED BY <1>1, <1>2, <1>3, <1>6, <1>7, CommandGood

LEMMA UnsaveKeeps ==
  ASSUME L!LibraryAssumption, LibraryInv, NEW k \in LibraryKinds, NEW x \in Savable, L!Unsave(k, x)
  PROVE  LibraryInv'
<1> DEFINE h == Cardinality(L!Handlers(k))
           p == saved[k]
           w == Twice(h, L!Removed(p.val, x), L!Removed(L!Removed(p.val, x), x))
           q == IF h = 0 \/ ~L!IsResolved(p) THEN p ELSE L!Resolved(p.def, w)
           r == L!Call("unsave", k, x)
<1>0. LibraryTyped
  BY DEF LibraryInv
<1>1. h \in Nat /\ (k # "shows" => h \in {0, 1})
  BY OnePage
<1>2. Starts(k, h, r) /\ saved' = [saved EXCEPT ![k] = q] /\ UNCHANGED <<server, cache, alerts>>
  BY <1>0, UnsaveStarts
<1>3. r \in Changes /\ Of(k, r) /\ r.op = "unsave" /\ r.at = "call" /\ r.item = x
  BY DEF L!Call, Changes, Of
<1>4. p \in ListPromises
  BY <1>0 DEF LibraryTyped
<1>5. ASSUME L!IsResolved(p), h # 0
      PROVE  /\ p.val \in [list : Seq(Savable), set : SUBSET Savable] /\ p.def = "list"
             /\ w \in [list : Seq(Savable), set : SUBSET Savable]
             /\ w.set = p.val.set \ {x} /\ (k # "shows" => w.list = L!Without(p.val.list, x))
  <2>1. p.val \in [list : Seq(Savable), set : SUBSET Savable] /\ p.def = "list"
    BY <1>4, <1>5 DEF ListPromises, L!IsResolved, L!Empty
  <2>2. /\ L!Removed(p.val, x) \in [list : Seq(Savable), set : SUBSET Savable]
        /\ L!Removed(p.val, x).set = p.val.set \ {x} /\ L!Removed(p.val, x).list = L!Without(p.val.list, x)
    BY <2>1, ChangedLists
  <2>3. /\ L!Removed(L!Removed(p.val, x), x) \in [list : Seq(Savable), set : SUBSET Savable]
        /\ L!Removed(L!Removed(p.val, x), x).set = p.val.set \ {x}
    BY <2>2, ChangedLists
  <2>4. k # "shows" => h = 1
    BY <1>1, <1>5
  <2> QED BY <2>1, <2>2, <2>3, <2>4 DEF Twice
<1> HIDE DEF w, r, h
<1>6. q \in ListPromises /\ (h = 0 => q = p)
  BY <1>4, <1>5 DEF L!Resolved, ListPromises
<1>7. ASSUME orderly, h # 0, \A t \in Threads : ~Of(k, threads[t]), "error" \notin alerts, L!IsResolved(q)
      PROVE  Expected(k, server[k], q.val, r)
  <2>1. L!IsResolved(p) /\ q.val = w
    BY <1>7 DEF L!Resolved
  <2>2. Sound(k, server[k], cache[k], p, threads, alerts)
    BY <1>7 DEF LibraryInv
  <2>3. p.val.set = L!Ids(server[k]) /\ (k # "shows" => p.val.list = server[k])
    BY <1>7, <2>1, <2>2 DEF Sound, ShownRight
  <2>5. w.set = L!Ids(server[k]) \ {x} /\ (k # "shows" => w.list = L!Without(server[k], x))
    BY <1>5, <1>7, <2>1, <2>3
  <2> QED BY <1>3, <2>1, <2>5 DEF Expected
<1> HIDE DEF q
<1> QED BY <1>1, <1>2, <1>3, <1>6, <1>7, CommandGood

-----------------------------------------------------------------------------
\* A step of the thread t, about the kind j, after which it does u.
Moves(j, t, u) ==
  /\ StepOf(j, threads, t, threads') /\ threads'[t] = u /\ j \in LibraryKinds /\ (u = L!Idle \/ Of(j, u))
  /\ threads' \in [Threads -> {L!Idle} \cup Changes \cup Loads]

LEMMA ThreadMoves ==
  ASSUME LibraryTyped, NEW t \in Threads, NEW j \in LibraryKinds, Of(j, threads[t]),
         NEW u \in {L!Idle} \cup Changes \cup Loads, u = L!Idle \/ Of(j, u), threads' = [threads EXCEPT ![t] = u]
  PROVE  Moves(j, t, u)
BY DEF Moves, StepOf, LibraryTyped

LEMMA LoadsNeverClear ==
  ASSUME LibraryTyped
  PROVE  NeverClears(threads)
BY ThreadIs DEF NeverClears, Loads

LEMMA ThreadGood ==
  ASSUME L!LibraryAssumption, LibraryInv, NEW j, NEW t, NEW u, Moves(j, t, u),
         server' \in [LibraryKinds -> Seq(Savable)], Apart(server'[j]), DOMAIN cache' = LibraryKinds,
         DOMAIN cache'[j] \subseteq Nat, \A o \in DOMAIN cache'[j] : cache'[j][o] \in PageSet,
         saved' \in [LibraryKinds -> ListPromises], alerts \subseteq alerts',
         \A k \in LibraryKinds \ {j} : server'[k] = server[k] /\ cache'[k] = cache[k] /\ saved'[k] = saved[k],
         orderly' \in BOOLEAN, orderly' => orderly,
         orderly' => Sound(j, server'[j], cache'[j], saved'[j], threads', alerts')
  PROVE  LibraryInv'
<1>0. LibraryTyped
  BY DEF LibraryInv
<1>1. LibraryTyped'
  <2>1. threads' \in [Threads -> {L!Idle} \cup Changes \cup Loads]
    BY DEF Moves
  <2>2. \A k \in LibraryKinds : Apart(server'[k])
    BY <1>0 DEF LibraryTyped
  <2>3. \A k \in LibraryKinds : DOMAIN cache'[k] \subseteq Nat /\ \A o \in DOMAIN cache'[k] : cache'[k][o] \in PageSet
    BY <1>0 DEF LibraryTyped
  <2> QED BY <2>1, <2>2, <2>3 DEF LibraryTyped
<1>2. ASSUME orderly', NEW k \in LibraryKinds, k # j
      PROVE  Sound(k, server'[k], cache'[k], saved'[k], threads', alerts')
  <2>1. Sound(k, server[k], cache[k], saved[k], threads, alerts)
    BY <1>2 DEF LibraryInv
  <2>2. \A w \in Threads : threads'[w] = threads[w] \/ (~Of(k, threads[w]) /\ ~Of(k, threads'[w]))
    <3>1. threads'[t] = u /\ \A w \in Threads \ {t} : threads'[w] = threads[w]
      BY DEF Moves, StepOf
    <3>2. ~Of(k, threads[t]) /\ ~Of(k, u)
      BY <1>2 DEF Moves, StepOf, Of, L!Idle
    <3> QED BY <3>1, <3>2
  <2>3. Sound(k, server[k], cache[k], saved[k], threads', alerts')
    BY <2>1, <2>2, Elsewhere
  <2> QED BY <1>2, <2>3
<1> QED BY <1>1, <1>2 DEF LibraryInv

\* A request failed.
LEMMA FailsKeeps ==
  ASSUME L!LibraryAssumption, LibraryInv, NEW t \in Threads, L!Fails(t),
         \/ threads[t].op = "load" /\ threads[t].at = "read"
         \/ threads[t].op \in {"save", "unsave"} /\ threads[t].at = "call"
  PROVE  LibraryInv'
<1> DEFINE r == threads[t]
           j == r.kind
           u == [r EXCEPT !.at = "answer", !.ok = FALSE]
<1>0. LibraryTyped
  BY DEF LibraryInv
<1>1. r \in Changes \cup Loads
  BY <1>0, ThreadIs
<1>2. /\ u \in Changes \cup Loads /\ u.op = r.op /\ u.kind = r.kind /\ u.at = "answer" /\ ~u.ok
      /\ (r.op # "load" => u.item = r.item)
  BY <1>1 DEF Changes, Loads
<1>3. j \in LibraryKinds /\ Of(j, r) /\ Of(j, u)
  BY <1>1, <1>2 DEF Changes, Loads, Of
<1>4. threads' = [threads EXCEPT ![t] = u] /\ UNCHANGED <<server, cache, saved, alerts, orderly>>
  BY DEF L!Fails, L!Set
<1> HIDE DEF u
<1>5. Moves(j, t, u)
  <2>1. u \in {L!Idle} \cup Changes \cup Loads
    BY <1>2
  <2> HIDE DEF j
  <2> QED BY <1>0, <1>3, <1>4, <2>1, ThreadMoves
<1>51. StepOf(j, threads, t, threads') /\ threads'[t] = u
  BY <1>5 DEF Moves
<1>6. ASSUME orderly' PROVE Sound(j, server[j], cache[j], saved[j], threads', alerts)
  <2>1. Sound(j, server[j], cache[j], saved[j], threads, alerts)
    BY <1>3, <1>4, <1>6 DEF LibraryInv
  <2>2. CASE r.op = "load"
    <3>1. LoadIsRight(j, server[j], threads'[t])
      BY <1>2, <1>3, <1>51, <2>2 DEF LoadIsRight
    <3> HIDE DEF j
    <3> QED BY <1>0, <1>51, <2>1, <2>2, <3>1, LoadGoesOn, LoadsNeverClear
  <2>3. CASE r.op # "load"
    <3>1. ChangeIsRight(j, server[j], threads[t], server[j], threads'[t])
      BY <1>2, <1>3, <1>51, <2>3 DEF ChangeIsRight
    <3>2. CachedRight(j, server[j], cache[j], threads')
      BY <1>51, <2>1, <2>3 DEF Sound, CachedRight, StepOf
    <3> HIDE DEF j
    <3> QED BY <1>51, <2>1, <3>1, <3>2, ChangeGoesOn
  <2> QED BY <2>2, <2>3
<1>7. server' \in [LibraryKinds -> Seq(Savable)] /\ Apart(server'[j]) /\ DOMAIN cache' = LibraryKinds
      /\ DOMAIN cache'[j] \subseteq Nat /\ (\A o \in DOMAIN cache'[j] : cache'[j][o] \in PageSet)
      /\ saved' \in [LibraryKinds -> ListPromises] /\ alerts \subseteq alerts' /\ orderly' \in BOOLEAN
  BY <1>0, <1>3, <1>4 DEF LibraryTyped
<1> HIDE DEF j
<1> QED BY <1>4, <1>5, <1>6, <1>7, ThreadGood

\* A page that is the service's is put behind what was loaded.
LEMMA PageTaken ==
  ASSUME L!LibraryAssumption, NEW r \in Loads, NEW pg \in PageSet
  PROVE  LET u == L!Next1(r, pg) IN
         /\ u \in Loads /\ u.kind = r.kind /\ u.ok = r.ok /\ u.at \in {"read", "answer"}
         /\ \A s \in Seq(Savable) :
              Apart(s) /\ Cardinality(Savable) <= LibraryLimit /\ r.got = Prefix(s, r.off) /\ pg = PageIn(s, r.off) =>
                /\ u.at = "read" => u.got = Prefix(s, u.off)
                /\ u.at = "answer" => u.got = s
<1> DEFINE u == L!Next1(r, pg)
           goes == pg.total > r.off /\ r.off < LibraryLimit
<1>0. LibraryPageSize \in Nat \ {0} /\ LibraryLimit \in Nat
  BY DEF L!LibraryAssumption
<1>1. r.off \in Nat /\ r.got \in Seq(Savable) /\ pg.items \in Seq(Savable) /\ pg.total \in Nat
  BY DEF Loads, PageSet
<1>2. L!NoPage \in PageSet
  BY DEF L!NoPage, PageSet
<1>3. r.got \o pg.items \in Seq(Savable)
  BY <1>1
<1>4. CASE goes
  <2>1. u = [r EXCEPT !.got = r.got \o pg.items, !.page = L!NoPage, !.at = "read", !.off = r.off + LibraryPageSize]
    BY <1>4 DEF L!Next1, Loads
  <2>2. u \in Loads /\ u.kind = r.kind /\ u.ok = r.ok /\ u.at = "read" /\ u.off = r.off + LibraryPageSize
        /\ u.got = r.got \o pg.items
    <3> DEFINE g == r.got \o pg.items
               o == r.off + LibraryPageSize
    <3>1. g \in Seq(Savable) /\ o \in Nat
      BY <1>0, <1>1, <1>3
    <3>2. u = [r EXCEPT !.got = g, !.page = L!NoPage, !.at = "read", !.off = o]
      BY <2>1
    <3> HIDE DEF g, o, u
    <3>3. u = [op |-> r.op, kind |-> r.kind, at |-> "read", off |-> o, got |-> g, page |-> L!NoPage, ok |-> r.ok]
      BY <3>2 DEF Loads
    <3>4. r.op = "load" /\ r.kind \in LibraryKinds /\ r.ok \in BOOLEAN
      BY DEF Loads
    <3>5. u \in Loads
      BY <1>2, <3>1, <3>3, <3>4 DEF Loads
    <3> QED BY <3>3, <3>5 DEF g, o
  <2>3. ASSUME NEW s \in Seq(Savable), r.got = Prefix(s, r.off), pg = PageIn(s, r.off)
        PROVE  u.got = Prefix(s, u.off)
    <3>1. Prefix(s, r.off) \o PageIn(s, r.off).items = Prefix(s, r.off + LibraryPageSize)
      BY <1>1, PagesJoin
    <3> QED BY <2>2, <2>3, <3>1
  <2> QED BY <2>2, <2>3
<1>5. CASE ~goes
  <2>1. u = [r EXCEPT !.got = r.got \o pg.items, !.page = L!NoPage, !.at = "answer"]
    BY <1>5 DEF L!Next1, Loads
  <2>2. u \in Loads /\ u.kind = r.kind /\ u.ok = r.ok /\ u.at = "answer" /\ u.got = r.got \o pg.items
    BY <1>1, <1>2, <1>3, <2>1 DEF Loads
  <2>3. ASSUME NEW s \in Seq(Savable), Apart(s), Cardinality(Savable) <= LibraryLimit,
               r.got = Prefix(s, r.off), pg = PageIn(s, r.off)
        PROVE  u.got = s
    <3>1. pg.total = Len(s)
      BY <2>3 DEF PageIn
    <3>2. Len(s) \in Nat /\ Len(s) <= Cardinality(Savable) /\ Cardinality(Savable) \in Nat
      BY <2>3, NoLonger
    <3>3. Len(s) <= r.off /\ Len(s) <= r.off + LibraryPageSize
      BY <1>0, <1>1, <1>5, <2>3, <3>1, <3>2
    <3>4. Prefix(s, r.off + LibraryPageSize) = s
      <4>1. s \in Seq(Savable) /\ r.off + LibraryPageSize \in Nat
        BY <1>0, <1>1
      <4> QED BY <1>0, <3>3, <4>1, PrefixFacts, Zenon
    <3>5. Prefix(s, r.off) \o PageIn(s, r.off).items = Prefix(s, r.off + LibraryPageSize)
      BY <1>1, PagesJoin
    <3> QED BY <2>2, <2>3, <3>4, <3>5
  <2> QED BY <2>2, <2>3
<1> QED BY <1>4, <1>5

AllOf(s, d) == \A o \in DOMAIN d : d[o] = PageIn(s, o)

\* Where what a load r has is the service's list s, and so are the cached pages c, the
\* same holds after it became u and the pages d.
Continues(s, r, c, u, d) ==
  AllOf(s, c) /\ r.got = Prefix(s, r.off) /\ (r.at = "store" => r.page = PageIn(s, r.off)) =>
    /\ u.at = "store" => u.page = PageIn(s, u.off)
    /\ u.at # "answer" => u.got = Prefix(s, u.off)
    /\ u.at = "answer" /\ u.ok => u.got = s
    /\ AllOf(s, d)

LEMMA LoadKeeps ==
  ASSUME L!LibraryAssumption, LibraryInv, NEW t, NEW j, NEW u \in Loads, Moves(j, t, u), threads[t] \in Loads,
         threads[t].at # "answer", UNCHANGED <<server, saved, alerts, orderly>>,
         NEW d, DOMAIN cache' = LibraryKinds, cache'[j] = d, \A k \in LibraryKinds \ {j} : cache'[k] = cache[k],
         DOMAIN d \subseteq Nat, \A o \in DOMAIN d : d[o] \in PageSet,
         Continues(server[j], threads[t], cache[j], u, d)
  PROVE  LibraryInv'
<1> DEFINE r == threads[t]
           s == server[j]
<1>0. LibraryTyped
  BY DEF LibraryInv
<1>1. StepOf(j, threads, t, threads') /\ threads'[t] = u /\ j \in LibraryKinds /\ t \in Threads /\ Of(j, r) /\ Of(j, u)
  BY DEF Moves, StepOf, Loads, L!Idle
<1>2. r.op = "load" /\ u.op = "load"
  BY DEF Loads
<1>5. ASSUME orderly' PROVE Sound(j, s, d, saved[j], threads', alerts)
  <2>1. Sound(j, s, cache[j], saved[j], threads, alerts)
    BY <1>1, <1>5 DEF LibraryInv
  <2>2. \A w \in Threads : Of(j, threads[w]) => threads[w].op = "load"
    BY <1>1, <1>2, <2>1 DEF Sound, Alike
  <2>3. NeverClears(threads)
    BY <1>0, LoadsNeverClear
  <2>4. AllOf(s, cache[j])
    BY <2>1, <2>2, <2>3 DEF Sound, CachedRight, AllOf, NeverClears
  <2>5. r.got = Prefix(s, r.off) /\ (r.at = "store" => r.page = PageIn(s, r.off))
    BY <1>1, <1>2, <2>1 DEF Sound, LoadedRight
  <2>6. LoadIsRight(j, s, threads'[t]) /\ AllOf(s, d)
    BY <1>1, <1>2, <2>4, <2>5 DEF Continues, LoadIsRight
  <2>7. Sound(j, s, cache[j], saved[j], threads', alerts)
    BY <1>1, <1>2, <2>1, <2>3, <2>6, LoadGoesOn
  <2> QED BY <2>6, <2>7 DEF Sound, CachedRight, AllOf
<1>6. server' \in [LibraryKinds -> Seq(Savable)] /\ Apart(server'[j])
      /\ DOMAIN cache'[j] \subseteq Nat /\ (\A o \in DOMAIN cache'[j] : cache'[j][o] \in PageSet)
      /\ saved' \in [LibraryKinds -> ListPromises] /\ alerts \subseteq alerts' /\ orderly' \in BOOLEAN
  BY <1>0, <1>1 DEF LibraryTyped
<1> QED BY <1>5, <1>6, ThreadGood

LEMMA ReadPageKeeps ==
  ASSUME L!LibraryAssumption, Cardinality(Savable) <= LibraryLimit, LibraryInv, NEW t \in Threads, L!ReadPage(t)
  PROVE  LibraryInv'
<1> DEFINE r == threads[t]
           j == r.kind
           s == server[j]
           c == cache[j]
           v == [r EXCEPT !.at = "store", !.page = L!PageAt(j, r.off)]
           u == IF r.off \in DOMAIN c THEN L!Next1(r, c[r.off]) ELSE v
<1>0. LibraryTyped
  BY DEF LibraryInv
<1>1. r.op = "load" /\ r.at = "read" /\ r \in Loads
  BY <1>0, ThreadIs DEF L!ReadPage
<1>2. j \in LibraryKinds /\ r.off \in Nat /\ s \in Seq(Savable) /\ Apart(s) /\ DOMAIN c \subseteq Nat
      /\ \A o \in DOMAIN c : c[o] \in PageSet
  BY <1>0, <1>1 DEF Loads, LibraryTyped
<1>3. L!PageAt(j, r.off) = PageIn(s, r.off) /\ PageIn(s, r.off) \in PageSet
  BY <1>2, PrefixFacts DEF L!PageAt, PageIn, L!LibraryAssumption, PageSet
<1>4. CASE L!Fails(t)
  BY <1>1, <1>4, FailsKeeps
<1>5. CASE threads' = [threads EXCEPT ![t] = u] /\ UNCHANGED <<server, cache, saved, alerts, orderly>>
  <2>0. /\ DOMAIN cache' = LibraryKinds /\ cache'[j] = c /\ \A k \in LibraryKinds \ {j} : cache'[k] = cache[k]
        /\ UNCHANGED <<server, saved, alerts, orderly>> /\ r.at # "answer"
    BY <1>0, <1>1, <1>5 DEF LibraryTyped
  <2>1. u \in Loads /\ u.kind = j /\ Continues(s, r, c, u, c)
    <3>1. CASE r.off \in DOMAIN c
      <4> DEFINE g == c[r.off]
      <4>1. u = L!Next1(r, g) /\ g \in PageSet
        BY <1>2, <3>1
      <4> HIDE DEF g, u
      <4>2. u \in Loads /\ u.kind = j /\ u.at \in {"read", "answer"}
        BY <1>1, <4>1, PageTaken
      <4>3. ASSUME AllOf(s, c), r.got = Prefix(s, r.off)
            PROVE  (u.at = "read" => u.got = Prefix(s, u.off)) /\ (u.at = "answer" => u.got = s)
        <5>1. g = PageIn(s, r.off)
          BY <3>1, <4>3 DEF AllOf, g
        <5> QED BY <1>1, <1>2, <4>1, <4>3, <5>1, PageTaken
      <4> QED BY <4>2, <4>3 DEF Continues
    <3>2. CASE r.off \notin DOMAIN c
      <4>1. u = [r EXCEPT !.at = "store", !.page = PageIn(s, r.off)]
        BY <1>3, <3>2
      <4> HIDE DEF u
      <4>2. u \in Loads /\ u.kind = j /\ u.at = "store" /\ u.off = r.off /\ u.got = r.got /\ u.page = PageIn(s, r.off)
        BY <1>1, <1>3, <4>1 DEF Loads
      <4> QED BY <4>2 DEF Continues
    <3> QED BY <3>1, <3>2
  <2> HIDE DEF u
  <2>2. Moves(j, t, u)
    <3>1. Of(j, r) /\ Of(j, u) /\ u \in {L!Idle} \cup Changes \cup Loads
      BY <1>1, <2>1 DEF Of, Loads
    <3> HIDE DEF j
    <3> QED BY <1>0, <1>2, <1>5, <3>1, ThreadMoves
  <2> HIDE DEF j
  <2> QED BY <1>1, <1>2, <2>0, <2>1, <2>2, LoadKeeps
<1>6. L!Fails(t) \/ (threads' = [threads EXCEPT ![t] = u] /\ UNCHANGED <<server, cache, saved, alerts, orderly>>)
  BY DEF L!ReadPage, L!Set
<1> QED BY <1>4, <1>5, <1>6

LEMMA StorePageKeeps ==
  ASSUME L!LibraryAssumption, Cardinality(Savable) <= LibraryLimit, LibraryInv, NEW t \in Threads, L!StorePage(t)
  PROVE  LibraryInv'
<1> DEFINE r == threads[t]
           j == r.kind
           s == server[j]
           c == cache[j]
           u == L!Next1(r, r.page)
           d == [o \in DOMAIN c \cup {r.off} |-> IF o = r.off THEN r.page ELSE c[o]]
<1>0. LibraryTyped
  BY DEF LibraryInv
<1>1. r.op = "load" /\ r.at = "store" /\ r \in Loads
  BY <1>0, ThreadIs DEF L!StorePage
<1>2. j \in LibraryKinds /\ r.off \in Nat /\ r.page \in PageSet /\ s \in Seq(Savable) /\ Apart(s)
      /\ DOMAIN c \subseteq Nat /\ \A o \in DOMAIN c : c[o] \in PageSet
  BY <1>0, <1>1 DEF Loads, LibraryTyped
<1>3. /\ threads' = [threads EXCEPT ![t] = u] /\ UNCHANGED <<server, saved, alerts, orderly>>
      /\ cache' = [cache EXCEPT ![j] = d]
  BY DEF L!StorePage, L!Set
<1>7. DOMAIN cache' = LibraryKinds /\ cache'[j] = d /\ \A k \in LibraryKinds \ {j} : cache'[k] = cache[k]
  BY <1>0, <1>2, <1>3 DEF LibraryTyped
<1>4. DOMAIN d \subseteq Nat /\ \A o \in DOMAIN d : d[o] \in PageSet
  BY <1>2
<1>5. u \in Loads /\ u.kind = r.kind /\ u.at \in {"read", "answer"}
  BY <1>1, <1>2, PageTaken
<1>6. Continues(s, r, c, u, d)
  <2> SUFFICES ASSUME AllOf(s, c), r.got = Prefix(s, r.off), r.page = PageIn(s, r.off)
               PROVE  /\ (u.at = "read" => u.got = Prefix(s, u.off)) /\ (u.at = "answer" => u.got = s)
                      /\ AllOf(s, d)
    BY <1>1, <1>5 DEF Continues
  <2>1. AllOf(s, d)
    BY DEF AllOf
  <2> QED BY <1>1, <1>2, <2>1, PageTaken
<1>8. r.at # "answer" /\ UNCHANGED <<server, saved, alerts, orderly>>
  BY <1>1, <1>3
<1> HIDE DEF u, d
<1>9. Moves(j, t, u)
  <2>1. Of(j, r) /\ Of(j, u) /\ u \in {L!Idle} \cup Changes \cup Loads
    BY <1>1, <1>5 DEF Of, Loads
  <2> HIDE DEF j
  <2> QED BY <1>0, <1>2, <1>3, <2>1, ThreadMoves
<1> HIDE DEF j
<1> QED BY <1>1, <1>4, <1>5, <1>6, <1>7, <1>8, <1>9, LoadKeeps

\* A change goes on.
LEMMA ChangeMoves ==
  ASSUME LibraryTyped, NEW t \in Threads, threads[t] \in Changes, NEW u \in Changes, u.kind = threads[t].kind,
         threads' = [threads EXCEPT ![t] = u]
  PROVE  Moves(threads[t].kind, t, u) /\ Of(threads[t].kind, u)
<1>1. threads[t].kind \in LibraryKinds /\ Of(threads[t].kind, threads[t]) /\ Of(threads[t].kind, u)
      /\ u \in {L!Idle} \cup Changes \cup Loads
  BY DEF Changes, Of
<1> QED BY <1>1, ThreadMoves

LEMMA ChangeKeeps ==
  ASSUME L!LibraryAssumption, LibraryInv, NEW t \in Threads, L!Change(t)
  PROVE  LibraryInv'
<1> DEFINE r == threads[t]
           j == r.kind
           s == server[j]
           u == [r EXCEPT !.at = "clear"]
           z == IF r.op = "unsave" THEN L!Without(s, r.item)
                ELSE IF r.item \in L!Ids(s) THEN s ELSE <<r.item>> \o s
<1>0. LibraryTyped
  BY DEF LibraryInv
<1>1. r.op \in {"save", "unsave"} /\ r.at = "call" /\ r \in Changes
  BY <1>0, ThreadIs DEF L!Change
<1>2. CASE L!Fails(t)
  BY <1>1, <1>2, FailsKeeps
<1>3. CASE /\ server' = [server EXCEPT ![j] = z] /\ threads' = [threads EXCEPT ![t] = u]
           /\ UNCHANGED <<cache, saved, alerts, orderly>>
  <2>1. u \in Changes /\ u.op = r.op /\ u.kind = r.kind /\ u.item = r.item /\ u.at = "clear" /\ u.ok = r.ok
    BY <1>1 DEF Changes
  <2> HIDE DEF u
  <2>2. Moves(j, t, u) /\ Of(j, u)
    BY <1>0, <1>1, <1>3, <2>1, ChangeMoves
  <2>21. StepOf(j, threads, t, threads') /\ threads'[t] = u /\ j \in LibraryKinds
    BY <2>2 DEF Moves
  <2>3. s \in Seq(Savable) /\ Apart(s) /\ r.item \in Savable
    BY <1>0, <1>1, <2>21 DEF LibraryTyped, Changes
  <2>4. /\ z \in Seq(Savable) /\ Apart(z)
        /\ L!Ids(z) = IF r.op = "save" THEN L!Ids(s) \cup {r.item} ELSE L!Ids(s) \ {r.item}
    <3>1. CASE r.op = "unsave"
      BY <2>3, <3>1, WithoutFacts
    <3>2. CASE r.op # "unsave" /\ r.item \in L!Ids(s)
      BY <1>1, <2>3, <3>2
    <3>3. CASE r.op # "unsave" /\ r.item \notin L!Ids(s)
      <4>1. z = <<r.item>> \o s /\ r.op = "save"
        BY <1>1, <3>3
      <4> DEFINE x == r.item
                 a == <<x>> \o s
      <4>2. a \in Seq(Savable) /\ Len(a) = Len(s) + 1 /\ a[1] = x /\ \A i \in 1..Len(s) : a[i + 1] = s[i]
        BY <2>3
      <4>3. DOMAIN a = 1..(Len(s) + 1) /\ DOMAIN s = 1..Len(s) /\ Len(s) \in Nat
        BY <2>3, <4>2
      <4> HIDE DEF a
      <4>4. \A i \in DOMAIN a : i = 1 \/ (i - 1 \in DOMAIN s /\ a[i] = s[i - 1])
        BY <4>2, <4>3
      <4>5. \A i \in DOMAIN s : i + 1 \in DOMAIN a /\ a[i + 1] = s[i]
        BY <4>2, <4>3
      <4>6. L!Ids(a) = L!Ids(s) \cup {x}
        <5>1. L!Ids(a) \subseteq L!Ids(s) \cup {x}
          BY <4>2, <4>4 DEF L!Ids
        <5>2. L!Ids(s) \subseteq L!Ids(a)
          BY <4>5 DEF L!Ids
        <5>3. x \in L!Ids(a)
          <6>1. 1 \in DOMAIN a
            BY <4>3
          <6> QED BY <4>2, <6>1 DEF L!Ids
        <5> QED BY <5>1, <5>2, <5>3
      <4>7. Apart(a)
        <5> SUFFICES ASSUME NEW m \in DOMAIN a, NEW i \in DOMAIN a, a[m] = a[i] PROVE m = i
          BY DEF Apart
        <5>1. \A l \in DOMAIN s : s[l] # x
          BY <3>3 DEF L!Ids
        <5>2. CASE m = 1
          BY <4>2, <4>4, <5>1, <5>2
        <5>3. CASE i = 1
          BY <4>2, <4>4, <5>1, <5>3
        <5>4. CASE m # 1 /\ i # 1
          <6>1. m - 1 = i - 1
            BY <2>3, <4>4, <5>4 DEF Apart
          <6> QED BY <4>3, <6>1
        <5> QED BY <5>2, <5>3, <5>4
      <4> QED BY <4>1, <4>2, <4>6, <4>7 DEF a
    <3> QED BY <3>1, <3>2, <3>3
  <2>5. server' \in [LibraryKinds -> Seq(Savable)] /\ server'[j] = z /\ \A k \in LibraryKinds \ {j} : server'[k] = server[k]
    BY <1>0, <1>3, <2>21, <2>4 DEF LibraryTyped
  <2>6. ASSUME orderly' PROVE Sound(j, z, cache[j], saved[j], threads', alerts)
    <3>1. Sound(j, s, cache[j], saved[j], threads, alerts)
      BY <1>3, <2>21, <2>6 DEF LibraryInv
    <3>2. ChangeIsRight(j, s, threads[t], z, threads'[t])
      <4>1. r.ok
        BY <1>1 DEF Changes
      <4> QED BY <1>1, <2>1, <2>2, <2>21, <2>4, <4>1 DEF ChangeIsRight
    <3>3. CachedRight(j, z, cache[j], threads')
      BY <2>1, <2>2, <2>21 DEF CachedRight, StepOf
    <3> HIDE DEF z, j, s
    <3> QED BY <2>21, <3>1, <3>2, <3>3, ChangeGoesOn
  <2>7. DOMAIN cache' = LibraryKinds
        /\ DOMAIN cache'[j] \subseteq Nat /\ (\A o \in DOMAIN cache'[j] : cache'[j][o] \in PageSet)
        /\ saved' \in [LibraryKinds -> ListPromises] /\ alerts \subseteq alerts' /\ orderly' \in BOOLEAN
        /\ UNCHANGED <<cache, saved, alerts, orderly>>
    BY <1>0, <1>3, <2>21 DEF LibraryTyped
  <2> HIDE DEF j, z
  <2> QED BY <2>2, <2>4, <2>5, <2>6, <2>7, ThreadGood
<1>4. \/ L!Fails(t)
      \/ /\ server' = [server EXCEPT ![j] = z] /\ threads' = [threads EXCEPT ![t] = u]
         /\ UNCHANGED <<cache, saved, alerts, orderly>>
  BY DEF L!Change, L!Set
<1> QED BY <1>2, <1>3, <1>4

\* A lost reply makes the order of things no longer known.
LEMMA ReplyLostKeeps ==
  ASSUME L!LibraryAssumption, LibraryInv, NEW t \in Threads, L!ReplyLost(t)
  PROVE  LibraryInv'
<1>0. LibraryTyped
  BY DEF LibraryInv
<1>1. threads[t] \in Changes /\ threads' = [threads EXCEPT ![t] = [threads[t] EXCEPT !.at = "answer", !.ok = FALSE]]
      /\ ~orderly' /\ orderly' \in BOOLEAN /\ UNCHANGED <<server, cache, saved>>
  BY <1>0, ThreadIs DEF L!ReplyLost, L!Set
<1>2. [threads[t] EXCEPT !.at = "answer", !.ok = FALSE] \in Changes
  BY <1>1 DEF Changes
<1>3. threads' \in [Threads -> {L!Idle} \cup Changes \cup Loads]
  BY <1>0, <1>1, <1>2 DEF LibraryTyped
<1> QED BY <1>0, <1>1, <1>3 DEF LibraryInv, LibraryTyped

LEMMA ClearBucketKeeps ==
  ASSUME L!LibraryAssumption, LibraryInv, NEW t \in Threads, L!ClearBucket(t)
  PROVE  LibraryInv'
<1> DEFINE r == threads[t]
           j == r.kind
           s == server[j]
           u == [r EXCEPT !.at = "answer"]
           d == [o \in {} |-> 0]
<1>0. LibraryTyped
  BY DEF LibraryInv
<1>1. r.op \in {"save", "unsave"} /\ r.at = "clear" /\ r \in Changes
  BY <1>0, ThreadIs DEF L!ClearBucket
<1>2. /\ cache' = [cache EXCEPT ![j] = d] /\ threads' = [threads EXCEPT ![t] = u]
      /\ UNCHANGED <<server, saved, alerts, orderly>>
  BY DEF L!ClearBucket, L!Set
<1>3. u \in Changes /\ u.op = r.op /\ u.kind = r.kind /\ u.item = r.item /\ u.at = "answer" /\ u.ok = r.ok
  BY <1>1 DEF Changes
<1> HIDE DEF u
<1>4. Moves(j, t, u) /\ Of(j, u)
  BY <1>0, <1>1, <1>2, <1>3, ChangeMoves
<1>41. StepOf(j, threads, t, threads') /\ threads'[t] = u /\ j \in LibraryKinds
  BY <1>4 DEF Moves
<1>5. DOMAIN d = {}
  OBVIOUS
<1>6. DOMAIN cache' = LibraryKinds /\ cache'[j] = d /\ \A k \in LibraryKinds \ {j} : cache'[k] = cache[k]
  BY <1>0, <1>2, <1>41 DEF LibraryTyped
<1> HIDE DEF d
<1>7. ASSUME orderly' PROVE Sound(j, s, d, saved[j], threads', alerts)
  <2>1. Sound(j, s, cache[j], saved[j], threads, alerts)
    BY <1>2, <1>41, <1>7 DEF LibraryInv
  <2>2. r.ok
    BY <1>1 DEF Changes
  <2>3. r.op = "save" <=> r.item \in L!Ids(s)
    BY <1>1, <1>41, <2>1, <2>2 DEF Sound, ChangedRight, StepOf
  <2>4. L!Ids(s) = IF r.op = "save" THEN L!Ids(s) \cup {r.item} ELSE L!Ids(s) \ {r.item}
    BY <2>3
  <2>5. ChangeIsRight(j, s, threads[t], s, threads'[t])
    BY <1>1, <1>3, <1>4, <1>41, <2>2, <2>4 DEF ChangeIsRight
  <2>6. CachedRight(j, s, d, threads')
    BY <1>5 DEF CachedRight
  <2> HIDE DEF j, s
  <2> QED BY <1>41, <2>1, <2>5, <2>6, ChangeGoesOn
<1>8. saved' \in [LibraryKinds -> ListPromises] /\ server' \in [LibraryKinds -> Seq(Savable)] /\ Apart(server'[j])
      /\ orderly' \in BOOLEAN /\ alerts \subseteq alerts' /\ UNCHANGED <<server, saved, alerts, orderly>>
  BY <1>0, <1>2, <1>41 DEF LibraryTyped
<1> HIDE DEF j
<1> QED BY <1>4, <1>5, <1>6, <1>7, <1>8, ThreadGood

LEMMA LoadAnswerKeeps ==
  ASSUME L!LibraryAssumption, LibraryInv, NEW t \in Threads, L!LoadAnswer(t)
  PROVE  LibraryInv'
<1> DEFINE r == threads[t]
           j == r.kind
           s == server[j]
           q == L!Updated(saved[j], "list", r.ok, L!New(r.got))
<1>0. LibraryTyped
  BY DEF LibraryInv
<1>1. r.op = "load" /\ r.at = "answer" /\ r \in Loads
  BY <1>0, ThreadIs DEF L!LoadAnswer
<1>2. /\ saved' = [saved EXCEPT ![j] = q] /\ threads' = [threads EXCEPT ![t] = L!Idle]
      /\ UNCHANGED <<server, cache, alerts, orderly>>
  BY DEF L!LoadAnswer, L!Set
<1>3. j \in LibraryKinds /\ Of(j, r) /\ r.got \in Seq(Savable) /\ r.ok \in BOOLEAN
  BY <1>1 DEF Loads, Of
<1>4. Moves(j, t, L!Idle)
  BY <1>0, <1>2, <1>3, ThreadMoves
<1>41. StepOf(j, threads, t, threads') /\ threads'[t] = L!Idle
  BY <1>4 DEF Moves
<1>5. q \in ListPromises
  <2>1. L!New(r.got) \in [list : Seq(Savable), set : SUBSET Savable]
    BY <1>3 DEF L!New, L!Ids
  <2>2. saved[j] \in ListPromises
    BY <1>0, <1>3 DEF LibraryTyped
  <2> QED BY <2>1, <2>2 DEF L!Updated, L!Resolved, L!Rejected, ListPromises
<1>6. ASSUME orderly' PROVE Sound(j, s, cache[j], q, threads', alerts)
  <2>1. Sound(j, s, cache[j], saved[j], threads, alerts)
    BY <1>2, <1>3, <1>6 DEF LibraryInv
  <2>2. NeverClears(threads)
    BY <1>0, LoadsNeverClear
  <2> HIDE DEF j, s
  <2> QED BY <1>1, <1>41, <2>1, <2>2, LoadEnds
<1> HIDE DEF q
<1>7. saved' \in [LibraryKinds -> ListPromises] /\ saved'[j] = q /\ \A k \in LibraryKinds \ {j} : saved'[k] = saved[k]
  BY <1>0, <1>2, <1>3, <1>5 DEF LibraryTyped
<1> HIDE DEF j
<1>8. /\ server' \in [LibraryKinds -> Seq(Savable)] /\ Apart(server'[j]) /\ DOMAIN cache' = LibraryKinds
      /\ DOMAIN cache'[j] \subseteq Nat /\ \A o \in DOMAIN cache'[j] : cache'[j][o] \in PageSet
      /\ orderly' \in BOOLEAN /\ alerts \subseteq alerts' /\ UNCHANGED <<server, cache, alerts, orderly>>
  BY <1>0, <1>2, <1>3 DEF LibraryTyped
<1> QED BY <1>4, <1>6, <1>7, <1>8, ThreadGood

LEMMA ChangeAnswerKeeps ==
  ASSUME L!LibraryAssumption, LibraryInv, NEW t \in Threads, L!ChangeAnswer(t)
  PROVE  LibraryInv'
<1> DEFINE r == threads[t]
           j == r.kind
           s == server[j]
<1>0. LibraryTyped
  BY DEF LibraryInv
<1>1. r.op \in {"save", "unsave"} /\ r.at = "answer" /\ r \in Changes
  BY <1>0, ThreadIs DEF L!ChangeAnswer
<1>2. /\ alerts' = alerts \cup {IF r.ok THEN "info" ELSE "error"} /\ threads' = [threads EXCEPT ![t] = L!Idle]
      /\ UNCHANGED <<server, cache, saved, orderly>>
  BY DEF L!ChangeAnswer, L!Set
<1>3. j \in LibraryKinds /\ Of(j, r)
  BY <1>1 DEF Changes, Of
<1>4. Moves(j, t, L!Idle)
  BY <1>0, <1>2, <1>3, ThreadMoves
<1>41. StepOf(j, threads, t, threads') /\ threads'[t] = L!Idle
  BY <1>4 DEF Moves
<1>5. ASSUME orderly' PROVE Sound(j, s, cache[j], saved[j], threads', alerts')
  <2>1. Sound(j, s, cache[j], saved[j], threads, alerts)
    BY <1>2, <1>3, <1>5 DEF LibraryInv
  <2>2. alerts' = alerts \cup {IF threads[t].ok THEN "info" ELSE "error"}
    BY <1>2
  <2> HIDE DEF j, s
  <2> QED BY <1>1, <1>41, <2>1, <2>2, ChangeEnds
<1> HIDE DEF j
<1>6. /\ server' \in [LibraryKinds -> Seq(Savable)] /\ Apart(server'[j]) /\ DOMAIN cache' = LibraryKinds
      /\ DOMAIN cache'[j] \subseteq Nat /\ \A o \in DOMAIN cache'[j] : cache'[j][o] \in PageSet
      /\ saved' \in [LibraryKinds -> ListPromises] /\ orderly' \in BOOLEAN /\ alerts \subseteq alerts'
      /\ UNCHANGED <<server, cache, saved, orderly>>
  BY <1>0, <1>2, <1>3 DEF LibraryTyped
<1> QED BY <1>4, <1>5, <1>6, ThreadGood

\* LibraryIsServers: while no command overlapped another of its kind and no change
\* failed, and when no save, removal or load is on its way, the list that the library
\* shows is the one that the service has, whatever pages the cache held and however
\* often the program restarted. Each command of ui/library.rs changes the list as the
\* service will change its own, and webapi/client.rs removes the cached pages after
\* each change. The list must fit the limit of the paging.
THEOREM LibraryAgrees ==
  ASSUME L!LibraryAssumption, Cardinality(Savable) <= LibraryLimit
  PROVE  L!Spec => []LibraryIsServers
<1>1. L!Init => LibraryInv
  BY InitGood
<1>2. LibraryInv /\ [L!Next]_(L!vars) => LibraryInv'
  <2> SUFFICES ASSUME LibraryInv, [L!Next]_(L!vars) PROVE LibraryInv'
    OBVIOUS
  <2>1. CASE UNCHANGED L!vars
    BY <2>1 DEF L!vars, LibraryInv, LibraryTyped
  <2>2. CASE L!Restart
    BY <2>2, RestartKeeps
  <2>3. ASSUME NEW k \in LibraryKinds, L!Visit(k) \/ L!RetryLoad(k) PROVE LibraryInv'
    BY <2>3, VisitKeeps, RetryLoadKeeps
  <2>4. ASSUME NEW x \in Savable,
               L!SaveTrack(x) \/ L!UnsaveTrack(x) \/ L!SaveAlbum(x) \/ L!UnsaveAlbum(x) \/ L!SaveShow(x) \/ L!UnsaveShow(x)
        PROVE  LibraryInv'
    <3>1. \E k \in LibraryKinds : L!Save(k, x) \/ L!Unsave(k, x)
      BY <2>4 DEF L!SaveTrack, L!UnsaveTrack, L!SaveAlbum, L!UnsaveAlbum, L!SaveShow, L!UnsaveShow
    <3> QED BY <3>1, SaveKeeps, UnsaveKeeps
  <2>5. ASSUME NEW t \in Threads, L!Work(t) PROVE LibraryInv'
    <3>1. CASE L!ReadPage(t)
      BY <3>1, ReadPageKeeps
    <3>2. CASE L!StorePage(t)
      BY <3>2, StorePageKeeps
    <3>3. CASE L!Change(t)
      BY <3>3, ChangeKeeps
    <3>4. CASE L!ReplyLost(t)
      BY <3>4, ReplyLostKeeps
    <3>5. CASE L!ClearBucket(t)
      BY <3>5, ClearBucketKeeps
    <3>6. CASE L!LoadAnswer(t)
      BY <3>6, LoadAnswerKeeps
    <3>7. CASE L!ChangeAnswer(t)
      BY <3>7, ChangeAnswerKeeps
    <3> QED BY <2>5, <3>1, <3>2, <3>3, <3>4, <3>5, <3>6, <3>7 DEF L!Work
  <2> QED BY <2>1, <2>2, <2>3, <2>4, <2>5 DEF L!Next
<1>3. LibraryInv => LibraryIsServers
  <2> SUFFICES ASSUME LibraryInv, orderly, "error" \notin alerts, \A t \in Threads : threads[t] = L!Idle,
                      NEW k \in LibraryKinds, L!IsResolved(saved[k])
               PROVE  saved[k].val.set = L!Ids(server[k]) /\ (k # "shows" => saved[k].val.list = server[k])
    BY DEF LibraryIsServers, L!LibraryIsServers
  <2>1. Sound(k, server[k], cache[k], saved[k], threads, alerts)
    BY DEF LibraryInv
  <2>2. \A t \in Threads : ~Of(k, threads[t])
    BY DEF Of, L!Idle
  <2> QED BY <2>1, <2>2 DEF Sound, ShownRight
<1> QED BY <1>1, <1>2, <1>3, PTL DEF L!Spec
=============================================================================

---------------------------- MODULE Pages_proofs ----------------------------
(***************************************************************************)
(* Proofs about the pages of module Pages.  For each page an inductive     *)
(* invariant, by its name: that it holds where the page is opened (Start), *)
(* that the page's steps keep it (Keeps), and what it gives (Shows).       *)
(***************************************************************************)
EXTENDS Pages, FiniteSetTheorems, TLAPS

-----------------------------------------------------------------------------
(* Records, as functions of their fields' names.                           *)

LEMMA OneChanged ==
  ASSUME NEW D, NEW T, NEW r \in [D -> T], NEW a, NEW x
  PROVE  [r EXCEPT ![a] = x] \in [D -> T \cup {x}]
  OBVIOUS

LEMMA TwoChanged ==
  ASSUME NEW D, NEW T, NEW r \in [D -> T], NEW a, NEW b, NEW x, NEW y
  PROVE  [r EXCEPT ![a] = x, ![b] = y] \in [D -> T \cup {x, y}]
  <1> PICK q : q = [r EXCEPT ![a] = x]
    OBVIOUS
  <1>1. q \in [D -> T \cup {x, y}]
    OBVIOUS
  <1>2. [q EXCEPT ![b] = y] \in [D -> T \cup {x, y}]
    BY <1>1
  <1>3. [q EXCEPT ![b] = y] = [r EXCEPT ![a] = x, ![b] = y]
    OBVIOUS
  <1> QED BY <1>2, <1>3

LEMMA ThreeChanged ==
  ASSUME NEW D, NEW T, NEW r \in [D -> T], NEW a, NEW b, NEW c, NEW x, NEW y, NEW z
  PROVE  [r EXCEPT ![a] = x, ![b] = y, ![c] = z] \in [D -> T \cup {x, y, z}]
  <1> PICK q : q = [r EXCEPT ![a] = x, ![b] = y]
    OBVIOUS
  <1>1. q \in [D -> T \cup {x, y, z}]
    BY TwoChanged
  <1>2. [q EXCEPT ![c] = z] \in [D -> T \cup {x, y, z}]
    BY <1>1
  <1>3. [q EXCEPT ![c] = z] = [r EXCEPT ![a] = x, ![b] = y, ![c] = z]
    OBVIOUS
  <1> QED BY <1>2, <1>3

LEMMA FourChanged ==
  ASSUME NEW D, NEW T, NEW r \in [D -> T], NEW a, NEW b, NEW c, NEW d,
         NEW w, NEW x, NEW y, NEW z
  PROVE  [r EXCEPT ![a] = w, ![b] = x, ![c] = y, ![d] = z] \in [D -> T \cup {w, x, y, z}]
  <1> PICK q : q = [r EXCEPT ![a] = w, ![b] = x, ![c] = y]
    OBVIOUS
  <1>1. q \in [D -> T \cup {w, x, y, z}]
    BY ThreeChanged
  <1>2. [q EXCEPT ![d] = z] \in [D -> T \cup {w, x, y, z}]
    BY <1>1
  <1>3. [q EXCEPT ![d] = z] = [r EXCEPT ![a] = w, ![b] = x, ![c] = y, ![d] = z]
    OBVIOUS
  <1> QED BY <1>2, <1>3

-----------------------------------------------------------------------------
(* Queries and fetches, for all pages.                                     *)

Query == INSTANCE PageQuery

IsQuery(q) == \E S : q \in [{"for", "wire", "carried", "data", "shared"} -> S]

\* What a query has or brings is what there is, unless it shared an answer.
Fresh(q, there) ==
  ~ q.shared => /\ q.wire = "none" => q.data = <<there>>
                /\ q.wire = "back" => q.carried = <<there>>

\* A query that was just asked, for the first time or again, has nothing
\* that could be old.
LEMMA AskedIsFresh ==
  ASSUME NEW q, IsQuery(q), NEW there
  PROVE  IsQuery(Query!Asked(q)) /\ Fresh(Query!Asked(q), there)
  <1> PICK S : q \in [{"for", "wire", "carried", "data", "shared"} -> S]
    BY DEF IsQuery
  <1> Query!Asked(q) \in [{"for", "wire", "carried", "data", "shared"} -> S \cup {"sent", FALSE, TRUE}]
    BY DEF Query!Asked
  <1>1. CASE q.wire = "none"
    BY <1>1 DEF IsQuery, Fresh, Query!Asked
  <1>2. CASE q.wire # "none"
    BY <1>2 DEF IsQuery, Fresh, Query!Asked
  <1> QED BY <1>1, <1>2

LEMMA NewIsFresh ==
  ASSUME NEW v, NEW there
  PROVE  IsQuery(Query!Query(v)) /\ Fresh(Query!Query(v), there)
  <1> DEFINE r == Query!Query(v)
  <1>1. r \in [for : {v}, wire : {"sent"}, carried : {Query!NoData}, data : {Query!NoData}, shared : {FALSE}]
    BY DEF Query!Query
  <1>2. r.wire = "sent"
    BY <1>1
  <1> HIDE DEF r
  <1>3. r \in [{"for", "wire", "carried", "data", "shared"} -> {v, "sent", Query!NoData, FALSE}]
    BY <1>1
  <1> QED BY <1>2, <1>3 DEF r, IsQuery, Fresh

LEMMA ServedIsFresh ==
  ASSUME NEW q, IsQuery(q), NEW there
  PROVE  IsQuery(Query!Served(q, there)) /\ Fresh(Query!Served(q, there), there)
  <1> PICK S : q \in [{"for", "wire", "carried", "data", "shared"} -> S]
    BY DEF IsQuery
  <1> Query!Served(q, there) \in [{"for", "wire", "carried", "data", "shared"} -> S \cup {"back", <<there>>}]
    BY DEF Query!Served
  <1> QED BY DEF IsQuery, Fresh, Query!Served

LEMMA ReceivedIsFresh ==
  ASSUME NEW q, IsQuery(q), q.wire = "back", NEW there
  PROVE  /\ IsQuery(Query!Received(q))
         /\ Query!Received(q).data = q.carried
         /\ Fresh(q, there) => Fresh(Query!Received(q), there)
  <1> PICK S : q \in [{"for", "wire", "carried", "data", "shared"} -> S]
    BY DEF IsQuery
  <1> Query!Received(q) \in [{"for", "wire", "carried", "data", "shared"} -> S \cup {"none", Query!NoData}]
    BY DEF Query!Received
  <1> QED BY DEF IsQuery, Fresh, Query!Received

\* What the server and the wire do leaves the variables and the data alone.
LEMMA QueryKeeps ==
  ASSUME NEW q, IsQuery(q)
  PROVE  /\ \A x : Query!Served(q, x).for = q.for /\ Query!Served(q, x).data = q.data
         /\ Query!Asked(q).for = q.for /\ Query!Asked(q).data = q.data
         /\ Query!Received(q).for = q.for
  <1> PICK S : q \in [{"for", "wire", "carried", "data", "shared"} -> S]
    BY DEF IsQuery
  <1> QED BY DEF Query!Served, Query!Asked, Query!Received

LEMMA QueryWire ==
  ASSUME NEW q, IsQuery(q)
  PROVE  /\ \A x : Query!Served(q, x).wire = "back" /\ Query!Served(q, x).carried = <<x>>
         /\ Query!Received(q).wire = "none" /\ Query!Received(q).data = q.carried
         /\ q.wire = "none" => Query!Asked(q).wire = "sent"
  <1> PICK S : q \in [{"for", "wire", "carried", "data", "shared"} -> S]
    BY DEF IsQuery
  <1> QED BY DEF Query!Served, Query!Asked, Query!Received

LEMMA QueryTyped ==
  ASSUME NEW q, IsQuery(q)
  PROVE  (\A x : IsQuery(Query!Served(q, x))) /\ IsQuery(Query!Asked(q)) /\ IsQuery(Query!Received(q))
  <1> PICK S : q \in [{"for", "wire", "carried", "data", "shared"} -> S]
    BY DEF IsQuery
  <1>1. Query!Received(q) \in [{"for", "wire", "carried", "data", "shared"} -> S \cup {"none", Query!NoData}]
    BY DEF Query!Received
  <1> QED BY <1>1, AskedIsFresh, ServedIsFresh DEF IsQuery

LEMMA ServedIs ==
  ASSUME NEW q, IsQuery(q), NEW x, NEW n, n = Query!Served(q, x)
  PROVE  n.wire = "back" /\ n.carried = <<x>> /\ IsQuery(n)
  BY QueryWire, QueryTyped

LEMMA FreshAtRest ==
  ASSUME NEW q, NEW there, Fresh(q, there), Query!Idle(q), ~ q.shared
  PROVE  q.data = <<there>> /\ Query!Result(q) = there
  BY DEF Fresh, Query!Idle, Query!Result
-----------------------------------------------------------------------------
(* The hubs.                                                               *)

HubPage == [hubName : Hubs!Hubs \cup {""}, isEditing : BOOLEAN, drawerState : BOOLEAN,
            deleteHub : Hubs!Hubs \cup {""}, role : {"Owner", "Viewer"}]
IsHubForm(f) == \E S : f \in [{"type", "loads", "name", "url", "filled", "waits"} -> S]
IsHubRequest(r) ==
  \E S : r \in [{"kind", "id", "url", "filled", "by", "closure", "state"} -> S]

HubTypes ==
  /\ page \in HubPage
  /\ IsHubForm(hubForm) /\ hubForm.type \in {"none", "git", "remote"}
  /\ IsQuery(list)
  /\ \A r \in sends : IsHubRequest(r)

\* A form that is shown is filled exactly when it edits a hub.
FilledInEdits ==
  IF hubForm.type = "none" THEN ~ hubForm.filled
  ELSE IF page.isEditing THEN hubForm.loads \/ hubForm.filled ELSE ~ hubForm.filled

\* Until its answer comes a change that was made may not be listed.
HubsFresh == (\A r \in sends : r.state # "done") => Fresh(list, Hubs!Listed)

HubsInv == HubTypes /\ FilledInEdits /\ HubsFresh /\ Hubs!ConnectsWhatWasTyped

LEMMA HubsQuery ==
  ASSUME NEW q
  PROVE  /\ Hubs!Asked(q) = Query!Asked(q)
         /\ Hubs!Received(q) = Query!Received(q)
         /\ \A x : Hubs!Served(q, x) = Query!Served(q, x)
         /\ Hubs!Query("") = Query!Query("")
         /\ Hubs!Idle(q) = Query!Idle(q)
         /\ Hubs!Result(q) = Query!Result(q)
  BY DEF Hubs!Asked, Query!Asked, Hubs!Received, Query!Received, Hubs!Served, Query!Served,
         Hubs!Query, Query!Query, Hubs!NoData, Query!NoData, Hubs!Idle, Query!Idle,
         Hubs!Result, Query!Result

LEMMA NoHubForm ==
  IsHubForm(Hubs!NoForm) /\ Hubs!NoForm.type = "none" /\ ~ Hubs!NoForm.filled
  <1> DEFINE S == {"none", "", FALSE}
  <1>1. Hubs!NoForm \in [type : S, loads : S, name : S, url : S, filled : S, waits : S]
    BY DEF Hubs!NoForm
  <1>2. Hubs!NoForm \in [{"type", "loads", "name", "url", "filled", "waits"} -> S]
    BY <1>1
  <1> QED BY <1>2 DEF Hubs!NoForm, IsHubForm

LEMMA HubsStart == Hubs!HubsInit => HubsInv
  <1> SUFFICES ASSUME Hubs!HubsInit PROVE HubsInv
    OBVIOUS
  <1>1. page \in HubPage
    <2> PICK r \in {"Owner", "Viewer"} :
          page = [hubName |-> "", isEditing |-> FALSE, drawerState |-> FALSE,
                  deleteHub |-> "", role |-> r]
      BY DEF Hubs!HubsInit
    <2> QED BY DEF HubPage
  <1>2. hubForm = Hubs!NoForm /\ sends = {}
    BY DEF Hubs!HubsInit
  <1>3. IsHubForm(Hubs!NoForm) /\ Hubs!NoForm.type = "none" /\ ~ Hubs!NoForm.filled
    BY NoHubForm
  <1>4. IsQuery(list) /\ Fresh(list, Hubs!Listed)
    BY HubsQuery, NewIsFresh DEF Hubs!HubsInit
  <1> QED BY <1>1, <1>2, <1>3, <1>4 DEF HubsInv, HubTypes, FilledInEdits, HubsFresh, Hubs!ConnectsWhatWasTyped

LEMMA HubsClosed ==
  ASSUME NEW p \in HubPage, NEW n, NEW e
  PROVE  Hubs!Closed(p, n, e) \in HubPage
  BY DEF Hubs!Closed, HubPage

\* A form that mounts.
HubForm(type, loads) == [Hubs!NoForm EXCEPT !.type = type, !.loads = loads]

LEMMA HubsMounted ==
  ASSUME NEW type \in {"git", "remote"}, NEW loads
  PROVE  LET f == HubForm(type, loads)
         IN  IsHubForm(f) /\ f.type = type /\ f.loads = loads /\ ~ f.filled
  <1> DEFINE f == HubForm(type, loads)
  <1> PICK S : Hubs!NoForm \in [{"type", "loads", "name", "url", "filled", "waits"} -> S]
    BY NoHubForm DEF IsHubForm
  <1>1. f \in [{"type", "loads", "name", "url", "filled", "waits"} -> S \cup {type, loads}]
    BY DEF HubForm
  <1>2. f.type = type /\ f.loads = loads /\ f.filled = Hubs!NoForm.filled
    BY DEF HubForm
  <1> QED BY <1>1, <1>2, NoHubForm DEF IsHubForm

LEMMA HubsList ==
  ASSUME Hubs!HubsNext
  PROVE  \/ list' = list
         \/ list' = Query!Asked(list)
         \/ list' = Query!Served(list, Hubs!Listed) /\ UNCHANGED <<server, sends>>
         \/ list.wire = "back" /\ list' = Query!Received(list) /\ UNCHANGED <<server, sends>>
  BY HubsQuery DEF Hubs!HubsNext, Hubs!Serve, Hubs!Receive, Hubs!Connect, Hubs!Back, Hubs!Cancel,
     Hubs!handleSubmit, Hubs!SelectHubType, Hubs!openHubDrawer, Hubs!TypeName, Hubs!TypeUrl,
     Hubs!handleRefresh, Hubs!handleDelete, Hubs!CloseDelete, Hubs!handleHubDelete,
     Hubs!Apply, Hubs!Answered, Hubs!Failed, Hubs!resetDrawer

LEMMA HubsPage ==
  ASSUME HubsInv, Hubs!HubsNext
  PROVE  page' \in HubPage
  <1> page \in HubPage
    BY DEF HubsInv, HubTypes
  <1>1. CASE \E n, e : page' = Hubs!Closed(page, n, e)
    BY <1>1, HubsClosed
  <1>2. CASE page' = page
    BY <1>2
  <1>3. CASE \E h \in Hubs!Hubs : Hubs!openHubDrawer(h) \/ Hubs!handleDelete(h)
    BY <1>3 DEF Hubs!openHubDrawer, Hubs!handleDelete, HubPage
  <1>4. CASE Hubs!Connect \/ Hubs!CloseDelete \/ Hubs!handleHubDelete
    BY <1>4 DEF Hubs!Connect, Hubs!CloseDelete, Hubs!handleHubDelete, HubPage
  <1> QED
    BY <1>1, <1>2, <1>3, <1>4 DEF Hubs!HubsNext, Hubs!Serve, Hubs!Receive, Hubs!Back, Hubs!Cancel,
       Hubs!handleSubmit, Hubs!SelectHubType, Hubs!TypeName, Hubs!TypeUrl,
       Hubs!handleRefresh, Hubs!Apply, Hubs!Answered, Hubs!Failed, Hubs!resetDrawer, Hubs!handleDrawerClose

\* What a step does to the form.
LEMMA HubsFill ==
  ASSUME NEW f, IsHubForm(f), NEW hubs
  PROVE  LET g == Hubs!Fill(f, hubs)
         IN  /\ IsHubForm(g) /\ g.type = f.type
             /\ g = f \/ (page.isEditing /\ g.filled /\ f.type # "none")
  <1> PICK S : f \in [{"type", "loads", "name", "url", "filled", "waits"} -> S]
    BY DEF IsHubForm
  <1>1. CASE Hubs!Fill(f, hubs) = f
    BY <1>1
  <1>2. CASE /\ Hubs!Fill(f, hubs) = [f EXCEPT !.loads = FALSE, !.name = page.hubName,
                                              !.url = hubs[page.hubName], !.filled = TRUE]
             /\ page.isEditing /\ f.type # "none"
    <2> DEFINE g == Hubs!Fill(f, hubs)
    <2>1. g \in [{"type", "loads", "name", "url", "filled", "waits"}
                   -> S \cup {FALSE, TRUE, page.hubName, hubs[page.hubName]}]
      <3> PICK at, url, no, yes : at = page.hubName /\ url = hubs[page.hubName] /\ no = FALSE /\ yes = TRUE
        OBVIOUS
      <3>1. g = [f EXCEPT !.loads = no, !.name = at, !.url = url, !.filled = yes]
        BY <1>2
      <3> PICK D : D = {"type", "loads", "name", "url", "filled", "waits"}
        OBVIOUS
      <3>2. f \in [D -> S]
        OBVIOUS
      <3>3. [f EXCEPT !.loads = no, !.name = at, !.url = url, !.filled = yes]
              \in [D -> S \cup {no, at, url, yes}]
        BY <3>2, FourChanged
      <3> QED BY <3>1, <3>3
    <2>2. g.type = f.type /\ g.filled = TRUE
      BY <1>2
    <2> QED BY <1>2, <2>1, <2>2 DEF IsHubForm
  <1> QED BY <1>1, <1>2 DEF Hubs!Fill

LEMMA HubsForm ==
  ASSUME HubsInv, Hubs!HubsNext
  PROVE  /\ IsHubForm(hubForm') /\ hubForm'.type \in {"none", "git", "remote"}
         /\ FilledInEdits'
  <1> USE DEF HubsInv, HubTypes
  <1>1. CASE hubForm' = Hubs!NoForm
    BY <1>1, NoHubForm DEF FilledInEdits
  <1>2. CASE hubForm' = hubForm /\ page'.isEditing = page.isEditing
    BY <1>2 DEF FilledInEdits
  <1>3. CASE Hubs!Receive
    <2>1. page' = page /\ (hubForm' = hubForm \/ \E new : hubForm' = Hubs!Fill(hubForm, new))
      BY <1>3 DEF Hubs!Receive
    <2> QED BY <2>1, HubsFill DEF FilledInEdits
  <1>4. ASSUME NEW type \in {"git", "remote"}, Hubs!SelectHubType(type)
        PROVE  /\ IsHubForm(hubForm') /\ hubForm'.type \in {"none", "git", "remote"}
               /\ FilledInEdits'
    <2>1. page' = page /\ hubForm' = HubForm(type, page.isEditing)
      BY <1>4 DEF Hubs!SelectHubType, HubForm
    <2>2. IsHubForm(hubForm') /\ hubForm'.type = type /\ hubForm'.loads = page.isEditing /\ ~ hubForm'.filled
      BY <2>1, HubsMounted
    <2> QED BY <2>1, <2>2 DEF FilledInEdits
  <1>5. ASSUME NEW h \in Hubs!Hubs, Hubs!openHubDrawer(h)
        PROVE  /\ IsHubForm(hubForm') /\ hubForm'.type \in {"none", "git", "remote"}
               /\ FilledInEdits'
    <2>1. hubForm' = HubForm(Hubs!TypeOf(h), page'.isEditing)
      BY <1>5 DEF Hubs!openHubDrawer, Hubs!Mounted, HubForm
    <2>2. Hubs!TypeOf(h) \in {"git", "remote"}
      BY DEF Hubs!TypeOf
    <2>3. IsHubForm(hubForm') /\ hubForm'.type = Hubs!TypeOf(h) /\ hubForm'.loads = page'.isEditing /\ ~ hubForm'.filled
      BY <2>1, <2>2, HubsMounted
    <2> QED BY <2>2, <2>3 DEF FilledInEdits
  <1>6. CASE (\E h \in Hubs!Hubs : Hubs!TypeName(h)) \/ (\E u \in HubUrls : Hubs!TypeUrl(u)) \/ Hubs!handleSubmit
    <2>1. PICK x : /\ page' = page
                   /\ \/ hubForm' = [hubForm EXCEPT !.name = x]
                      \/ hubForm' = [hubForm EXCEPT !.url = x]
                      \/ hubForm' = [hubForm EXCEPT !.waits = x]
      BY <1>6 DEF Hubs!TypeName, Hubs!TypeUrl, Hubs!handleSubmit
    <2> PICK S : hubForm \in [{"type", "loads", "name", "url", "filled", "waits"} -> S]
      BY DEF IsHubForm
    <2>2. hubForm' \in [{"type", "loads", "name", "url", "filled", "waits"} -> S \cup {x}]
      BY <2>1
    <2>3. hubForm'.type = hubForm.type /\ hubForm'.loads = hubForm.loads /\ hubForm'.filled = hubForm.filled
      BY <2>1
    <2> QED BY <2>1, <2>2, <2>3 DEF IsHubForm, FilledInEdits
  <1>7. CASE Hubs!Connect \/ Hubs!CloseDelete \/ Hubs!handleHubDelete \/ \E h \in Hubs!Hubs : Hubs!handleDelete(h)
    <2>1. hubForm' = hubForm /\ page'.isEditing = page.isEditing
      BY <1>7 DEF Hubs!Connect, Hubs!CloseDelete, Hubs!handleHubDelete, Hubs!handleDelete, HubPage
    <2> QED BY <1>2, <2>1
  <1> QED
    BY <1>1, <1>2, <1>3, <1>4, <1>5, <1>6, <1>7 DEF Hubs!HubsNext, Hubs!Serve, Hubs!Back, Hubs!Cancel,
       Hubs!handleRefresh, Hubs!Apply, Hubs!Answered, Hubs!Failed, Hubs!resetDrawer

\* What a request must be.
Honest(r) ==
  /\ r.kind = "add" /\ r.by = "git" => ~ r.filled
  /\ r.kind = "update" => r.filled /\ r.id = r.closure.hubName

LEMMA HubsSent ==
  ASSUME NEW kind, NEW id, NEW url, Hubs!Send(kind, id, url),
         kind = "add" /\ hubForm.type = "git" => ~ hubForm.filled,
         kind = "update" => hubForm.filled /\ id = page.hubName
  PROVE  \E q : sends' = sends \cup {q} /\ IsHubRequest(q) /\ Honest(q)
  <1> PICK q : q = [kind |-> kind, id |-> id, url |-> url, filled |-> hubForm.filled, by |-> hubForm.type,
           closure |-> [hubName |-> page.hubName, isEditing |-> page.isEditing],
           state |-> "sent"]
    OBVIOUS
  <1>1. sends' = sends \cup {q}
    BY DEF Hubs!Send
  <1>2. PICK c : c = [hubName |-> page.hubName, isEditing |-> page.isEditing]
    OBVIOUS
  <1>3. PICK S : S = {kind, id, url, hubForm.filled, hubForm.type, c, "sent"}
    OBVIOUS
  <1>4. q \in [kind : S, id : S, url : S, filled : S, by : S, closure : S, state : S]
    BY <1>2, <1>3
  <1>5. q \in [{"kind", "id", "url", "filled", "by", "closure", "state"} -> S]
    BY <1>4
  <1>6. q.kind = kind /\ q.id = id /\ q.filled = hubForm.filled /\ q.by = hubForm.type
        /\ q.closure.hubName = page.hubName
    OBVIOUS
  <1> QED BY <1>1, <1>5, <1>6 DEF IsHubRequest, Honest

LEMMA HubsDone ==
  ASSUME NEW r, IsHubRequest(r)
  PROVE  LET q == [r EXCEPT !.state = "done"]
         IN  IsHubRequest(q) /\ q.state = "done" /\ (Honest(r) => Honest(q))
  <1> PICK S : r \in [{"kind", "id", "url", "filled", "by", "closure", "state"} -> S]
    BY DEF IsHubRequest
  <1> DEFINE q == [r EXCEPT !.state = "done"]
  <1>1. q \in [{"kind", "id", "url", "filled", "by", "closure", "state"} -> S \cup {"done"}]
    OBVIOUS
  <1>2. /\ q.kind = r.kind /\ q.id = r.id /\ q.filled = r.filled /\ q.by = r.by
        /\ q.closure = r.closure /\ q.state = "done"
    OBVIOUS
  <1> HIDE DEF q
  <1> QED BY <1>1, <1>2 DEF IsHubRequest, Honest

LEMMA HubsSends ==
  ASSUME HubsInv, Hubs!HubsNext
  PROVE  /\ \A r \in sends' : IsHubRequest(r)
         /\ Hubs!ConnectsWhatWasTyped'
  <1> DEFINE Good(s) == \A r \in s : IsHubRequest(r) /\ Honest(r)
  <1>1. Good(sends)
    BY DEF HubsInv, HubTypes, Hubs!ConnectsWhatWasTyped, Honest
  <1>2. SUFFICES Good(sends')
    BY DEF Hubs!ConnectsWhatWasTyped, Honest
  <1> HIDE DEF Good
  <1>3. CASE sends' = sends
    BY <1>1, <1>3
  <1>4. CASE \E r \in sends : sends' = sends \ {r}
    BY <1>1, <1>4 DEF Good
  <1>5. ASSUME NEW q, sends' = sends \cup {q}, IsHubRequest(q), Honest(q)
        PROVE  Good(sends')
    BY <1>1, <1>5 DEF Good
  <1>6. CASE Hubs!handleSubmit
    <2>1. hubForm.type # "none" /\ ~ hubForm.loads
      BY <1>6 DEF Hubs!handleSubmit, Hubs!InForm
    <2>2. IF page.isEditing THEN hubForm.filled ELSE ~ hubForm.filled
      BY <2>1 DEF HubsInv, FilledInEdits
    <2>3. CASE page.isEditing /\ (hubForm.type = "remote" =>
                             page.hubName \in Hubs!Known /\ Hubs!TypeOf(page.hubName) = "remote")
      <3>1. Hubs!Send("update", page.hubName, hubForm.url)
        BY <1>6, <2>3 DEF Hubs!handleSubmit
      <3> QED BY <3>1, <2>2, <2>3, HubsSent, <1>5
    <2>4. CASE ~ (page.isEditing /\ (hubForm.type = "remote" =>
                             page.hubName \in Hubs!Known /\ Hubs!TypeOf(page.hubName) = "remote"))
      <3>1. Hubs!Send("add", hubForm.name, hubForm.url)
        BY <1>6, <2>4 DEF Hubs!handleSubmit
      <3>2. hubForm.type = "git" => ~ hubForm.filled
        BY <2>2, <2>4
      <3> QED BY <3>1, <3>2, HubsSent, <1>5
    <2> QED BY <2>3, <2>4
  <1>7. CASE (\E h \in Hubs!Hubs : Hubs!handleRefresh(h)) \/ Hubs!handleHubDelete
    <2>1. PICK id : Hubs!Send("refresh", id, "") \/ Hubs!Send("delete", id, "")
      BY <1>7 DEF Hubs!handleRefresh, Hubs!handleHubDelete
    <2>2. CASE Hubs!Send("refresh", id, "")
      BY <2>2, HubsSent, <1>5
    <2>3. CASE Hubs!Send("delete", id, "")
      BY <2>3, HubsSent, <1>5
    <2> QED BY <2>1, <2>2, <2>3
  <1>8. ASSUME NEW r \in sends, Hubs!Apply(r)
        PROVE  Good(sends')
    <2>1. sends' = (sends \ {r}) \cup {[r EXCEPT !.state = "done"]}
      BY <1>8 DEF Hubs!Apply
    <2>2. IsHubRequest([r EXCEPT !.state = "done"]) /\ Honest([r EXCEPT !.state = "done"])
      BY <1>1, HubsDone DEF Good
    <2> QED BY <1>1, <2>1, <2>2 DEF Good
  <1> QED
    BY <1>3, <1>4, <1>6, <1>7, <1>8 DEF Hubs!HubsNext, Hubs!Serve, Hubs!Receive, Hubs!Connect, Hubs!Back, Hubs!Cancel,
       Hubs!SelectHubType, Hubs!openHubDrawer, Hubs!TypeName, Hubs!TypeUrl,
       Hubs!handleDelete, Hubs!CloseDelete, Hubs!Answered, Hubs!Failed

LEMMA HubsListed ==
  ASSUME server' = server
  PROVE  Hubs!Listed' = Hubs!Listed
  BY DEF Hubs!Listed

LEMMA HubsStaysFresh ==
  ASSUME HubsInv, Hubs!HubsNext
  PROVE  IsQuery(list') /\ HubsFresh'
  <1>1. IsQuery(list) /\ HubsFresh /\ \A r \in sends : IsHubRequest(r)
    BY DEF HubsInv, HubTypes
  <1>2. CASE list' = Query!Asked(list)
    BY <1>1, <1>2, AskedIsFresh DEF HubsFresh
  <1>3. CASE list' = Query!Served(list, Hubs!Listed) /\ UNCHANGED <<server, sends>>
    BY <1>1, <1>3, ServedIsFresh, HubsListed DEF HubsFresh
  <1>4. CASE list.wire = "back" /\ list' = Query!Received(list) /\ UNCHANGED <<server, sends>>
    BY <1>1, <1>4, ReceivedIsFresh, HubsListed DEF HubsFresh
  <1>5. CASE list' = list
    <2>1. ASSUME NEW r \in sends, Hubs!Apply(r)
          PROVE  HubsFresh'
      <3>1. [r EXCEPT !.state = "done"] \in sends'
        BY <2>1 DEF Hubs!Apply
      <3>2. [r EXCEPT !.state = "done"].state = "done"
        BY <1>1, HubsDone
      <3> QED BY <3>1, <3>2 DEF HubsFresh
    <2>2. CASE server' = server /\ \A r \in sends : r \in sends' \/ r.state # "done"
      BY <1>1, <1>5, <2>2, HubsListed DEF HubsFresh
    <2>3. ASSUME NEW r \in sends, Hubs!Answered(r)
          PROVE  HubsFresh'
      <3>1. list' = Query!Asked(list)
        BY <2>3, HubsQuery DEF Hubs!Answered, Hubs!resetDrawer
      <3> QED BY <1>2, <3>1
    <2>4. ASSUME NEW r \in sends, Hubs!Failed(r)
          PROVE  HubsFresh'
      BY <2>2, <2>4 DEF Hubs!Failed
    <2> QED BY <1>1, <1>5, <2>1, <2>2, <2>3, <2>4
         DEF Hubs!HubsNext, Hubs!Serve, Hubs!Receive, Hubs!Connect, Hubs!Back, Hubs!Cancel,
             Hubs!handleSubmit, Hubs!SelectHubType, Hubs!openHubDrawer, Hubs!TypeName, Hubs!TypeUrl,
             Hubs!handleRefresh, Hubs!handleDelete, Hubs!CloseDelete, Hubs!handleHubDelete, Hubs!Send
  <1> QED BY HubsList, <1>2, <1>3, <1>4, <1>5

LEMMA HubsKeeps ==
  HubsInv /\ [Hubs!HubsNext]_(Hubs!hubsVars) => HubsInv'
  <1>1. ASSUME HubsInv, Hubs!HubsNext PROVE HubsInv'
    BY <1>1, HubsPage, HubsForm, HubsSends, HubsStaysFresh DEF HubsInv, HubTypes
  <1>2. ASSUME HubsInv, UNCHANGED Hubs!hubsVars PROVE HubsInv'
    <2>1. UNCHANGED <<server, list, page, hubForm, sends>>
      BY <1>2 DEF Hubs!hubsVars
    <2>2. HubTypes' /\ FilledInEdits'
      BY <1>2, <2>1 DEF HubsInv, HubTypes, FilledInEdits
    <2>3. Hubs!ConnectsWhatWasTyped'
      BY <1>2, <2>1 DEF HubsInv, Hubs!ConnectsWhatWasTyped
    <2>4. HubsFresh'
      BY <1>2, <2>1, HubsListed DEF HubsInv, HubsFresh
    <2> QED BY <2>2, <2>3, <2>4 DEF HubsInv
  <1> QED BY <1>1, <1>2

LEMMA HubsShows ==
  HubsInv => Hubs!ShowsStored /\ Hubs!ConnectsWhatWasTyped
  <1> SUFFICES ASSUME HubsInv PROVE Hubs!ShowsStored
    BY DEF HubsInv
  <1> SUFFICES ASSUME sends = {}, Hubs!Idle(list), ~ list.shared
               PROVE  Hubs!Result(list) = Hubs!Listed
    BY DEF Hubs!ShowsStored
  <1>1. Fresh(list, Hubs!Listed)
    BY DEF HubsInv, HubsFresh
  <1> QED BY <1>1, HubsQuery, FreshAtRest
-----------------------------------------------------------------------------
(* The GitOps settings.                                                    *)

GitOpsSettings == [enabled : BOOLEAN, auth : {"none", "token", "ssh"}]
GitOpsPage == [value : {"enabled", "disabled"}, isGitOpsEnabled : BOOLEAN,
               privateHub : {"", "token", "ssh"}, sshKey : {"", "key"}, isOpen : BOOLEAN,
               confirmModal : BOOLEAN, editing : BOOLEAN, overlapped : BOOLEAN]
GitOpsChange == [kind : {"enable", "update"}, auth : {"none", "token", "ssh"},
                 state : {"sent", "done", "failed"}]
                \cup [kind : {"disable"}, state : {"sent", "done", "failed"}]
GenerateKey == [kind |-> "generate", state |-> "done"]

\* Nothing, or what the server had.
Answer(a) == a = <<>> \/ \E s \in GitOpsSettings : a = <<s>>

GitOpsTypes ==
  /\ server \in GitOpsSettings /\ page \in GitOpsPage
  /\ sends \subseteq GitOpsChange \cup {GenerateKey}
  /\ IsQuery(list) /\ Answer(list.data) /\ Answer(list.carried)
  /\ list.wire = "back" => list.carried # <<>>

\* Until a result is dismissed the list may be old.
GitOpsFresh ==
  ~ page.isOpen /\ (\A r \in sends : r.kind # "generate" => r.state # "done")
    => Fresh(list, server)

Changing == GitOps!UnderWay({"enable", "update"})
Disabling == GitOps!UnderWay({"disable"})

\* GitOps is on as far as the data goes.
KnownOn == list.data # <<>> /\ list.data[1].enabled

\* The page agrees with the data, unless it has just enabled what the data
\* does not show yet.
PageFollows ==
  ~ page.overlapped =>
    /\ ~ (Changing /\ Disabling)
    /\ \A r \in sends : r.kind \in {"enable", "update"} /\ r.state = "done" => server.enabled
    /\ \/ page.isGitOpsEnabled <=> KnownOn /\ ~ page.editing
       \/ page.isGitOpsEnabled /\ ~ KnownOn /\ server.enabled /\ ~ Disabling

GitOpsInv == GitOpsTypes /\ GitOpsFresh /\ PageFollows

LEMMA GitOpsQuery ==
  ASSUME NEW q
  PROVE  /\ GitOps!Asked(q) = Query!Asked(q)
         /\ GitOps!Received(q) = Query!Received(q)
         /\ \A x : GitOps!Served(q, x) = Query!Served(q, x)
         /\ GitOps!Query("") = Query!Query("")
         /\ GitOps!Idle(q) = Query!Idle(q)
         /\ GitOps!Result(q) = Query!Result(q)
         /\ GitOps!Loading(q) = Query!Loading(q)
  BY DEF GitOps!Asked, Query!Asked, GitOps!Received, Query!Received, GitOps!Served, Query!Served,
         GitOps!Query, Query!Query, GitOps!NoData, Query!NoData, GitOps!Idle, Query!Idle,
         GitOps!Result, Query!Result, GitOps!Loading, Query!Loading

LEMMA GitOpsStart == GitOps!GitOpsTabInit => GitOpsInv
  <1> SUFFICES ASSUME GitOps!GitOpsTabInit PROVE GitOpsInv
    OBVIOUS
  <1>1. server \in GitOpsSettings
    <2>1. CASE server = GitOps!Disabled
      BY <2>1 DEF GitOps!Disabled, GitOpsSettings
    <2>2. CASE server = [enabled |-> TRUE, auth |-> "token"]
      BY <2>2 DEF GitOpsSettings
    <2> QED BY <2>1, <2>2 DEF GitOps!GitOpsTabInit
  <1>2. page \in GitOpsPage /\ ~ page.isGitOpsEnabled /\ ~ page.editing
    BY DEF GitOps!GitOpsTabInit, GitOpsPage
  <1>3. IsQuery(list) /\ Fresh(list, server) /\ list.data = <<>> /\ list.carried = <<>> /\ list.wire = "sent"
    <2>1. list = Query!Query("")
      BY GitOpsQuery DEF GitOps!GitOpsTabInit
    <2> QED BY <2>1, NewIsFresh DEF Query!Query, Query!NoData
  <1>4. sends = {}
    BY DEF GitOps!GitOpsTabInit
  <1>5. ~ KnownOn /\ ~ Changing
    BY <1>3, <1>4 DEF KnownOn, Changing, GitOps!UnderWay
  <1> QED BY <1>1, <1>2, <1>3, <1>4, <1>5 DEF GitOpsInv, GitOpsTypes, GitOpsFresh, PageFollows, Answer

\* A page after a step.
LEMMA GitOpsPageTyped ==
  ASSUME GitOpsInv, GitOps!GitOpsTabNext
  PROVE  page' \in GitOpsPage
  <1> page \in GitOpsPage
    BY DEF GitOpsInv, GitOpsTypes
  <1>1. CASE GitOps!Receive
    <2>1. CASE page' = page
      BY <2>1
    <2>2. CASE page' = [page EXCEPT !.value = IF GitOps!Result(list').enabled THEN "enabled" ELSE "disabled",
                                    !.isGitOpsEnabled = GitOps!Result(list').enabled, !.editing = FALSE]
      <3>1. GitOps!Result(list').enabled \in BOOLEAN
        <4>1. list' = Query!Received(list) /\ list.wire = "back"
          BY <1>1, GitOpsQuery DEF GitOps!Receive
        <4>2. list'.data = list.carried
          BY <4>1, ReceivedIsFresh DEF GitOpsInv, GitOpsTypes
        <4>3. PICK s \in GitOpsSettings : list.carried = <<s>>
          BY <4>1 DEF GitOpsInv, GitOpsTypes, Answer
        <4>4. GitOps!Result(list') = s
          BY <4>2, <4>3 DEF GitOps!Result
        <4> QED BY <4>4 DEF GitOpsSettings
      <3> PICK b \in BOOLEAN : b = GitOps!Result(list').enabled
        BY <3>1
      <3> PICK v \in {"enabled", "disabled"} : v = IF GitOps!Result(list').enabled THEN "enabled" ELSE "disabled"
        OBVIOUS
      <3>2. page' = [page EXCEPT !.value = v, !.isGitOpsEnabled = b, !.editing = FALSE]
        BY <2>2
      <3> QED BY <3>2 DEF GitOpsPage
    <2> QED BY <1>1, <2>1, <2>2 DEF GitOps!Receive
  <1>2. CASE page' = page
    BY <1>2
  <1>3. ASSUME NEW v \in {"enabled", "disabled"}, GitOps!handleChange(v)
        PROVE  page' \in GitOpsPage
    BY <1>3 DEF GitOps!handleChange, GitOpsPage
  <1>4. ASSUME NEW v \in {"token", "ssh"}, GitOps!SelectAuth(v)
        PROVE  page' \in GitOpsPage
    BY <1>4 DEF GitOps!SelectAuth, GitOpsPage
  <1>5. CASE GitOps!handleSubmit \/ GitOps!disableGitOps
    <2>1. PICK b \in BOOLEAN : page' = [page EXCEPT !.overlapped = b]
      BY <1>5 DEF GitOps!handleSubmit, GitOps!disableGitOps, GitOpsPage, GitOps!UnderWay
    <2> QED BY <2>1 DEF GitOpsPage
  <1>6. CASE GitOps!onEditClicked \/ GitOps!onCancelEdit \/ GitOps!onConfirmEdit \/ GitOps!handleClose
    BY <1>6 DEF GitOps!onEditClicked, GitOps!onCancelEdit, GitOps!onConfirmEdit, GitOps!handleClose, GitOpsPage
  <1>7. ASSUME NEW r \in sends, GitOps!Answered(r)
        PROVE  page' \in GitOpsPage
    BY <1>7 DEF GitOps!Answered, GitOpsPage
  <1> QED BY <1>1, <1>2, <1>3, <1>4, <1>5, <1>6, <1>7
      DEF GitOps!GitOpsTabNext, GitOps!Serve, GitOps!Apply, GitOps!Refuse

LEMMA GitOpsAnswer ==
  ASSUME NEW r \in GitOpsChange \cup {GenerateKey}, NEW s \in {"done", "failed"}, r.state = "sent"
  PROVE  LET q == [r EXCEPT !.state = s]
         IN  q \in GitOpsChange /\ q.kind = r.kind /\ q.state = s /\ r.kind # "generate"
             /\ (r.kind # "disable" => r.kind \in {"enable", "update"} /\ r.auth \in {"none", "token", "ssh"})
  BY DEF GitOpsChange, GenerateKey

\* What a query that has brought something has.
LEMMA GitOpsKnown ==
  ASSUME GitOpsTypes, ~ GitOps!Loading(list)
  PROVE  /\ GitOps!Result(list) \in GitOpsSettings
         /\ KnownOn <=> GitOps!Result(list).enabled
  <1>1. list.data # <<>>
    BY DEF GitOps!Loading, GitOps!NoData
  <1>2. PICK s \in GitOpsSettings : list.data = <<s>>
    BY <1>1 DEF GitOpsTypes, Answer
  <1>3. list.data[1] = s /\ GitOps!Result(list) = s
    BY <1>2 DEF GitOps!Result
  <1> QED BY <1>1, <1>3 DEF KnownOn

LEMMA GitOpsSubmits ==
  ASSUME GitOpsTypes, GitOps!handleSubmit
  PROVE  \E q \in GitOpsChange :
            /\ sends' = sends \cup {q} /\ q.kind \in {"enable", "update"} /\ q.state = "sent"
  <1>1. ~ GitOps!Loading(list)
    BY DEF GitOps!handleSubmit, GitOps!FormShown
  <1>2. PICK k \in {"enable", "update"} : k = IF GitOps!Result(list).enabled THEN "update" ELSE "enable"
    OBVIOUS
  <1>3. GitOps!Result(list) \in GitOpsSettings
    BY <1>1, GitOpsKnown
  <1>4. GitOps!AuthType \in {"none", "token", "ssh"}
    <2>1. page.privateHub \in {"", "token", "ssh"}
      BY DEF GitOpsTypes, GitOpsPage
    <2>2. GitOps!Result(list).auth \in {"none", "token", "ssh"}
      BY <1>3 DEF GitOpsSettings
    <2> QED BY <2>1, <2>2 DEF GitOps!AuthType
  <1>5. PICK a \in {"none", "token", "ssh"} : a = GitOps!AuthType
    BY <1>4
  <1>6. sends' = sends \cup {[kind |-> k, auth |-> a, state |-> "sent"]}
    BY <1>2, <1>5 DEF GitOps!handleSubmit, GitOps!Add
  <1>7. [kind |-> k, auth |-> a, state |-> "sent"] \in GitOpsChange
    BY DEF GitOpsChange
  <1> QED BY <1>6, <1>7

LEMMA GitOpsSends ==
  ASSUME GitOpsTypes, GitOps!GitOpsTabNext
  PROVE  server' \in GitOpsSettings /\ sends' \subseteq GitOpsChange \cup {GenerateKey}
  <1> USE DEF GitOpsTypes
  <1>1. CASE sends' \subseteq sends /\ server' = server
    BY <1>1
  <1>2. CASE GitOps!handleSubmit
    BY <1>2, GitOpsSubmits DEF GitOps!handleSubmit
  <1>3. CASE GitOps!disableGitOps
    <2>1. sends' = sends \cup {[kind |-> "disable", state |-> "sent"]} /\ server' = server
      BY <1>3 DEF GitOps!disableGitOps, GitOps!Add
    <2>2. [kind |-> "disable", state |-> "sent"] \in GitOpsChange
      BY DEF GitOpsChange
    <2> QED BY <2>1, <2>2
  <1>4. ASSUME NEW v \in {"token", "ssh"}, GitOps!SelectAuth(v)
        PROVE  server' \in GitOpsSettings /\ sends' \subseteq GitOpsChange \cup {GenerateKey}
    <2>1. sends' \subseteq sends \cup {GenerateKey} /\ server' = server
      BY <1>4 DEF GitOps!SelectAuth, GitOps!Add, GenerateKey
    <2> QED BY <2>1
  <1>5. ASSUME NEW r \in sends, GitOps!Apply(r) \/ GitOps!Refuse(r)
        PROVE  server' \in GitOpsSettings /\ sends' \subseteq GitOpsChange \cup {GenerateKey}
    <2>1. PICK s \in {"done", "failed"} :
             r.state = "sent" /\ sends' = (sends \ {r}) \cup {[r EXCEPT !.state = s]}
      BY <1>5 DEF GitOps!Apply, GitOps!Refuse
    <2>2. /\ [r EXCEPT !.state = s] \in GitOpsChange
          /\ r.kind # "disable" => r.kind \in {"enable", "update"} /\ r.auth \in {"none", "token", "ssh"}
      BY <2>1, GitOpsAnswer
    <2>3. \/ server' = server
          \/ server' = GitOps!Disabled
          \/ r.auth \in {"none", "token", "ssh"} /\ server' = [enabled |-> TRUE, auth |-> r.auth]
      BY <1>5, <2>2 DEF GitOps!Apply, GitOps!Refuse
    <2>4. server' \in GitOpsSettings
      <3>1. CASE server' = server
        BY <3>1
      <3>2. CASE server' = GitOps!Disabled
        BY <3>2 DEF GitOps!Disabled, GitOpsSettings
      <3>3. ASSUME NEW a \in {"none", "token", "ssh"}, server' = [enabled |-> TRUE, auth |-> a]
            PROVE  server' \in GitOpsSettings
        BY <3>3 DEF GitOpsSettings
      <3> QED BY <2>3, <3>1, <3>2, <3>3
    <2> QED BY <2>1, <2>2, <2>4
  <1> QED BY <1>1, <1>2, <1>3, <1>4, <1>5
      DEF GitOps!GitOpsTabNext, GitOps!Serve, GitOps!Receive, GitOps!handleChange, GitOps!onEditClicked,
          GitOps!onCancelEdit, GitOps!onConfirmEdit, GitOps!handleClose, GitOps!Answered

LEMMA GitOpsList ==
  ASSUME GitOpsTypes, GitOps!GitOpsTabNext
  PROVE  /\ IsQuery(list') /\ Answer(list'.data) /\ Answer(list'.carried)
         /\ list'.wire = "back" => list'.carried # <<>>
  <1> USE DEF GitOpsTypes
  <1> PICK S : list \in [{"for", "wire", "carried", "data", "shared"} -> S]
    BY DEF IsQuery
  <1>1. CASE list' = list
    BY <1>1
  <1>2. CASE list' = Query!Asked(list)
    <2>1. IsQuery(list')
      BY <1>2, AskedIsFresh
    <2>2. /\ list'.data = list.data /\ list'.carried = list.carried
          /\ list'.wire = IF list.wire = "none" THEN "sent" ELSE list.wire
      BY <1>2 DEF Query!Asked
    <2> QED BY <2>1, <2>2
  <1>3. CASE GitOps!Serve
    <2>1. list' = Query!Served(list, server)
      BY <1>3, GitOpsQuery DEF GitOps!Serve
    <2>2. IsQuery(list')
      BY <2>1, ServedIsFresh
    <2>3. list'.data = list.data /\ list'.carried = <<server>>
      BY <2>1 DEF Query!Served
    <2> QED BY <2>2, <2>3 DEF Answer
  <1>4. CASE GitOps!Receive
    <2>1. list' = Query!Received(list) /\ list.wire = "back"
      BY <1>4, GitOpsQuery DEF GitOps!Receive
    <2>2. IsQuery(list') /\ list'.data = list.carried
      BY <2>1, ReceivedIsFresh
    <2>3. list'.carried = <<>> /\ list'.wire = "none"
      BY <2>1 DEF Query!Received, Query!NoData
    <2> QED BY <2>2, <2>3 DEF Answer
  <1> QED BY <1>1, <1>2, <1>3, <1>4, GitOpsQuery
      DEF GitOps!GitOpsTabNext, GitOps!handleChange, GitOps!SelectAuth, GitOps!handleSubmit,
          GitOps!disableGitOps, GitOps!onEditClicked, GitOps!onCancelEdit, GitOps!onConfirmEdit,
          GitOps!handleClose, GitOps!Apply, GitOps!Refuse, GitOps!Answered

LEMMA GitOpsKeyAnswered ==
  ASSUME NEW r \in GitOpsChange \cup {GenerateKey}, r.kind = "generate", GitOps!Answered(r)
  PROVE  page' = [page EXCEPT !.sshKey = "key"]
  <1>1. r.state = "done"
    BY DEF GitOpsChange, GenerateKey
  <1>2. r.kind # "disable" /\ r.state # "failed"
    BY <1>1
  <1> QED BY <1>1, <1>2 DEF GitOps!Answered

LEMMA GitOpsStaysFresh ==
  ASSUME GitOpsInv, GitOps!GitOpsTabNext
  PROVE  GitOpsFresh'
  <1> USE DEF GitOpsInv, GitOpsTypes
  <1>1. CASE GitOps!handleClose
    BY <1>1, GitOpsQuery, AskedIsFresh DEF GitOps!handleClose, GitOpsFresh
  <1>2. CASE GitOps!Serve
    BY <1>2, GitOpsQuery, ServedIsFresh DEF GitOps!Serve, GitOpsFresh
  <1>3. CASE GitOps!Receive
    <2>1. page'.isOpen = page.isOpen
      BY <1>3 DEF GitOps!Receive, GitOpsPage
    <2> QED BY <1>3, <2>1, GitOpsQuery, ReceivedIsFresh DEF GitOps!Receive, GitOpsFresh
  <1>4. CASE /\ UNCHANGED <<server, list>> /\ page'.isOpen = page.isOpen
             /\ \A r \in sends : r \in sends' \/ r.kind = "generate" \/ r.state # "done"
    BY <1>4 DEF GitOpsFresh
  <1>5. ASSUME NEW v \in {"enabled", "disabled"}, GitOps!handleChange(v)
        PROVE  GitOpsFresh'
    BY <1>4, <1>5 DEF GitOps!handleChange, GitOpsPage
  <1>6. ASSUME NEW v \in {"token", "ssh"}, GitOps!SelectAuth(v)
        PROVE  GitOpsFresh'
    BY <1>4, <1>6 DEF GitOps!SelectAuth, GitOpsPage, GitOps!Add
  <1>7. CASE GitOps!handleSubmit \/ GitOps!disableGitOps
    <2>1. page'.isOpen = page.isOpen
      BY <1>7 DEF GitOps!handleSubmit, GitOps!disableGitOps, GitOpsPage
    <2>2. UNCHANGED <<server, list>> /\ sends \subseteq sends'
      BY <1>7 DEF GitOps!handleSubmit, GitOps!disableGitOps, GitOps!Add
    <2> QED BY <1>4, <2>1, <2>2
  <1>8. CASE GitOps!onEditClicked \/ GitOps!onCancelEdit \/ GitOps!onConfirmEdit
    BY <1>4, <1>8 DEF GitOps!onEditClicked, GitOps!onCancelEdit, GitOps!onConfirmEdit, GitOpsPage
  <1>9. ASSUME NEW r \in sends, GitOps!Apply(r)
        PROVE  GitOpsFresh'
    <2>1. r.state = "sent" /\ [r EXCEPT !.state = "done"] \in sends'
      BY <1>9 DEF GitOps!Apply
    <2>2. [r EXCEPT !.state = "done"].kind = r.kind /\ [r EXCEPT !.state = "done"].state = "done"
          /\ r.kind # "generate"
      BY <2>1, GitOpsAnswer
    <2> QED BY <2>1, <2>2 DEF GitOpsFresh
  <1>10. ASSUME NEW r \in sends, GitOps!Refuse(r)
         PROVE  GitOpsFresh'
    BY <1>4, <1>10 DEF GitOps!Refuse
  <1>11. ASSUME NEW r \in sends, GitOps!Answered(r)
         PROVE  GitOpsFresh'
    <2>1. CASE r.kind = "generate"
      <3>0. page' = [page EXCEPT !.sshKey = "key"]
        BY <1>11, <2>1, GitOpsKeyAnswered
      <3>1. page'.isOpen = page.isOpen
        BY <3>0 DEF GitOpsPage
      <3>2. UNCHANGED <<server, list>> /\ sends' = sends \ {r}
        BY <1>11 DEF GitOps!Answered
      <3> QED BY <1>4, <2>1, <3>1, <3>2
    <2>2. CASE r.kind # "generate"
      <3>1. page'.isOpen
        BY <1>11, <2>2 DEF GitOps!Answered, GitOpsPage
      <3> QED BY <3>1 DEF GitOpsFresh
    <2> QED BY <2>1, <2>2
  <1> QED BY <1>1, <1>2, <1>3, <1>5, <1>6, <1>7, <1>8, <1>9, <1>10, <1>11
      DEF GitOps!GitOpsTabNext

\* What PageFollows is about.
LEMMA GitOpsChanges ==
  /\ Changing <=> \E r \in sends : r.kind \in {"enable", "update"}
  /\ Disabling <=> \E r \in sends : r.kind = "disable"
  BY DEF Changing, Disabling, GitOps!UnderWay

LEMMA GitOpsChangesNext ==
  /\ Changing' <=> \E r \in sends' : r.kind \in {"enable", "update"}
  /\ Disabling' <=> \E r \in sends' : r.kind = "disable"
  BY DEF Changing, Disabling, GitOps!UnderWay

\* The flags of a page that PageFollows reads.
SameFlags == /\ page'.isGitOpsEnabled = page.isGitOpsEnabled /\ page'.editing = page.editing
             /\ page'.overlapped = page.overlapped

\* No change is new or newly done.
NoNews ==
  \A q \in sends' : \/ q \in sends \/ q.kind = "generate"
                    \/ q.state = "failed" /\ \E r \in sends : r.kind = q.kind

LEMMA GitOpsNoNews ==
  ASSUME NoNews
  PROVE  /\ Changing' => Changing
         /\ Disabling' => Disabling
         /\ \A q \in sends' : q.kind \in {"enable", "update"} /\ q.state = "done" => q \in sends
  BY GitOpsChanges, GitOpsChangesNext DEF NoNews

LEMMA FollowsFrame ==
  ASSUME PageFollows, server' = server, list'.data = list.data, SameFlags, NoNews
  PROVE  PageFollows'
  <1>1. KnownOn' <=> KnownOn
    BY DEF KnownOn
  <1> QED BY <1>1, GitOpsNoNews DEF PageFollows, SameFlags

\* A step that only touches the page, and none of these flags.
LEMMA FollowsOnPage ==
  ASSUME PageFollows, UNCHANGED <<server, sends>>, list'.data = list.data, SameFlags
  PROVE  PageFollows'
  BY FollowsFrame DEF NoNews

LEMMA FollowsReceive ==
  ASSUME GitOpsTypes, PageFollows, GitOps!Receive
  PROVE  PageFollows'
  <1>1. list' = Query!Received(list) /\ list.wire = "back" /\ UNCHANGED <<server, sends>>
    BY GitOpsQuery DEF GitOps!Receive
  <1>2. list'.data = list.carried
    BY <1>1, ReceivedIsFresh DEF GitOpsTypes
  <1>3. CASE list.carried = list.data
    <2>1. page' = page
      BY <1>3 DEF GitOps!Receive
    <2> QED BY <1>1, <1>2, <1>3, <2>1, FollowsOnPage DEF SameFlags
  <1>4. CASE list.carried # list.data
    <2>1. PICK s \in GitOpsSettings : list.carried = <<s>>
      BY <1>1 DEF GitOpsTypes, Answer
    <2>2. GitOps!Result(list') = s /\ (KnownOn' <=> s.enabled)
      BY <1>2, <2>1 DEF GitOps!Result, KnownOn
    <2>3. PICK b \in BOOLEAN : b = s.enabled
      BY DEF GitOpsSettings
    <2>4. PICK v \in {"enabled", "disabled"} : v = IF b THEN "enabled" ELSE "disabled"
      OBVIOUS
    <2>5. page' = [page EXCEPT !.value = v, !.isGitOpsEnabled = b, !.editing = FALSE]
      BY <1>4, <2>2, <2>3, <2>4 DEF GitOps!Receive
    <2>6. page'.isGitOpsEnabled = b /\ ~ page'.editing /\ page'.overlapped = page.overlapped
      BY <2>5 DEF GitOpsTypes, GitOpsPage
    <2>7. NoNews
      BY <1>1 DEF NoNews
    <2> QED BY <1>1, <2>2, <2>3, <2>6, <2>7, GitOpsNoNews DEF PageFollows
  <1> QED BY <1>3, <1>4

LEMMA FollowsSubmit ==
  ASSUME GitOpsTypes, PageFollows, GitOps!handleSubmit
  PROVE  PageFollows'
  <1>1. PICK q \in GitOpsChange :
           sends' = sends \cup {q} /\ q.kind \in {"enable", "update"} /\ q.state = "sent"
    BY GitOpsSubmits
  <1>2. UNCHANGED <<server, list>>
    BY DEF GitOps!handleSubmit
  <1>3. PICK b \in BOOLEAN : b <=> Disabling
    OBVIOUS
  <1>4. PICK o \in BOOLEAN : o <=> page.overlapped \/ b
    OBVIOUS
  <1>5. page' = [page EXCEPT !.overlapped = o]
    BY <1>3, <1>4 DEF GitOps!handleSubmit, Disabling, GitOpsTypes, GitOpsPage
  <1>6. page'.isGitOpsEnabled = page.isGitOpsEnabled /\ page'.editing = page.editing /\ page'.overlapped = o
    BY <1>5 DEF GitOpsTypes, GitOpsPage
  <1>7. (Disabling' <=> Disabling) /\ (KnownOn' <=> KnownOn)
    BY <1>1, <1>2, GitOpsChanges, GitOpsChangesNext DEF KnownOn
  <1>8. \A r \in sends' : r.kind \in {"enable", "update"} /\ r.state = "done" => r \in sends
    BY <1>1
  <1> QED BY <1>2, <1>3, <1>4, <1>6, <1>7, <1>8 DEF PageFollows

LEMMA FollowsDisable ==
  ASSUME GitOpsTypes, PageFollows, GitOps!disableGitOps
  PROVE  PageFollows'
  <1>1. /\ sends' = sends \cup {[kind |-> "disable", state |-> "sent"]}
        /\ UNCHANGED <<server, list>>
    BY DEF GitOps!disableGitOps, GitOps!Add
  <1>2. PICK b \in BOOLEAN : b <=> Changing
    OBVIOUS
  <1>3. PICK o \in BOOLEAN : o <=> page.overlapped \/ b
    OBVIOUS
  <1>4. page' = [page EXCEPT !.overlapped = o]
    BY <1>2, <1>3 DEF GitOps!disableGitOps, Changing, GitOpsTypes, GitOpsPage
  <1>5. page'.isGitOpsEnabled = page.isGitOpsEnabled /\ page'.editing = page.editing /\ page'.overlapped = o
    BY <1>4 DEF GitOpsTypes, GitOpsPage
  <1>6. (Changing' <=> Changing) /\ (KnownOn' <=> KnownOn)
    BY <1>1, GitOpsChanges, GitOpsChangesNext DEF KnownOn
  <1>7. KnownOn
    BY GitOpsKnown DEF GitOps!disableGitOps
  <1>8. \A r \in sends' : r.kind \in {"enable", "update"} => r \in sends
    BY <1>1
  <1> QED BY <1>1, <1>2, <1>3, <1>5, <1>6, <1>7, <1>8 DEF PageFollows

LEMMA FollowsApply ==
  ASSUME GitOpsTypes, PageFollows, NEW r \in sends, GitOps!Apply(r)
  PROVE  PageFollows'
  <1>1. /\ r.state = "sent" /\ UNCHANGED <<list, page>>
        /\ sends' = (sends \ {r}) \cup {[r EXCEPT !.state = "done"]}
    BY DEF GitOps!Apply
  <1>2. PICK q : q = [r EXCEPT !.state = "done"]
    OBVIOUS
  <1>3. q.kind = r.kind /\ r.kind # "generate"
    BY <1>1, <1>2, GitOpsAnswer DEF GitOpsTypes
  <1>4. /\ \A k \in sends' : k \in sends \/ k.kind = r.kind
        /\ KnownOn' <=> KnownOn
    BY <1>1, <1>2, <1>3 DEF KnownOn
  <1>5. (Changing' => Changing) /\ (Disabling' => Disabling)
    BY <1>1, <1>4, GitOpsChanges, GitOpsChangesNext
  <1>6. CASE r.kind = "disable"
    <2>1. Disabling
      BY <1>6, GitOpsChanges
    <2>2. ~ page.overlapped => \A k \in sends' : k.kind \notin {"enable", "update"}
      BY <1>4, <1>6, <2>1, GitOpsChanges DEF PageFollows
    <2> QED BY <1>1, <1>4, <1>5, <2>1, <2>2 DEF PageFollows
  <1>7. CASE r.kind # "disable"
    <2>1. server' = [enabled |-> TRUE, auth |-> r.auth]
      BY <1>7 DEF GitOps!Apply
    <2>2. server'.enabled
      BY <2>1
    <2> QED BY <1>1, <1>4, <1>5, <2>2 DEF PageFollows
  <1> QED BY <1>6, <1>7

LEMMA FollowsAnswered ==
  ASSUME GitOpsTypes, PageFollows, NEW r \in sends, GitOps!Answered(r)
  PROVE  PageFollows'
  <1>1. sends' = sends \ {r} /\ UNCHANGED <<server, list>>
    BY DEF GitOps!Answered
  <1>2. NoNews
    BY <1>1 DEF NoNews
  <1>3. CASE r.kind = "generate"
    <2>1. page' = [page EXCEPT !.sshKey = "key"]
      BY <1>3, GitOpsKeyAnswered DEF GitOpsTypes
    <2>2. SameFlags
      BY <2>1 DEF SameFlags, GitOpsTypes, GitOpsPage
    <2> QED BY <1>1, <1>2, <2>2, FollowsFrame
  <1>4. CASE r.kind # "generate" /\ (r.state = "failed" \/ r.kind = "disable")
    <2>1. \/ page' = [page EXCEPT !.isOpen = TRUE]
          \/ page' = [page EXCEPT !.isOpen = TRUE, !.sshKey = ""]
      BY <1>4 DEF GitOps!Answered
    <2>2. SameFlags
      BY <2>1 DEF SameFlags, GitOpsTypes, GitOpsPage
    <2> QED BY <1>1, <1>2, <2>2, FollowsFrame
  <1>5. CASE r.kind \notin {"generate", "disable"} /\ r.state # "failed"
    <2>1. page' = [page EXCEPT !.isOpen = TRUE, !.isGitOpsEnabled = TRUE, !.editing = FALSE]
      BY <1>5 DEF GitOps!Answered
    <2>2. page'.isGitOpsEnabled /\ ~ page'.editing /\ page'.overlapped = page.overlapped
      BY <2>1 DEF GitOpsTypes, GitOpsPage
    <2>3. r.kind \in {"enable", "update"} /\ r.state = "done"
      BY <1>5 DEF GitOpsTypes, GitOpsChange, GenerateKey, GitOps!Answered
    <2>4. Changing /\ (KnownOn' <=> KnownOn)
      BY <1>1, <2>3, GitOpsChanges DEF KnownOn
    <2> QED BY <1>1, <1>2, <2>2, <2>3, <2>4, GitOpsNoNews DEF PageFollows
  <1> QED BY <1>3, <1>4, <1>5

LEMMA GitOpsStaysFollowed ==
  ASSUME GitOpsTypes, PageFollows, GitOps!GitOpsTabNext
  PROVE  PageFollows'
  <1>1. CASE GitOps!Serve
    <2>1. list' = Query!Served(list, server) /\ UNCHANGED <<server, page, sends>>
      BY <1>1, GitOpsQuery DEF GitOps!Serve
    <2>2. list'.data = list.data
      BY <2>1 DEF GitOpsTypes, IsQuery, Query!Served
    <2> QED BY <2>1, <2>2, FollowsOnPage DEF SameFlags
  <1>2. CASE GitOps!Receive
    BY <1>2, FollowsReceive
  <1>3. ASSUME NEW v \in {"enabled", "disabled"}, GitOps!handleChange(v)
        PROVE  PageFollows'
    <2>1. SameFlags /\ UNCHANGED <<server, list, sends>>
      BY <1>3 DEF GitOps!handleChange, SameFlags, GitOpsTypes, GitOpsPage
    <2> QED BY <2>1, FollowsOnPage
  <1>4. ASSUME NEW v \in {"token", "ssh"}, GitOps!SelectAuth(v)
        PROVE  PageFollows'
    <2>1. SameFlags /\ UNCHANGED <<server, list>>
      BY <1>4 DEF GitOps!SelectAuth, SameFlags, GitOpsTypes, GitOpsPage
    <2>2. sends' \subseteq sends \cup {GenerateKey}
      BY <1>4 DEF GitOps!SelectAuth, GitOps!Add, GenerateKey
    <2>3. NoNews
      BY <2>2 DEF NoNews, GenerateKey
    <2> QED BY <2>1, <2>3, FollowsFrame
  <1>5. CASE GitOps!handleSubmit
    BY <1>5, FollowsSubmit
  <1>6. CASE GitOps!disableGitOps
    BY <1>6, FollowsDisable
  <1>7. CASE GitOps!onEditClicked \/ GitOps!onCancelEdit
    <2>1. SameFlags /\ UNCHANGED <<server, list, sends>>
      BY <1>7 DEF GitOps!onEditClicked, GitOps!onCancelEdit, SameFlags, GitOpsTypes, GitOpsPage
    <2> QED BY <2>1, FollowsOnPage
  <1>8. CASE GitOps!onConfirmEdit
    <2>1. /\ ~ page'.isGitOpsEnabled /\ page'.editing /\ page'.overlapped = page.overlapped
          /\ UNCHANGED <<server, list, sends>>
      BY <1>8 DEF GitOps!onConfirmEdit, GitOpsTypes, GitOpsPage
    <2>2. NoNews
      BY <2>1 DEF NoNews
    <2> QED BY <2>1, <2>2, GitOpsNoNews DEF PageFollows
  <1>9. CASE GitOps!handleClose
    <2>1. SameFlags /\ UNCHANGED <<server, sends>>
      BY <1>9 DEF GitOps!handleClose, SameFlags, GitOpsTypes, GitOpsPage
    <2>2. list'.data = list.data
      BY <1>9, GitOpsQuery DEF GitOps!handleClose, GitOpsTypes, IsQuery, Query!Asked
    <2> QED BY <2>1, <2>2, FollowsOnPage
  <1>10. ASSUME NEW r \in sends, GitOps!Apply(r)
         PROVE  PageFollows'
    BY <1>10, FollowsApply
  <1>11. ASSUME NEW r \in sends, GitOps!Refuse(r)
         PROVE  PageFollows'
    <2>1. /\ r.state = "sent" /\ UNCHANGED <<server, list, page>>
          /\ sends' = (sends \ {r}) \cup {[r EXCEPT !.state = "failed"]}
      BY <1>11 DEF GitOps!Refuse
    <2>2. [r EXCEPT !.state = "failed"].kind = r.kind /\ [r EXCEPT !.state = "failed"].state = "failed"
      BY <2>1, GitOpsAnswer DEF GitOpsTypes
    <2>3. NoNews
      BY <2>1, <2>2 DEF NoNews
    <2> QED BY <2>1, <2>3, FollowsFrame DEF SameFlags
  <1>12. ASSUME NEW r \in sends, GitOps!Answered(r)
         PROVE  PageFollows'
    BY <1>12, FollowsAnswered
  <1> QED BY <1>1, <1>2, <1>3, <1>4, <1>5, <1>6, <1>7, <1>8, <1>9, <1>10, <1>11, <1>12
      DEF GitOps!GitOpsTabNext

LEMMA GitOpsKeeps ==
  GitOpsInv /\ [GitOps!GitOpsTabNext]_(GitOps!gitOpsTabVars) => GitOpsInv'
  <1>1. ASSUME GitOpsInv, GitOps!GitOpsTabNext PROVE GitOpsInv'
    BY <1>1, GitOpsPageTyped, GitOpsSends, GitOpsList, GitOpsStaysFresh, GitOpsStaysFollowed
       DEF GitOpsInv, GitOpsTypes
  <1>2. ASSUME GitOpsInv, UNCHANGED GitOps!gitOpsTabVars PROVE GitOpsInv'
    <2>1. UNCHANGED <<server, list, page, sends>>
      BY <1>2 DEF GitOps!gitOpsTabVars
    <2>2. GitOpsTypes' /\ GitOpsFresh'
      BY <1>2, <2>1 DEF GitOpsInv, GitOpsTypes, GitOpsFresh
    <2>3. PageFollows'
      BY <1>2, <2>1, FollowsOnPage DEF GitOpsInv, SameFlags
    <2> QED BY <2>2, <2>3 DEF GitOpsInv
  <1> QED BY <1>1, <1>2

LEMMA GitOpsAgrees == GitOpsInv => GitOps!FormAgrees
  <1> SUFFICES ASSUME GitOpsInv, GitOps!AtRest, ~ page.overlapped
               PROVE  page.isGitOpsEnabled = (server.enabled /\ ~ page.editing)
    BY DEF GitOps!FormAgrees
  <1>1. sends = {} /\ ~ list.shared /\ ~ page.isOpen /\ Query!Idle(list)
    BY GitOpsQuery DEF GitOps!AtRest
  <1>2. list.data = <<server>>
    BY <1>1, FreshAtRest DEF GitOpsInv, GitOpsFresh
  <1>3. KnownOn <=> server.enabled
    BY <1>2 DEF KnownOn
  <1>4. page.isGitOpsEnabled \in BOOLEAN
    BY DEF GitOpsInv, GitOpsTypes, GitOpsPage
  <1> QED BY <1>3, <1>4 DEF GitOpsInv, PageFollows
-----------------------------------------------------------------------------
(* The delegates.                                                          *)

IsTargetsPage(p) == \E S : p \in [{"pageNo", "status", "byName", "dialog", "role"} -> S]

\* An open dialog names the delegate whose row keeps it, and the row is shown.
DialogOfARow(q, p) ==
  p.dialog # Targets!NoDialog =>
    /\ p.dialog.kind # "none" /\ p.dialog.key = p.dialog.named
    /\ \E i \in DOMAIN Targets!Rows(q, p) : Targets!Rows(q, p)[i] = p.dialog.key

TargetsInv ==
  /\ IsQuery(list) /\ IsTargetsPage(page)
  /\ DialogOfARow(list, page)
  /\ Targets!DisconnectsTheNamed

LEMMA TargetsQuery ==
  ASSUME NEW q
  PROVE  /\ Targets!Asked(q) = Query!Asked(q)
         /\ Targets!Received(q) = Query!Received(q)
         /\ \A x : Targets!Served(q, x) = Query!Served(q, x)
         /\ Targets!Query("") = Query!Query("")
  BY DEF Targets!Asked, Query!Asked, Targets!Received, Query!Received, Targets!Served, Query!Served,
         Targets!Query, Query!Query, Targets!NoData, Query!NoData

LEMMA TargetsStart == Targets!TargetsInit => TargetsInv
  <1> SUFFICES ASSUME Targets!TargetsInit PROVE TargetsInv
    OBVIOUS
  <1>1. PICK role \in {"Owner", "Viewer"} :
          page = [pageNo |-> 0, status |-> "All", byName |-> FALSE,
                  dialog |-> Targets!NoDialog, role |-> role]
    BY DEF Targets!TargetsInit
  <1>2. PICK S : S = {0, "All", FALSE, Targets!NoDialog, role}
    OBVIOUS
  <1>3. page \in [pageNo : S, status : S, byName : S, dialog : S, role : S]
    BY <1>1, <1>2
  <1>4. IsTargetsPage(page) /\ page.dialog = Targets!NoDialog
    BY <1>1, <1>3 DEF IsTargetsPage
  <1>5. IsQuery(list) /\ sends = {}
    BY TargetsQuery, NewIsFresh DEF Targets!TargetsInit
  <1> QED BY <1>4, <1>5 DEF TargetsInv, DialogOfARow, Targets!DisconnectsTheNamed

LEMMA NoTargetsDialog == Targets!NoDialog.kind = "none"
  BY DEF Targets!NoDialog

\* A page whose dialog is another one.
LEMMA TargetsDialog ==
  ASSUME NEW p, IsTargetsPage(p), NEW d
  PROVE  LET n == [p EXCEPT !.dialog = d]
         IN  /\ IsTargetsPage(n) /\ n.dialog = d
             /\ \A q : Targets!Rows(q, n) = Targets!Rows(q, p)
  <1> PICK S : p \in [{"pageNo", "status", "byName", "dialog", "role"} -> S]
    BY DEF IsTargetsPage
  <1> DEFINE n == [p EXCEPT !.dialog = d]
  <1>1. n \in [{"pageNo", "status", "byName", "dialog", "role"} -> S \cup {d}]
    OBVIOUS
  <1>2. n.dialog = d /\ n.byName = p.byName /\ n.status = p.status /\ n.pageNo = p.pageNo
    OBVIOUS
  <1> HIDE DEF n
  <1> QED BY <1>1, <1>2 DEF IsTargetsPage, Targets!Rows

LEMMA TargetsKeepsDialog ==
  ASSUME TargetsInv, Targets!TargetsNext
  PROVE  IsQuery(list') /\ IsTargetsPage(page') /\ DialogOfARow(list', page')
  <1>1. IsQuery(list) /\ IsTargetsPage(page) /\ DialogOfARow(list, page)
    BY DEF TargetsInv
  <1>2. CASE page' = page /\ list' = list
    BY <1>1, <1>2
  <1>3. CASE Targets!Poll
    <2>1. list' = Query!Asked(list) /\ page' = page
      BY <1>3, TargetsQuery DEF Targets!Poll
    <2>2. IsQuery(list') /\ list'.data = list.data
      BY <1>1, <2>1, AskedIsFresh, QueryKeeps
    <2> QED BY <1>1, <2>1, <2>2 DEF DialogOfARow, Targets!Rows
  <1>4. CASE Targets!Serve
    <2>1. PICK x : list' = Query!Served(list, x) /\ page' = page
      BY <1>4, TargetsQuery DEF Targets!Serve
    <2>2. IsQuery(list') /\ list'.data = list.data
      BY <1>1, <2>1, ServedIsFresh, QueryKeeps
    <2> QED BY <1>1, <2>1, <2>2 DEF DialogOfARow, Targets!Rows
  <1>5. CASE Targets!Receive
    <2> DEFINE d == Targets!Keeps(page.dialog, Targets!Rows(list', page))
    <2>1. IsQuery(list') /\ page' = [page EXCEPT !.dialog = d]
      BY <1>1, <1>5, TargetsQuery, ReceivedIsFresh DEF Targets!Receive
    <2>2. IsTargetsPage(page') /\ page'.dialog = d /\ Targets!Rows(list', page') = Targets!Rows(list', page)
      BY <1>1, <2>1, TargetsDialog
    <2>3. CASE d = Targets!NoDialog
      BY <2>1, <2>2, <2>3 DEF DialogOfARow
    <2>4. CASE d # Targets!NoDialog
      <3>1. d = page.dialog /\ page.dialog.kind # "none" /\ page.dialog.key = page.dialog.named
        BY <1>1, <2>4 DEF Targets!Keeps, DialogOfARow
      <3>2. \E i \in DOMAIN Targets!Rows(list', page) : Targets!Rows(list', page)[i] = page.dialog.key
        BY <3>1, <2>4 DEF Targets!Keeps, Targets!RowKey
      <3> QED BY <2>1, <2>2, <3>1, <3>2 DEF DialogOfARow
    <2> QED BY <2>3, <2>4
  <1>6. ASSUME NEW kind \in {"disconnect", "upgrade"}, NEW i \in DOMAIN Targets!Rows(list, page),
               Targets!OpenDialog(kind, i)
        PROVE  IsQuery(list') /\ IsTargetsPage(page') /\ DialogOfARow(list', page')
    <2> DEFINE a == Targets!Rows(list, page)[i]
    <2>1. PICK d : d = [kind |-> kind, key |-> a, named |-> a]
      OBVIOUS
    <2>2. d.kind = kind /\ d.key = a /\ d.named = a
      BY <2>1
    <2>3. page' = [page EXCEPT !.dialog = d] /\ list' = list
      BY <1>6, <2>1 DEF Targets!OpenDialog, Targets!RowKey
    <2>4. IsTargetsPage(page') /\ page'.dialog = d /\ Targets!Rows(list', page') = Targets!Rows(list, page)
      BY <1>1, <2>3, TargetsDialog
    <2> QED BY <1>1, <2>2, <2>3, <2>4 DEF DialogOfARow
  <1>7. CASE Targets!CloseDialog \/ Targets!handleClose
    <2>1. page' = [page EXCEPT !.dialog = Targets!NoDialog] /\ list' = list
      BY <1>7 DEF Targets!CloseDialog, Targets!handleClose
    <2> QED BY <1>1, <2>1, TargetsDialog DEF DialogOfARow
  <1>8. CASE \/ \E s \in {"All"} \cup DelegateStatuses : Targets!changeStatus(s)
             \/ Targets!SortByName
             \/ \E n \in {0, 1} : Targets!ChangePage(n)
    <2>1. page.dialog = Targets!NoDialog /\ list' = list
      BY <1>8 DEF Targets!changeStatus, Targets!SortByName, Targets!ChangePage, Targets!Clickable
    <2>2. PICK x : \/ page' = [page EXCEPT !.status = x]
                   \/ page' = [page EXCEPT !.byName = x]
                   \/ page' = [page EXCEPT !.pageNo = x]
      BY <1>8 DEF Targets!changeStatus, Targets!SortByName, Targets!ChangePage
    <2> PICK S : page \in [{"pageNo", "status", "byName", "dialog", "role"} -> S]
      BY <1>1 DEF IsTargetsPage
    <2>3. page' \in [{"pageNo", "status", "byName", "dialog", "role"} -> S \cup {x}]
      BY <2>2
    <2>4. page'.dialog = page.dialog
      BY <2>2
    <2> QED BY <1>1, <2>1, <2>3, <2>4 DEF IsTargetsPage, DialogOfARow
  <1> QED
    BY <1>2, <1>3, <1>4, <1>5, <1>6, <1>7, <1>8
    DEF Targets!TargetsNext, Targets!Delete, Targets!Refuse, Targets!AgentChanges

\* The delegate whose row has the dialog is the one the dialog names.
LEMMA DialogRowIsNamed ==
  ASSUME TargetsInv, page.dialog.kind = "disconnect"
  PROVE  Targets!DialogRow = page.dialog.named
  <1> DEFINE shown == Targets!Rows(list, page)
  <1>1. page.dialog # Targets!NoDialog
    BY NoTargetsDialog
  <1>2. page.dialog.key = page.dialog.named /\ \E i \in DOMAIN shown : shown[i] = page.dialog.key
    BY <1>1 DEF TargetsInv, DialogOfARow
  <1> HIDE DEF shown
  <1>3. shown[CHOOSE i \in DOMAIN shown : shown[i] = page.dialog.key] = page.dialog.key
    BY <1>2
  <1> QED BY <1>2, <1>3 DEF Targets!DialogRow, Targets!RowKey, shown

LEMMA TargetsKeepsNames ==
  ASSUME TargetsInv, Targets!TargetsNext
  PROVE  Targets!DisconnectsTheNamed'
  <1>1. Targets!DisconnectsTheNamed
    BY DEF TargetsInv
  <1>2. CASE Targets!handleClose
    <2>1. PICK r : r = [id |-> Targets!DialogRow, named |-> page.dialog.named]
      OBVIOUS
    <2>2. sends' = sends \cup {r} /\ page.dialog.kind = "disconnect"
      BY <1>2, <2>1 DEF Targets!handleClose
    <2>3. r.id = r.named
      BY <2>1, <2>2, DialogRowIsNamed
    <2> QED BY <1>1, <2>2, <2>3 DEF Targets!DisconnectsTheNamed
  <1>3. CASE sends' = sends \/ \E r \in sends : sends' = sends \ {r}
    BY <1>1, <1>3 DEF Targets!DisconnectsTheNamed
  <1> QED
    BY <1>2, <1>3
    DEF Targets!TargetsNext, Targets!Poll, Targets!Serve, Targets!Receive, Targets!changeStatus,
        Targets!SortByName, Targets!ChangePage, Targets!OpenDialog, Targets!CloseDialog,
        Targets!Delete, Targets!Refuse, Targets!AgentChanges

LEMMA TargetsKeeps ==
  TargetsInv /\ [Targets!TargetsNext]_(Targets!targetsVars) => TargetsInv'
  <1>1. ASSUME TargetsInv, Targets!TargetsNext PROVE TargetsInv'
    BY <1>1, TargetsKeepsDialog, TargetsKeepsNames DEF TargetsInv
  <1>2. ASSUME TargetsInv, UNCHANGED Targets!targetsVars PROVE TargetsInv'
    BY <1>2 DEF TargetsInv, DialogOfARow, Targets!DisconnectsTheNamed, Targets!targetsVars
  <1> QED BY <1>1, <1>2
-----------------------------------------------------------------------------
(* The schedules.                                                          *)

IsSchedulesTable(t) == \E S : t \in [{"tab", "suspended", "dialog", "manifest", "role"} -> S]
IsScheduleRequest(r) == \E S : r \in [{"kind", "id", "suspend", "manifest", "state"} -> S]

NoLabels(s) == [of |-> s, labels |-> FALSE]

\* The dialog of a template holds the manifest of its row.
TemplateDialog(d) ==
  d.kind = "template" =>
    /\ \E S : d \in [{"kind", "of", "content", "named", "waits", "result"} -> S]
    /\ d.content = NoLabels(d.of)

TemplateRequest(r) == r.kind = "template" => r.manifest = NoLabels(r.id)

Changes(r) == r.kind \in {"update", "delete"}

\* Until its answer comes a change that was made may not be listed; while the
\* other tab is open the list is nobody's.
SchedulesFresh ==
  table.tab = "schedules" /\ (\A r \in sends : Changes(r) => r.state = "sent")
    => Fresh(list, Schedules!ListOf(server, list.for))

SchedulesInv ==
  /\ IsQuery(list) /\ IsSchedulesTable(table) /\ TemplateDialog(table.dialog)
  /\ \A r \in sends : IsScheduleRequest(r) /\ TemplateRequest(r)
  /\ SchedulesFresh

LEMMA SchedulesQuery ==
  ASSUME NEW q
  PROVE  /\ Schedules!Asked(q) = Query!Asked(q)
         /\ Schedules!Received(q) = Query!Received(q)
         /\ \A x : Schedules!Served(q, x) = Query!Served(q, x)
         /\ \A x : Schedules!Query(x) = Query!Query(x)
         /\ \A x : Schedules!WithVariables(q, x) = IF q.for = x THEN q ELSE Query!Query(x)
         /\ Schedules!Idle(q) = Query!Idle(q)
         /\ Schedules!Result(q) = Query!Result(q)
  BY DEF Schedules!Asked, Query!Asked, Schedules!Received, Query!Received, Schedules!Served, Query!Served,
         Schedules!Query, Query!Query, Schedules!NoData, Query!NoData, Schedules!Idle, Query!Idle,
         Schedules!Result, Query!Result, Schedules!WithVariables

LEMMA NoTemplateDialog == TemplateDialog(Schedules!NoDialog)
  BY DEF TemplateDialog, Schedules!NoDialog

LEMMA SchedulesStart == Schedules!SchedulesInit => SchedulesInv
  <1> SUFFICES ASSUME Schedules!SchedulesInit PROVE SchedulesInv
    OBVIOUS
  <1>1. PICK role \in {"Owner", "Viewer"} :
          table = [tab |-> "schedules", suspended |-> "All", dialog |-> Schedules!NoDialog,
                   manifest |-> Schedules!NoManifest, role |-> role]
    BY DEF Schedules!SchedulesInit
  <1>2. PICK S : S = {"schedules", "All", Schedules!NoDialog, Schedules!NoManifest, role}
    OBVIOUS
  <1>3. table \in [tab : S, suspended : S, dialog : S, manifest : S, role : S]
    BY <1>1, <1>2
  <1>4. table \in [{"tab", "suspended", "dialog", "manifest", "role"} -> S]
    BY <1>3
  <1>5. table.dialog = Schedules!NoDialog
    BY <1>1
  <1>6. IsQuery(list) /\ Fresh(list, Schedules!ListOf(server, list.for)) /\ sends = {}
    BY SchedulesQuery, NewIsFresh DEF Schedules!SchedulesInit
  <1> QED BY <1>4, <1>5, <1>6, NoTemplateDialog DEF SchedulesInv, IsSchedulesTable, SchedulesFresh

\* The table after a step that changes its dialog, and after one that leaves
\* the tab.
LEMMA SchedulesDialog ==
  ASSUME NEW t, IsSchedulesTable(t), NEW d
  PROVE  LET n == [t EXCEPT !.dialog = d]
         IN  IsSchedulesTable(n) /\ n.dialog = d /\ n.tab = t.tab
  <1> PICK S : t \in [{"tab", "suspended", "dialog", "manifest", "role"} -> S]
    BY DEF IsSchedulesTable
  <1> DEFINE n == [t EXCEPT !.dialog = d]
  <1>1. n \in [{"tab", "suspended", "dialog", "manifest", "role"} -> S \cup {d}]
    OBVIOUS
  <1> QED BY <1>1 DEF IsSchedulesTable

LEMMA SchedulesLeft ==
  ASSUME IsSchedulesTable(table), Schedules!LeaveTab
  PROVE  IsSchedulesTable(table') /\ table'.dialog = Schedules!NoDialog /\ table'.tab = "runs"
  <1> PICK S : table \in [{"tab", "suspended", "dialog", "manifest", "role"} -> S]
    BY DEF IsSchedulesTable
  <1>1. table' \in [{"tab", "suspended", "dialog", "manifest", "role"}
                      -> S \cup {"runs", Schedules!NoDialog, "All"}]
    BY DEF Schedules!LeaveTab
  <1>2. table'.dialog = Schedules!NoDialog /\ table'.tab = "runs"
    BY DEF Schedules!LeaveTab
  <1> QED BY <1>1, <1>2 DEF IsSchedulesTable

\* A dialog of a template that waits, has its name or its answer.
LEMMA TemplateGoesOn ==
  ASSUME NEW d, TemplateDialog(d), d.kind = "template", NEW x, NEW y
  PROVE  /\ TemplateDialog([d EXCEPT !.named = x])
         /\ TemplateDialog([d EXCEPT !.waits = x])
         /\ TemplateDialog([d EXCEPT !.result = x])
         /\ TemplateDialog([d EXCEPT !.result = x, !.waits = y])
  <1> DEFINE F == {"kind", "of", "content", "named", "waits", "result"}
  <1> PICK S : d \in [F -> S]
    BY DEF TemplateDialog
  <1>1. ASSUME NEW e, e \in [F -> S \cup {x, y}], e.of = d.of, e.content = d.content
        PROVE  TemplateDialog(e)
    BY <1>1 DEF TemplateDialog
  <1> QED BY <1>1

LEMMA SchedulesTable ==
  ASSUME SchedulesInv, Schedules!SchedulesNext
  PROVE  /\ IsSchedulesTable(table') /\ TemplateDialog(table'.dialog)
         /\ table'.tab = "schedules" => table.tab = "schedules" \/ Schedules!Return
  <1> DEFINE Goal == /\ IsSchedulesTable(table') /\ TemplateDialog(table'.dialog)
                     /\ table'.tab = "schedules" => table.tab = "schedules" \/ Schedules!Return
  <1> SUFFICES Goal
    OBVIOUS
  <1>1. IsSchedulesTable(table) /\ TemplateDialog(table.dialog)
    BY DEF SchedulesInv
  <1>2. ASSUME NEW d, table' = [table EXCEPT !.dialog = d], TemplateDialog(d)
        PROVE  Goal
    BY <1>1, <1>2, SchedulesDialog
  <1>3. CASE table' = table
    BY <1>1, <1>3
  <1>4. CASE Schedules!LeaveTab
    BY <1>1, <1>4, SchedulesLeft, NoTemplateDialog
  <1>5. CASE Schedules!Receive
    <2>1. PICK d \in {table.dialog, Schedules!NoDialog} : table' = [table EXCEPT !.dialog = d]
      BY <1>5 DEF Schedules!Receive, Schedules!Kept
    <2> QED BY <1>1, <1>2, <2>1, NoTemplateDialog
  <1>6. CASE \/ \E v \in {"All", "true", "false"} : Schedules!ChangeSuspended(v)
             \/ Schedules!Return
    <2>1. PICK v : /\ table' = [table EXCEPT !.suspended = v] \/ table' = [table EXCEPT !.tab = v]
                   /\ Schedules!Return \/ table' = [table EXCEPT !.suspended = v]
      BY <1>6 DEF Schedules!ChangeSuspended, Schedules!Return
    <2> PICK S : table \in [{"tab", "suspended", "dialog", "manifest", "role"} -> S]
      BY <1>1 DEF IsSchedulesTable
    <2>2. table' \in [{"tab", "suspended", "dialog", "manifest", "role"} -> S \cup {v}]
      BY <2>1
    <2>3. table'.dialog = table.dialog /\ (Schedules!Return \/ table'.tab = table.tab)
      BY <2>1
    <2> QED BY <1>1, <2>2, <2>3 DEF IsSchedulesTable
  <1>7. ASSUME NEW s, Schedules!OpenDelete(s)
        PROVE  Goal
    <2>1. TemplateDialog([kind |-> "delete", of |-> s])
      BY DEF TemplateDialog
    <2> QED BY <1>2, <1>7, <2>1 DEF Schedules!OpenDelete
  <1>8. CASE Schedules!deleteRow \/ Schedules!CloseDialog
    BY <1>2, <1>8, NoTemplateDialog DEF Schedules!deleteRow, Schedules!CloseDialog
  <1>9. ASSUME NEW s, Schedules!handleSaveWorkflowTemplate(s)
        PROVE  Goal
    <2>1. PICK m : m = NoLabels(s)
      OBVIOUS
    <2>2. PICK d : d = [kind |-> "template", of |-> s, content |-> m,
                        named |-> FALSE, waits |-> FALSE, result |-> ""]
      OBVIOUS
    <2>3. table' = [table EXCEPT !.manifest = m, !.dialog = d]
      BY <1>9, <2>1, <2>2 DEF Schedules!handleSaveWorkflowTemplate, NoLabels
    <2>4. PICK T : T = {"template", s, m, FALSE, ""}
      OBVIOUS
    <2>5. d \in [kind : T, of : T, content : T, named : T, waits : T, result : T]
      BY <2>2, <2>4
    <2>6. d \in [{"kind", "of", "content", "named", "waits", "result"} -> T]
      BY <2>5
    <2>7. d.content = m /\ d.of = s
      BY <2>2
    <2>8. TemplateDialog(d)
      BY <2>1, <2>6, <2>7 DEF TemplateDialog
    <2> PICK S : table \in [{"tab", "suspended", "dialog", "manifest", "role"} -> S]
      BY <1>1 DEF IsSchedulesTable
    <2>9. table' \in [{"tab", "suspended", "dialog", "manifest", "role"} -> S \cup {m, d}]
      BY <2>3
    <2>10. table'.dialog = d /\ table'.tab = table.tab
      BY <2>3
    <2> QED BY <2>8, <2>9, <2>10 DEF IsSchedulesTable
  <1>10. CASE Schedules!NameTemplate \/ Schedules!SaveTemplate
    <2>1. table.dialog.kind = "template"
      BY <1>10 DEF Schedules!NameTemplate, Schedules!SaveTemplate, Schedules!InTemplate
    <2>2. \/ table' = [table EXCEPT !.dialog = [table.dialog EXCEPT !.named = TRUE]]
          \/ table' = [table EXCEPT !.dialog = [table.dialog EXCEPT !.waits = TRUE]]
      BY <1>10 DEF Schedules!NameTemplate, Schedules!SaveTemplate
    <2> QED BY <1>1, <1>2, <2>1, <2>2, TemplateGoesOn
  <1>11. CASE Schedules!handleAlertOnClose
    <2>1. table.dialog.kind = "template"
      BY <1>11 DEF Schedules!handleAlertOnClose, Schedules!InTemplate
    <2>2. \/ table' = [table EXCEPT !.dialog = Schedules!NoDialog]
          \/ table' = [table EXCEPT !.dialog = [table.dialog EXCEPT !.result = ""]]
      BY <1>11 DEF Schedules!handleAlertOnClose
    <2> QED BY <1>1, <1>2, <2>1, <2>2, TemplateGoesOn, NoTemplateDialog
  <1>12. ASSUME NEW x, Schedules!InTemplate,
                table' = [table EXCEPT !.dialog.result = x, !.dialog.waits = FALSE]
         PROVE  Goal
    <2>1. table' = [table EXCEPT !.dialog = [table.dialog EXCEPT !.result = x, !.waits = FALSE]]
      BY <1>1, <1>12 DEF IsSchedulesTable
    <2>2. TemplateDialog([table.dialog EXCEPT !.result = x, !.waits = FALSE])
      BY <1>1, <1>12, TemplateGoesOn DEF Schedules!InTemplate
    <2> QED BY <1>2, <2>1, <2>2
  <1>13. ASSUME NEW r \in sends, Schedules!Answered(r) \/ Schedules!Failed(r)
         PROVE  Goal
    <2>1. CASE Schedules!Failed(r)
      BY <2>1, <1>3, <1>12 DEF Schedules!Failed
    <2>2. CASE Schedules!Answered(r) /\ r.kind = "rerun"
      BY <2>2, <1>4 DEF Schedules!Answered
    <2>3. CASE Schedules!Answered(r) /\ r.kind # "rerun"
      BY <2>3, <1>3, <1>12 DEF Schedules!Answered
    <2> QED BY <1>13, <2>1, <2>2, <2>3
  <1>14. \/ table' = table \/ Schedules!LeaveTab \/ Schedules!Receive
         \/ \E v \in {"All", "true", "false"} : Schedules!ChangeSuspended(v)
         \/ Schedules!Return
         \/ \E s \in Schedules!Ids : Schedules!OpenDelete(s) \/ Schedules!handleSaveWorkflowTemplate(s)
         \/ Schedules!deleteRow \/ Schedules!CloseDialog
         \/ Schedules!NameTemplate \/ Schedules!SaveTemplate \/ Schedules!handleAlertOnClose
         \/ \E r \in sends : Schedules!Answered(r) \/ Schedules!Failed(r)
    BY DEF Schedules!SchedulesNext, Schedules!Serve, Schedules!ChangePage, Schedules!handleToggleSchedule,
           Schedules!reRunSchedule, Schedules!ShowRuns, Schedules!Apply
  <1> HIDE DEF Goal
  <1> QED
    BY <1>3, <1>4, <1>5, <1>6, <1>7, <1>8, <1>9, <1>10, <1>11, <1>13, <1>14

LEMMA ScheduleSent ==
  ASSUME NEW kind, NEW s, NEW suspend, NEW manifest,
         Schedules!Send(Schedules!Request(kind, s, suspend, manifest)),
         kind = "template" => manifest = NoLabels(s)
  PROVE  \E q : sends' = sends \cup {q} /\ IsScheduleRequest(q) /\ TemplateRequest(q)
  <1> PICK q : q = [kind |-> kind, id |-> s, suspend |-> suspend, manifest |-> manifest, state |-> "sent"]
    OBVIOUS
  <1>1. sends' = sends \cup {q}
    BY DEF Schedules!Send, Schedules!Request
  <1>2. PICK S : S = {kind, s, suspend, manifest, "sent"}
    OBVIOUS
  <1>3. q \in [kind : S, id : S, suspend : S, manifest : S, state : S]
    BY <1>2
  <1>4. q \in [{"kind", "id", "suspend", "manifest", "state"} -> S]
    BY <1>3
  <1>5. q.kind = kind /\ q.id = s /\ q.manifest = manifest
    OBVIOUS
  <1> QED BY <1>1, <1>4, <1>5 DEF IsScheduleRequest, TemplateRequest

LEMMA ScheduleDone ==
  ASSUME NEW r, IsScheduleRequest(r)
  PROVE  LET q == [r EXCEPT !.state = "done"]
         IN  /\ IsScheduleRequest(q) /\ q.state = "done" /\ q.kind = r.kind
             /\ TemplateRequest(r) => TemplateRequest(q)
  <1> PICK S : r \in [{"kind", "id", "suspend", "manifest", "state"} -> S]
    BY DEF IsScheduleRequest
  <1> DEFINE q == [r EXCEPT !.state = "done"]
  <1>1. q \in [{"kind", "id", "suspend", "manifest", "state"} -> S \cup {"done"}]
    OBVIOUS
  <1>2. q.kind = r.kind /\ q.id = r.id /\ q.manifest = r.manifest /\ q.state = "done"
    OBVIOUS
  <1> HIDE DEF q
  <1> QED BY <1>1, <1>2 DEF IsScheduleRequest, TemplateRequest

LEMMA SchedulesSends ==
  ASSUME SchedulesInv, Schedules!SchedulesNext
  PROVE  \A r \in sends' : IsScheduleRequest(r) /\ TemplateRequest(r)
  <1> DEFINE Good(x) == \A r \in x : IsScheduleRequest(r) /\ TemplateRequest(r)
  <1>1. Good(sends)
    BY DEF SchedulesInv
  <1> SUFFICES Good(sends')
    OBVIOUS
  <1>2. CASE sends' = sends \/ \E r \in sends : sends' = sends \ {r}
    BY <1>1, <1>2
  <1>3. ASSUME NEW q, sends' = sends \cup {q}, IsScheduleRequest(q), TemplateRequest(q)
        PROVE  Good(sends')
    BY <1>1, <1>3
  <1>4. ASSUME NEW r \in sends, Schedules!Apply(r)
        PROVE  Good(sends')
    <2>1. sends' = (sends \ {r}) \cup {[r EXCEPT !.state = "done"]}
      BY <1>4 DEF Schedules!Apply
    <2>2. IsScheduleRequest([r EXCEPT !.state = "done"]) /\ TemplateRequest([r EXCEPT !.state = "done"])
      BY <1>1, ScheduleDone
    <2> QED BY <1>1, <2>1, <2>2
  <1> HIDE DEF Good
  <1>5. CASE Schedules!SaveTemplate
    <2>1. table.dialog.content = NoLabels(table.dialog.of)
      BY <1>5 DEF Schedules!SaveTemplate, Schedules!InTemplate, SchedulesInv, TemplateDialog
    <2>2. Schedules!Send(Schedules!Request("template", table.dialog.of, "", table.dialog.content))
      BY <1>5 DEF Schedules!SaveTemplate
    <2> QED BY <1>3, <2>1, <2>2, ScheduleSent
  <1>6. ASSUME NEW s, Schedules!handleToggleSchedule(s)
        PROVE  Good(sends')
    <2>1. PICK x : Schedules!Send(Schedules!Request("update", s, x, Schedules!NoManifest))
      BY <1>6 DEF Schedules!handleToggleSchedule
    <2> QED BY <1>3, <2>1, ScheduleSent
  <1>7. CASE Schedules!deleteRow
    <2>1. Schedules!Send(Schedules!Request("delete", table.dialog.of, "", Schedules!NoManifest))
      BY <1>7 DEF Schedules!deleteRow
    <2> QED BY <1>3, <2>1, ScheduleSent
  <1>8. ASSUME NEW s, Schedules!reRunSchedule(s)
        PROVE  Good(sends')
    <2>1. Schedules!Send(Schedules!Request("rerun", s, "", Schedules!NoManifest))
      BY <1>8 DEF Schedules!reRunSchedule
    <2> QED BY <1>3, <2>1, ScheduleSent
  <1> QED
    BY <1>2, <1>4, <1>5, <1>6, <1>7, <1>8
    DEF Schedules!SchedulesNext, Schedules!Serve, Schedules!Receive, Schedules!ChangePage,
        Schedules!ChangeSuspended, Schedules!OpenDelete, Schedules!ShowRuns,
        Schedules!handleSaveWorkflowTemplate, Schedules!CloseDialog, Schedules!Return,
        Schedules!NameTemplate, Schedules!handleAlertOnClose, Schedules!Answered, Schedules!Failed

LEMMA SchedulesStaysFresh ==
  ASSUME SchedulesInv, Schedules!SchedulesNext
  PROVE  IsQuery(list') /\ SchedulesFresh'
  <1> DEFINE Goal == IsQuery(list') /\ SchedulesFresh'
             AllSent(s) == \A r \in s : Changes(r) => r.state = "sent"
  <1> SUFFICES Goal
    OBVIOUS
  <1>1. /\ IsQuery(list) /\ SchedulesFresh /\ \A r \in sends : IsScheduleRequest(r)
        /\ table'.tab = "schedules" => table.tab = "schedules" \/ Schedules!Return
    BY SchedulesTable DEF SchedulesInv
  <1>2. CASE list' = Query!Asked(list)
    BY <1>1, <1>2, AskedIsFresh DEF SchedulesFresh
  <1>3. ASSUME NEW v, list' = Query!Query(v)
        PROVE  Goal
    BY <1>3, NewIsFresh DEF SchedulesFresh
  <1>4. CASE Schedules!Serve
    <2>1. /\ list' = Query!Served(list, Schedules!ListOf(server, list.for))
          /\ UNCHANGED <<server, table, sends>>
      BY <1>4, SchedulesQuery DEF Schedules!Serve
    <2>2. list'.for = list.for
      BY <1>1, <2>1, QueryKeeps
    <2> QED BY <1>1, <2>1, <2>2, ServedIsFresh DEF SchedulesFresh
  <1>5. CASE Schedules!Receive
    <2>1. /\ list.wire = "back" /\ list' = Query!Received(list)
          /\ UNCHANGED <<server, sends>> /\ list.for = list'.for
      BY <1>1, <1>5, SchedulesQuery, QueryKeeps DEF Schedules!Receive
    <2>2. IsQuery(list') /\ \A x : Fresh(list, x) => Fresh(list', x)
      BY <1>1, <2>1, ReceivedIsFresh
    <2>3. CASE Schedules!Return
      BY <2>1, <1>3, <2>3, SchedulesQuery DEF Schedules!Return
    <2>4. CASE ~ Schedules!Return
      BY <1>1, <2>1, <2>2, <2>4 DEF SchedulesFresh
    <2> QED BY <2>3, <2>4
  <1>6. ASSUME NEW n, Schedules!ChangePage(n)
        PROVE  Goal
    BY <1>3, <1>6, SchedulesQuery DEF Schedules!ChangePage
  <1>7. CASE Schedules!Return
    BY <1>3, <1>7, SchedulesQuery DEF Schedules!Return
  <1>8. ASSUME UNCHANGED <<server, list>>, AllSent(sends') => AllSent(sends)
        PROVE  Goal
    BY <1>1, <1>7, <1>8 DEF SchedulesFresh
  <1>9. ASSUME NEW r \in sends, Schedules!Apply(r)
        PROVE  Goal
    <2> DEFINE q == [r EXCEPT !.state = "done"]
    <2>1. sends' = (sends \ {r}) \cup {q} /\ list' = list /\ r.state = "sent"
      BY <1>9 DEF Schedules!Apply
    <2>2. q.kind = r.kind /\ q.state = "done"
      BY <1>1, ScheduleDone
    <2>3. CASE Changes(r)
      <3>1. ~ AllSent(sends')
        BY <2>1, <2>2, <2>3 DEF Changes
      <3> QED BY <1>1, <2>1, <3>1 DEF SchedulesFresh
    <2>4. CASE ~ Changes(r)
      <3>1. server' = server
        BY <1>9, <2>4 DEF Schedules!Apply, Changes
      <3>2. AllSent(sends') => AllSent(sends)
        BY <2>1
      <3> QED BY <1>8, <2>1, <3>1, <3>2
    <2> QED BY <2>3, <2>4
  <1>10. ASSUME NEW r \in sends, Schedules!Answered(r)
         PROVE  Goal
    <2>1. sends' = sends \ {r} /\ UNCHANGED server
      BY <1>10 DEF Schedules!Answered
    <2>2. CASE Changes(r) /\ table.tab = "schedules"
      BY <1>2, <1>10, <2>2, SchedulesQuery DEF Schedules!Answered, Changes
    <2>3. CASE ~ Changes(r)
      <3>1. list' = list
        BY <1>10, <2>3 DEF Schedules!Answered, Changes
      <3>2. AllSent(sends') => AllSent(sends)
        BY <2>1, <2>3
      <3> QED BY <1>8, <2>1, <3>1, <3>2
    <2>4. CASE table.tab # "schedules"
      <3>1. list' = list
        BY <1>10, <2>4 DEF Schedules!Answered
      <3>2. table'.tab # "schedules" \/ Schedules!Return
        BY <1>1, <2>4
      <3> QED BY <1>1, <1>7, <3>1, <3>2 DEF SchedulesFresh
    <2> QED BY <2>2, <2>3, <2>4
  <1>11. ASSUME NEW r \in sends, Schedules!Failed(r)
         PROVE  Goal
    <2>1. sends' = sends \ {r} /\ UNCHANGED <<server, list>> /\ r.state = "sent"
      BY <1>11 DEF Schedules!Failed
    <2>2. AllSent(sends') => AllSent(sends)
      BY <2>1
    <2> QED BY <1>8, <2>1, <2>2
  <1>12. ASSUME UNCHANGED <<server, list>>, sends' = sends \/ \E q : sends' = sends \cup {q}
         PROVE  Goal
    BY <1>8, <1>12
  <1> HIDE DEF Goal
  <1> QED
    BY <1>4, <1>5, <1>6, <1>7, <1>9, <1>10, <1>11, <1>12
    DEF Schedules!SchedulesNext, Schedules!ChangeSuspended, Schedules!handleToggleSchedule,
        Schedules!OpenDelete, Schedules!reRunSchedule, Schedules!ShowRuns,
        Schedules!handleSaveWorkflowTemplate, Schedules!deleteRow, Schedules!CloseDialog,
        Schedules!NameTemplate, Schedules!SaveTemplate, Schedules!handleAlertOnClose, Schedules!Send

LEMMA SchedulesKeeps ==
  SchedulesInv /\ [Schedules!SchedulesNext]_(Schedules!schedulesVars) => SchedulesInv'
  <1>1. ASSUME SchedulesInv, Schedules!SchedulesNext PROVE SchedulesInv'
    BY <1>1, SchedulesTable, SchedulesSends, SchedulesStaysFresh DEF SchedulesInv
  <1>2. ASSUME SchedulesInv, UNCHANGED Schedules!schedulesVars PROVE SchedulesInv'
    BY <1>2 DEF SchedulesInv, SchedulesFresh, Schedules!schedulesVars
  <1> QED BY <1>1, <1>2

LEMMA SchedulesShows ==
  SchedulesInv => Schedules!ShowsStored /\ Schedules!TemplateOfItsRow
  <1> SUFFICES ASSUME SchedulesInv PROVE Schedules!ShowsStored /\ Schedules!TemplateOfItsRow
    OBVIOUS
  <1>1. Schedules!TemplateOfItsRow
    BY DEF SchedulesInv, TemplateRequest, NoLabels, Schedules!TemplateOfItsRow
  <1>2. ASSUME table.tab = "schedules", sends = {}, Schedules!Idle(list), ~ list.shared
        PROVE  Schedules!Result(list) = Schedules!ListOf(server, list.for)
    <2>1. Fresh(list, Schedules!ListOf(server, list.for))
      BY <1>2 DEF SchedulesInv, SchedulesFresh
    <2> QED BY <1>2, <2>1, SchedulesQuery, FreshAtRest
  <1> QED BY <1>1, <1>2 DEF Schedules!ShowsStored, Schedules!AtRest
-----------------------------------------------------------------------------
(* The modal of invitations.                                               *)

ModalFields == {"open", "wait", "rows", "shown", "roles", "selected", "search",
                "success", "loading", "error"}
IsModal(m) == \E S : m \in [ModalFields -> S]

IsSelected(s) == s \in [user : Invitees, role : Invite!Roles]
IsInvitation(i) == i \in [user : Invitees, role : Invite!Roles, mounted : BOOLEAN]

\* The role a click on a user's row selects them with.
RoleOf(roles, u) == IF roles[u] = "" THEN "Viewer" ELSE roles[u]

\* Whoever is selected is so with the role last picked, and rows forget theirs
\* when the button was pressed.
RolesAsPicked(m, p) ==
  /\ m.roles \in [Invitees -> Invite!Roles \cup {""}]
  /\ m.shown \in [Invitees -> Invite!Roles \cup {""}]
  /\ \A s \in m.selected : IsSelected(s)
  /\ m.open => /\ \A u \in Invitees : p[u] = RoleOf(m.roles, u)
               /\ \A s \in m.selected : s.role = p[s.user]

SelectedAsPicked(m, p) ==
  /\ RolesAsPicked(m, p)
  /\ m.success => m.open /\ \A u \in Invitees : m.shown[u] = ""
  /\ ~ m.open => m.selected = {} /\ \A u \in Invitees : m.shown[u] = ""

\* Only a modal that is still mounted and was sent from has invitations.
InviteInv ==
  /\ IsModal(modal) /\ picked \in [Invitees -> Invite!Roles]
  /\ modal.open \in BOOLEAN /\ modal.success \in BOOLEAN
  /\ SelectedAsPicked(modal, picked)
  /\ modal.wait # "none" => modal.open
  /\ \A i \in invites : IsInvitation(i) /\ (i.mounted => modal.open /\ modal.success)
  /\ Invite!InvitesWithChosenRole

LEMMA UnmountedModal ==
  /\ IsModal(Invite!Unmounted) /\ Invite!Unmounted.open = FALSE /\ Invite!Unmounted.success = FALSE
  /\ Invite!Unmounted.wait = "none" /\ Invite!Unmounted.selected = {}
  /\ Invite!Unmounted.shown = [u \in Invitees |-> ""]
  /\ Invite!Unmounted.roles = [u \in Invitees |-> ""]
  <1> PICK f : f = [u \in Invitees |-> ""]
    OBVIOUS
  <1> PICK m : m = [open |-> FALSE, wait |-> "none", rows |-> {}, shown |-> f, roles |-> f,
                    selected |-> {}, search |-> "", success |-> FALSE, loading |-> FALSE, error |-> FALSE]
    OBVIOUS
  <1>1. m = Invite!Unmounted
    BY DEF Invite!Unmounted
  <1>2. PICK S : S = {FALSE, "none", "", {}, f}
    OBVIOUS
  <1>3. m \in [open : S, wait : S, rows : S, shown : S, roles : S, selected : S, search : S,
               success : S, loading : S, error : S]
    BY <1>2
  <1>4. m \in [ModalFields -> S]
    BY <1>3 DEF ModalFields
  <1>5. /\ m.open = FALSE /\ m.success = FALSE /\ m.wait = "none" /\ m.selected = {}
        /\ m.shown = f /\ m.roles = f
    OBVIOUS
  <1> QED BY <1>1, <1>4, <1>5 DEF IsModal

\* Rendering sets what the rows show and nothing else.
LEMMA RenderedModal ==
  ASSUME NEW m, IsModal(m), m.shown \in [Invitees -> Invite!Roles \cup {""}]
  PROVE  LET n == Invite!Rendered(m)
         IN  /\ IsModal(n) /\ n.open = m.open /\ n.success = m.success /\ n.wait = m.wait
             /\ n.selected = m.selected /\ n.roles = m.roles
             /\ n.shown \in [Invitees -> Invite!Roles \cup {""}]
             /\ m.success => \A u \in Invitees : n.shown[u] = ""
  <1> PICK f : f = [u \in Invitees |->
        IF u \notin m.rows \/ m.search \notin {"", u} \/ m.success THEN ""
        ELSE IF m.shown[u] = "" THEN "Viewer" ELSE m.shown[u]]
    OBVIOUS
  <1> DEFINE n == [m EXCEPT !.shown = f]
  <1>1. Invite!Rendered(m) = n
    BY DEF Invite!Rendered
  <1> PICK S : m \in [ModalFields -> S]
    BY DEF IsModal
  <1>2. n \in [ModalFields -> S \cup {f}]
    BY DEF ModalFields
  <1>3. n.open = m.open /\ n.success = m.success /\ n.wait = m.wait
    BY DEF ModalFields
  <1>4. n.selected = m.selected /\ n.roles = m.roles /\ n.shown = f
    BY DEF ModalFields
  <1>5. f \in [Invitees -> Invite!Roles \cup {""}]
    <2>1. \A u \in Invitees : (IF u \notin m.rows \/ m.search \notin {"", u} \/ m.success THEN ""
        ELSE IF m.shown[u] = "" THEN "Viewer" ELSE m.shown[u]) \in Invite!Roles \cup {""}
      BY DEF Invite!Roles
    <2> QED BY <2>1
  <1>6. m.success => \A u \in Invitees : f[u] = ""
    OBVIOUS
  <1> HIDE DEF n
  <1> QED BY <1>1, <1>2, <1>3, <1>4, <1>5, <1>6 DEF IsModal

LEMMA InviteStart == Invite!InviteInit => InviteInv
  <1> SUFFICES ASSUME Invite!InviteInit PROVE InviteInv
    OBVIOUS
  <1>1. modal = Invite!Unmounted /\ invites = {} /\ picked = [u \in Invitees |-> "Viewer"]
    BY DEF Invite!InviteInit
  <1>2. picked \in [Invitees -> Invite!Roles]
    BY <1>1 DEF Invite!Roles
  <1>3. SelectedAsPicked(modal, picked)
    BY <1>1, UnmountedModal DEF SelectedAsPicked, RolesAsPicked, RoleOf
  <1> QED BY <1>1, <1>2, <1>3, UnmountedModal DEF InviteInv, Invite!InvitesWithChosenRole

\* What the steps establish of the modal and of the picked roles.
ModalInv(m, p) ==
  /\ IsModal(m) /\ p \in [Invitees -> Invite!Roles]
  /\ m.open \in BOOLEAN /\ m.success \in BOOLEAN
  /\ SelectedAsPicked(m, p)
  /\ m.wait # "none" => m.open

LEMMA OpenModal ==
  ASSUME Invite!Open
  PROVE  ModalInv(modal', picked')
  <1> PICK S : Invite!Unmounted \in [ModalFields -> S]
    BY UnmountedModal DEF IsModal
  <1>1. modal' = [Invite!Unmounted EXCEPT !.open = TRUE, !.wait = "project"]
    BY DEF Invite!Open
  <1>2. modal' \in [ModalFields -> S \cup {TRUE, "project"}]
    BY <1>1 DEF ModalFields
  <1>3. /\ modal'.open = TRUE /\ modal'.success = FALSE /\ modal'.selected = {}
    BY <1>1, UnmountedModal DEF ModalFields
  <1>4. modal'.shown = [u \in Invitees |-> ""] /\ modal'.roles = [u \in Invitees |-> ""]
    BY <1>1, UnmountedModal DEF ModalFields
  <1>5. picked' = [u \in Invitees |-> "Viewer"]
    BY DEF Invite!Open
  <1>6. SelectedAsPicked(modal', picked')
    BY <1>3, <1>4, <1>5 DEF SelectedAsPicked, RolesAsPicked, RoleOf, Invite!Roles
  <1>7. picked' \in [Invitees -> Invite!Roles]
    BY <1>5 DEF Invite!Roles
  <1> QED BY <1>2, <1>3, <1>6, <1>7 DEF ModalInv, IsModal

\* A modal that differs in fields that say nothing of the roles.
LEMMA ModalElsewhere ==
  ASSUME NEW m, NEW n, NEW p, ModalInv(m, p), IsModal(n), n.open = m.open, n.success = m.success,
         n.selected = m.selected, n.roles = m.roles, n.shown = m.shown, n.wait = m.wait \/ m.open
  PROVE  ModalInv(n, p)
  BY DEF ModalInv, SelectedAsPicked, RolesAsPicked

LEMMA ModalRendered ==
  ASSUME NEW m, NEW p \in [Invitees -> Invite!Roles], IsModal(m), RolesAsPicked(m, p),
         m.open = TRUE, m.success \in BOOLEAN
  PROVE  ModalInv(Invite!Rendered(m), p)
  <1> PICK n : n = Invite!Rendered(m)
    OBVIOUS
  <1>1. m.shown \in [Invitees -> Invite!Roles \cup {""}]
    BY DEF RolesAsPicked
  <1>2. /\ IsModal(n) /\ n.open = TRUE /\ n.success = m.success
        /\ n.selected = m.selected /\ n.roles = m.roles
        /\ n.shown \in [Invitees -> Invite!Roles \cup {""}]
        /\ m.success => \A u \in Invitees : n.shown[u] = ""
    BY <1>1, RenderedModal
  <1>3. RolesAsPicked(n, p)
    BY <1>2 DEF RolesAsPicked
  <1>4. SelectedAsPicked(n, p)
    BY <1>2, <1>3 DEF SelectedAsPicked
  <1>5. n.open \in BOOLEAN /\ n.success \in BOOLEAN
    BY <1>2
  <1> QED BY <1>2, <1>4, <1>5 DEF ModalInv

LEMMA InviteChoosing ==
  ASSUME InviteInv, NEW u \in Invitees, Invite!OnScreen(u)
  PROVE  modal.open /\ ~ modal.success
  BY DEF InviteInv, SelectedAsPicked, RolesAsPicked, Invite!OnScreen

LEMMA RolePicked ==
  ASSUME InviteInv, NEW u \in Invitees, NEW role \in Invite!Roles, Invite!PickRole(u, role)
  PROVE  ModalInv(modal', picked')
  <1>1. modal.open /\ ~ modal.success /\ ModalInv(modal, picked)
    BY InviteChoosing DEF Invite!PickRole, InviteInv, ModalInv
  <1> PICK shown : shown = [modal.shown EXCEPT ![u] = role]
    OBVIOUS
  <1> PICK roles : roles = [modal.roles EXCEPT ![u] = role]
    OBVIOUS
  <1> PICK selected : selected = {IF s.user = u THEN [s EXCEPT !.role = role] ELSE s : s \in modal.selected}
    OBVIOUS
  <1> PICK S : modal \in [ModalFields -> S]
    BY <1>1 DEF ModalInv, IsModal
  <1>2. modal' = [modal EXCEPT !.shown = shown, !.roles = roles, !.selected = selected]
    BY DEF Invite!PickRole, Invite!setUserRole
  <1>3. modal' \in [ModalFields -> S \cup {shown, roles, selected}]
    BY <1>2, ThreeChanged
  <1>s. modal'.shown = shown
    BY <1>2 DEF ModalFields
  <1>r. modal'.roles = roles
    BY <1>2 DEF ModalFields
  <1>4. modal'.shown = shown /\ modal'.roles = roles /\ modal'.selected = selected
    BY <1>2, <1>s, <1>r DEF ModalFields
  <1>o. modal'.open = modal.open
    BY <1>2 DEF ModalFields
  <1>5. modal'.open = modal.open /\ modal'.success = modal.success /\ modal'.wait = modal.wait
    BY <1>2, <1>o DEF ModalFields
  <1>6. shown \in [Invitees -> Invite!Roles \cup {""}] /\ roles \in [Invitees -> Invite!Roles \cup {""}]
    BY <1>1 DEF ModalInv, SelectedAsPicked, RolesAsPicked
  <1>7. /\ picked' = [picked EXCEPT ![u] = role] /\ picked \in [Invitees -> Invite!Roles]
        /\ picked' \in [Invitees -> Invite!Roles]
    BY <1>1 DEF Invite!PickRole, ModalInv
  <1>8. \A v \in Invitees : picked'[v] = RoleOf(roles, v)
    <2> TAKE v \in Invitees
    <2>1. picked[v] = RoleOf(modal.roles, v) /\ modal.roles \in [Invitees -> Invite!Roles \cup {""}]
      BY <1>1 DEF ModalInv, SelectedAsPicked, RolesAsPicked
    <2>2. role # ""
      BY DEF Invite!Roles
    <2> QED BY <1>7, <2>1, <2>2 DEF RoleOf
  <1>9. ASSUME NEW t \in selected
        PROVE  IsSelected(t) /\ t.role = picked'[t.user]
    <2>1. PICK s \in modal.selected : t = IF s.user = u THEN [s EXCEPT !.role = role] ELSE s
      BY <1>9
    <2>2. IsSelected(s) /\ s.role = picked[s.user]
      BY <1>1 DEF ModalInv, SelectedAsPicked, RolesAsPicked
    <2>3. s.user \in Invitees
      BY <2>2 DEF IsSelected
    <2>4. CASE s.user = u
      <3>1. t = [s EXCEPT !.role = role]
        BY <2>1, <2>4
      <3>2. IsSelected(t) /\ t.user = u /\ t.role = role
        BY <2>2, <2>4, <3>1 DEF IsSelected
      <3> QED BY <1>7, <3>2
    <2>5. CASE s.user # u
      BY <1>7, <2>1, <2>2, <2>3, <2>5
    <2> QED BY <2>4, <2>5
  <1> QED BY <1>1, <1>3, <1>4, <1>5, <1>6, <1>7, <1>8, <1>9 DEF ModalInv, SelectedAsPicked, RolesAsPicked, IsModal

LEMMA UserClicked ==
  ASSUME InviteInv, NEW u \in Invitees, Invite!handleClick(u)
  PROVE  ModalInv(modal', picked')
  <1>1. modal.open /\ ~ modal.success /\ ModalInv(modal, picked) /\ picked' = picked
    BY InviteChoosing DEF Invite!handleClick, InviteInv, ModalInv
  <1> PICK r : r = RoleOf(modal.roles, u)
    OBVIOUS
  <1> PICK s : s = [user |-> u, role |-> r]
    OBVIOUS
  <1>2. PICK selected : /\ modal' = [modal EXCEPT !.selected = selected]
                        /\ selected \subseteq modal.selected \cup {s}
    BY DEF Invite!handleClick, RoleOf
  <1> PICK S : modal \in [ModalFields -> S]
    BY <1>1 DEF ModalInv, IsModal
  <1>3. modal' \in [ModalFields -> S \cup {selected}]
    BY <1>2 DEF ModalFields
  <1>4. modal'.shown = modal.shown /\ modal'.roles = modal.roles /\ modal'.selected = selected
    BY <1>2 DEF ModalFields
  <1>5. modal'.open = modal.open /\ modal'.success = modal.success /\ modal'.wait = modal.wait
    BY <1>2 DEF ModalFields
  <1>6. r = picked[u] /\ r \in Invite!Roles
    BY <1>1 DEF ModalInv, SelectedAsPicked, RolesAsPicked
  <1>7. IsSelected(s) /\ s.role = picked[s.user]
    BY <1>6 DEF IsSelected
  <1>8. \A t \in selected : IsSelected(t) /\ t.role = picked[t.user]
    BY <1>1, <1>2, <1>7 DEF ModalInv, SelectedAsPicked, RolesAsPicked
  <1> QED BY <1>1, <1>3, <1>4, <1>5, <1>8 DEF ModalInv, SelectedAsPicked, RolesAsPicked, IsModal

LEMMA ModalNext ==
  ASSUME InviteInv, Invite!InviteNext
  PROVE  ModalInv(modal', picked')
  <1>1. ModalInv(modal, picked)
    BY DEF InviteInv, ModalInv
  <1>2. CASE Invite!getProject
    <2>1. PICK x : modal' = [modal EXCEPT !.wait = x] /\ picked' = picked
      BY <1>2 DEF Invite!getProject
    <2>2. modal.open
      BY <1>2 DEF Invite!getProject, InviteInv
    <2> PICK S : modal \in [ModalFields -> S]
      BY <1>1 DEF ModalInv, IsModal
    <2>3. modal' \in [ModalFields -> S \cup {x}]
      BY <2>1 DEF ModalFields
    <2>4. modal'.open = modal.open /\ modal'.success = modal.success /\ modal'.selected = modal.selected
      BY <2>1 DEF ModalFields
    <2>5. modal'.shown = modal.shown /\ modal'.roles = modal.roles
      BY <2>1 DEF ModalFields
    <2>6. IsModal(modal')
      BY <2>3 DEF IsModal
    <2>7. ModalInv(modal', picked)
      BY <1>1, <2>2, <2>4, <2>5, <2>6, ModalElsewhere
    <2> QED BY <2>1, <2>7
  <1>3. CASE Invite!ReceiveUsers
    <2>1. PICK m : /\ m = [modal EXCEPT !.wait = "none", !.rows = Invitees]
                   /\ modal' = Invite!Rendered(m) /\ picked' = picked
      BY <1>3 DEF Invite!ReceiveUsers
    <2>2. modal.open
      BY <1>3 DEF Invite!ReceiveUsers, InviteInv
    <2> PICK S : modal \in [ModalFields -> S]
      BY <1>1 DEF ModalInv, IsModal
    <2>3. m \in [ModalFields -> S \cup {"none", Invitees}]
      BY <2>1 DEF ModalFields
    <2>4. m.open = modal.open /\ m.success = modal.success /\ m.selected = modal.selected
      BY <2>1 DEF ModalFields
    <2>5. m.shown = modal.shown /\ m.roles = modal.roles
      BY <2>1 DEF ModalFields
    <2>6. IsModal(m)
      BY <2>3 DEF IsModal
    <2>7. ModalInv(m, picked) /\ m.open = TRUE
      BY <1>1, <2>2, <2>4, <2>5, <2>6, ModalElsewhere DEF ModalInv
    <2>8. ModalInv(Invite!Rendered(m), picked)
      BY <2>7, ModalRendered DEF ModalInv, SelectedAsPicked
    <2> QED BY <2>1, <2>8
  <1>4. CASE Invite!handleModal
    <2>1. modal' = Invite!Unmounted /\ picked' = picked
      BY <1>4 DEF Invite!handleModal
    <2>2. RolesAsPicked(Invite!Unmounted, picked)
      BY UnmountedModal DEF RolesAsPicked
    <2>3. SelectedAsPicked(Invite!Unmounted, picked)
      BY <2>2, UnmountedModal DEF SelectedAsPicked
    <2> QED BY <1>1, <2>1, <2>3, UnmountedModal DEF ModalInv
  <1>5. ASSUME NEW s, Invite!Search(s)
        PROVE  ModalInv(modal', picked')
    <2>1. PICK m : /\ m = [modal EXCEPT !.search = s]
                   /\ modal' = Invite!Rendered(m) /\ picked' = picked
      BY <1>5 DEF Invite!Search
    <2>2. modal.open /\ ~ modal.success
      BY <1>5 DEF Invite!Search, Invite!Choosing
    <2> PICK S : modal \in [ModalFields -> S]
      BY <1>1 DEF ModalInv, IsModal
    <2>3. m \in [ModalFields -> S \cup {s}]
      BY <2>1 DEF ModalFields
    <2>4. m.open = modal.open /\ m.success = modal.success /\ m.selected = modal.selected
      BY <2>1 DEF ModalFields
    <2>5. m.shown = modal.shown /\ m.roles = modal.roles /\ m.wait = modal.wait
      BY <2>1 DEF ModalFields
    <2>6. IsModal(m)
      BY <2>3 DEF IsModal
    <2>7. ModalInv(m, picked) /\ m.open = TRUE
      BY <1>1, <2>2, <2>4, <2>5, <2>6, ModalElsewhere DEF ModalInv
    <2>8. ModalInv(Invite!Rendered(m), picked)
      BY <2>7, ModalRendered DEF ModalInv, SelectedAsPicked
    <2> QED BY <2>1, <2>8
  <1>6. CASE Invite!SendInvite
    <2>1. PICK m : /\ m = [modal EXCEPT !.success = TRUE, !.loading = TRUE]
                   /\ modal' = Invite!Rendered(m) /\ picked' = picked
      BY <1>6 DEF Invite!SendInvite
    <2>2. modal.open
      BY <1>6 DEF Invite!SendInvite, Invite!Choosing
    <2> PICK S : modal \in [ModalFields -> S]
      BY <1>1 DEF ModalInv, IsModal
    <2>3. m \in [ModalFields -> S \cup {TRUE}]
      BY <2>1 DEF ModalFields
    <2>4. m.open = modal.open /\ m.success = TRUE /\ m.selected = modal.selected
      BY <2>1 DEF ModalFields
    <2>5. m.shown = modal.shown /\ m.roles = modal.roles /\ m.wait = modal.wait
      BY <2>1 DEF ModalFields
    <2>6. IsModal(m)
      BY <2>3 DEF IsModal
    <2>7. RolesAsPicked(m, picked)
      BY <1>1, <2>2, <2>4, <2>5 DEF ModalInv, SelectedAsPicked, RolesAsPicked
    <2>8. m.open = TRUE
      BY <1>1, <2>2, <2>4 DEF ModalInv
    <2>9. ModalInv(Invite!Rendered(m), picked)
      BY <1>1, <2>4, <2>6, <2>7, <2>8, ModalRendered DEF ModalInv
    <2> QED BY <2>1, <2>9
  <1>7. ASSUME NEW i \in invites, Invite!Answered(i) \/ Invite!Failed(i)
        PROVE  ModalInv(modal', picked')
    <2>1. CASE modal' = modal
      BY <1>1, <1>7, <2>1 DEF Invite!Answered, Invite!Failed
    <2>2. CASE modal' # modal
      <3>1. /\ \/ modal' = [modal EXCEPT !.loading = FALSE, !.error = FALSE]
               \/ modal' = [modal EXCEPT !.error = TRUE]
            /\ picked' = picked
        BY <1>7, <2>2 DEF Invite!Answered, Invite!Failed
      <3> PICK S : modal \in [ModalFields -> S]
        BY <1>1 DEF ModalInv, IsModal
      <3>2. modal' \in [ModalFields -> S \cup {FALSE, TRUE}]
        BY <3>1 DEF ModalFields
      <3>3. modal'.open = modal.open /\ modal'.success = modal.success /\ modal'.selected = modal.selected
        BY <3>1 DEF ModalFields
      <3>4. modal'.shown = modal.shown /\ modal'.roles = modal.roles /\ modal'.wait = modal.wait
        BY <3>1 DEF ModalFields
      <3>5. IsModal(modal')
        BY <3>2 DEF IsModal
      <3>6. ModalInv(modal', picked)
        BY <1>1, <3>3, <3>4, <3>5, ModalElsewhere
      <3> QED BY <3>1, <3>6
    <2> QED BY <2>1, <2>2
  <1> QED BY <1>2, <1>3, <1>4, <1>5, <1>6, <1>7, OpenModal, RolePicked, UserClicked DEF Invite!InviteNext

\* The invitations after a step; a new modal has none of the old one's.
LEMMA InvitesNext ==
  ASSUME InviteInv, Invite!InviteNext
  PROVE  /\ \A i \in invites' : IsInvitation(i) /\ (i.mounted => modal'.open /\ modal'.success)
         /\ Invite!InvitesWithChosenRole'
  <1> DEFINE Good(s, m, p) == \A i \in s : IsInvitation(i)
                                /\ (i.mounted => m.open /\ m.success /\ i.role = p[i.user])
  <1>1. Good(invites, modal, picked) /\ ModalInv(modal, picked)
    BY DEF InviteInv, ModalInv, Invite!InvitesWithChosenRole
  <1> SUFFICES Good(invites', modal', picked')
    BY DEF Invite!InvitesWithChosenRole
  <1>2. CASE Invite!handleModal
    <2>1. invites' = {[i EXCEPT !.mounted = FALSE] : i \in invites}
      BY <1>2 DEF Invite!handleModal
    <2>2. ASSUME NEW i, IsInvitation(i)
          PROVE  IsInvitation([i EXCEPT !.mounted = FALSE]) /\ ~ [i EXCEPT !.mounted = FALSE].mounted
      BY <2>2 DEF IsInvitation
    <2> QED BY <1>1, <2>1, <2>2
  <1>3. CASE Invite!SendInvite
    <2>1. modal.open /\ ~ modal.success /\ picked' = picked
          /\ invites' = invites \cup {Invite!Invitation(s) : s \in modal.selected}
      BY <1>3 DEF Invite!SendInvite, Invite!Choosing
    <2>2. modal'.open /\ modal'.success
      <3>1. PICK m : m = [modal EXCEPT !.success = TRUE, !.loading = TRUE] /\ modal' = Invite!Rendered(m)
        BY <1>3 DEF Invite!SendInvite
      <3> PICK S : modal \in [ModalFields -> S]
        BY <1>1 DEF ModalInv, IsModal
      <3>2. m \in [ModalFields -> S \cup {TRUE}]
        BY <3>1 DEF ModalFields
      <3>3. m.open = modal.open /\ m.success = TRUE /\ m.shown = modal.shown
        BY <3>1 DEF ModalFields
      <3> QED BY <1>1, <2>1, <3>1, <3>2, <3>3, RenderedModal DEF IsModal, ModalInv, SelectedAsPicked, RolesAsPicked
    <2>3. ASSUME NEW s \in modal.selected
          PROVE  /\ IsInvitation(Invite!Invitation(s))
                 /\ Invite!Invitation(s).role = picked[Invite!Invitation(s).user]
      <3>1. IsSelected(s) /\ s.role = picked[s.user]
        BY <1>1, <2>1 DEF ModalInv, SelectedAsPicked, RolesAsPicked
      <3> QED BY <3>1 DEF IsSelected, IsInvitation, Invite!Invitation
    <2> QED BY <1>1, <2>1, <2>2, <2>3
  <1>4. ASSUME invites' \subseteq invites, modal'.open = modal.open, modal'.success = modal.success,
               picked' = picked
        PROVE  Good(invites', modal', picked')
    BY <1>1, <1>4
  <1>5. ASSUME invites' = invites, ~ modal.open \/ ~ modal.success
        PROVE  Good(invites', modal', picked')
    BY <1>1, <1>5
  <1>6. CASE Invite!Open \/ (\E s \in InviteeSearches : Invite!Search(s))
             \/ \E u \in Invitees : \/ \E role \in Invite!Roles : Invite!PickRole(u, role)
                                    \/ Invite!handleClick(u)
    <2>1. invites' = invites /\ (~ modal.open \/ ~ modal.success)
      BY <1>6, InviteChoosing
      DEF Invite!Open, Invite!Search, Invite!PickRole, Invite!handleClick, Invite!Choosing
    <2> QED BY <1>5, <2>1
  <1>7. CASE Invite!getProject
    <2> PICK S : modal \in [ModalFields -> S]
      BY <1>1 DEF ModalInv, IsModal
    <2>1. modal'.open = modal.open /\ modal'.success = modal.success
      BY <1>7 DEF Invite!getProject, ModalFields
    <2> QED BY <1>4, <1>7, <2>1 DEF Invite!getProject
  <1>8. CASE Invite!ReceiveUsers
    <2>1. PICK m : m = [modal EXCEPT !.wait = "none", !.rows = Invitees] /\ modal' = Invite!Rendered(m)
      BY <1>8 DEF Invite!ReceiveUsers
    <2> PICK S : modal \in [ModalFields -> S]
      BY <1>1 DEF ModalInv, IsModal
    <2>2. m \in [ModalFields -> S \cup {"none", Invitees}]
      BY <2>1 DEF ModalFields
    <2>3. m.open = modal.open /\ m.success = modal.success /\ m.shown = modal.shown
      BY <2>1 DEF ModalFields
    <2>4. IsModal(m) /\ m.shown \in [Invitees -> Invite!Roles \cup {""}]
      BY <1>1, <2>2, <2>3 DEF IsModal, ModalInv, SelectedAsPicked, RolesAsPicked
    <2>5. modal'.open = modal.open /\ modal'.success = modal.success
      BY <2>1, <2>3, <2>4, RenderedModal
    <2> QED BY <1>4, <1>8, <2>5 DEF Invite!ReceiveUsers
  <1>9. ASSUME NEW i \in invites, Invite!Answered(i) \/ Invite!Failed(i)
        PROVE  Good(invites', modal', picked')
    <2> PICK S : modal \in [ModalFields -> S]
      BY <1>1 DEF ModalInv, IsModal
    <2>1. modal'.open = modal.open /\ modal'.success = modal.success
      BY <1>9 DEF Invite!Answered, Invite!Failed, ModalFields
    <2>2. invites' \subseteq invites /\ picked' = picked
      BY <1>9 DEF Invite!Answered, Invite!Failed
    <2> QED BY <1>4, <2>1, <2>2
  <1> HIDE DEF Good
  <1> QED BY <1>2, <1>3, <1>6, <1>7, <1>8, <1>9 DEF Invite!InviteNext

LEMMA InviteKeeps ==
  InviteInv /\ [Invite!InviteNext]_(Invite!inviteVars) => InviteInv'
  <1>1. ASSUME InviteInv, Invite!InviteNext PROVE InviteInv'
    BY <1>1, ModalNext, InvitesNext DEF InviteInv, ModalInv
  <1>2. ASSUME InviteInv, UNCHANGED Invite!inviteVars PROVE InviteInv'
    BY <1>2 DEF InviteInv, Invite!InvitesWithChosenRole, Invite!inviteVars
  <1> QED BY <1>1, <1>2

LEMMA InviteShows == InviteInv => Invite!InvitesWithChosenRole
  BY DEF InviteInv
-----------------------------------------------------------------------------
(* The image registry.                                                     *)

IsRegistryPage(p) ==
  \E S : p \in [{"registry", "registryID", "typed", "isCustomRegistryEnabled", "isAvailable",
                 "registryData", "overlapped"} -> S]
IsUpdate(r) == /\ \E S : r \in [{"kind", "id", "values", "state"} -> S]
               /\ r.kind = "update" /\ r.state \in {"sent", "done"}
Creation(s) == [kind |-> "create", state |-> s]

RegistryTypes ==
  /\ IsQuery(list) /\ IsQuery(data) /\ IsRegistryPage(page)
  /\ page.registryID \in {"", "r"}
  /\ server = <<>> \/ \E v : server = <<v>>
  /\ \A r \in sends : IsUpdate(r) \/ r = Creation("sent") \/ r = Creation("done")

Creates == \E r \in sends : r.kind = "create"

\* The id comes with the list and the data after it; a registry is created
\* only where the list showed none, and an update without an id is refused.
IdAfterList ==
  /\ Creates \/ ~ page.isAvailable => list.wire = "none" /\ page.registryID = ""
  /\ list.wire = "back" /\ list.carried[1] => server # <<>>
  /\ page.registryID # "" => list.wire = "none" /\ server # <<>>
  /\ page.registryID = "" => data.wire = "none"
  /\ \A r \in sends : r.kind = "update" =>
       /\ page.registryID = "" => r.id = ""
       /\ r.id = "" => r.state = "sent"

ShownAs(p, there) ==
  /\ p.isCustomRegistryEnabled = (there # <<"default">>)
  /\ <<p.registryData>> = there

\* Updates that do not overlap leave the page with what the server has.
OneUpdate ==
  ~ page.overlapped =>
    /\ \A r, s \in sends : r.kind = "update" /\ s.kind = "update" => r = s
    /\ \A r \in sends : r.kind = "update" =>
         /\ r.id # "" => data.wire = "none"
         /\ r.state = "done" => server = <<r.values>>
    /\ page.registryID # "" =>
         /\ data.wire = "back" => data.carried = server
         /\ data.wire = "none" /\ (\A r \in sends : r.kind = "update" => r.state = "sent")
              => ShownAs(page, server)

RegistryInv == RegistryTypes /\ IdAfterList /\ OneUpdate

LEMMA RegistryQuery ==
  ASSUME NEW q
  PROVE  /\ Registry!Asked(q) = Query!Asked(q)
         /\ Registry!Received(q) = Query!Received(q)
         /\ \A x : Registry!Served(q, x) = Query!Served(q, x)
         /\ Registry!Query("") = Query!Query("")
         /\ Registry!Idle(q) = Query!Idle(q)
         /\ Registry!Result(q) = Query!Result(q)
  BY DEF Registry!Asked, Query!Asked, Registry!Received, Query!Received, Registry!Served, Query!Served,
         Registry!Query, Query!Query, Registry!NoData, Query!NoData, Registry!Idle, Query!Idle,
         Registry!Result, Query!Result

LEMMA RegistryStart == Registry!RegistryInit => RegistryInv
  <1> SUFFICES ASSUME Registry!RegistryInit PROVE RegistryInv
    OBVIOUS
  <1>1. PICK S : S = {"enabled", "", FALSE, TRUE}
    OBVIOUS
  <1>2. page \in [registry : S, registryID : S, typed : S, isCustomRegistryEnabled : S,
                  isAvailable : S, registryData : S, overlapped : S]
    BY <1>1 DEF Registry!RegistryInit
  <1>3. IsRegistryPage(page)
    <2>1. page \in [{"registry", "registryID", "typed", "isCustomRegistryEnabled", "isAvailable",
                     "registryData", "overlapped"} -> S]
      BY <1>2
    <2> QED BY <2>1 DEF IsRegistryPage
  <1>4. page.registryID = "" /\ page.isAvailable /\ sends = {}
    BY DEF Registry!RegistryInit
  <1>5. IsQuery(Query!Query(""))
    BY NewIsFresh
  <1>6. list = Query!Query("") /\ list.wire = "sent"
    <2>1. list = Query!Query("")
      BY RegistryQuery DEF Registry!RegistryInit
    <2> QED BY <2>1 DEF Query!Query, Query!NoData
  <1>7. IsQuery(data) /\ data.wire = "none"
    <2>1. data = [Query!Query("") EXCEPT !.wire = "none"]
      BY RegistryQuery DEF Registry!RegistryInit, Registry!NotAsked
    <2> PICK T : Query!Query("") \in [{"for", "wire", "carried", "data", "shared"} -> T]
      BY <1>5 DEF IsQuery
    <2>2. data \in [{"for", "wire", "carried", "data", "shared"} -> T \cup {"none"}]
      BY <2>1
    <2>3. data.wire = "none"
      BY <2>1
    <2> QED BY <2>2, <2>3 DEF IsQuery
  <1>8. server = <<>> \/ \E v : server = <<v>>
    BY DEF Registry!RegistryInit
  <1>9. RegistryTypes
    BY <1>3, <1>4, <1>5, <1>6, <1>7, <1>8 DEF RegistryTypes
  <1> QED BY <1>4, <1>6, <1>7, <1>9 DEF RegistryInv, IdAfterList, OneUpdate, Creates

\* Pages that agree on what the invariant is about.
SamePage(p, n) ==
  /\ IsRegistryPage(n) /\ n.registryID = p.registryID /\ n.isAvailable = p.isAvailable
  /\ n.overlapped = p.overlapped
  /\ n.isCustomRegistryEnabled = p.isCustomRegistryEnabled /\ n.registryData = p.registryData

LEMMA RegistryChosen ==
  ASSUME NEW p, NEW n, IsRegistryPage(p), NEW x,
         n = [p EXCEPT !.registry = x] \/ n = [p EXCEPT !.typed = x]
  PROVE  SamePage(p, n)
  <1> DEFINE F == {"registry", "registryID", "typed", "isCustomRegistryEnabled", "isAvailable",
                   "registryData", "overlapped"}
  <1> PICK S : p \in [F -> S]
    BY DEF IsRegistryPage
  <1>1. n \in [F -> S \cup {x}]
    OBVIOUS
  <1>2. n.registryID = p.registryID /\ n.isAvailable = p.isAvailable /\ n.overlapped = p.overlapped
    OBVIOUS
  <1>3. n.isCustomRegistryEnabled = p.isCustomRegistryEnabled /\ n.registryData = p.registryData
    OBVIOUS
  <1> QED BY <1>1, <1>2, <1>3 DEF SamePage, IsRegistryPage

LEMMA RegistryShown ==
  ASSUME NEW p, IsRegistryPage(p), NEW v
  PROVE  LET n == Registry!Shows(p, v)
         IN  /\ IsRegistryPage(n) /\ n.registryID = p.registryID
             /\ n.isAvailable = p.isAvailable /\ n.overlapped = p.overlapped
             /\ ShownAs(n, <<v>>)
  <1> DEFINE F == {"registry", "registryID", "typed", "isCustomRegistryEnabled", "isAvailable",
                   "registryData", "overlapped"}
  <1> PICK S : p \in [F -> S]
    BY DEF IsRegistryPage
  <1> PICK c : c = (v # "default")
    OBVIOUS
  <1> PICK x : x = IF v = "default" THEN "disabled" ELSE "enabled"
    OBVIOUS
  <1> DEFINE n == [p EXCEPT !.registry = x, !.isCustomRegistryEnabled = c, !.registryData = v]
  <1>1. Registry!Shows(p, v) = n
    BY DEF Registry!Shows, Registry!Default
  <1>2. n \in [F -> S \cup {x, c, v}]
    <2> PICK D : D = F
      OBVIOUS
    <2>1. p \in [D -> S]
      OBVIOUS
    <2>2. n \in [D -> S \cup {x, c, v}]
      BY <2>1, ThreeChanged
    <2> QED BY <2>2
  <1>3. n.registryID = p.registryID /\ n.isAvailable = p.isAvailable /\ n.overlapped = p.overlapped
    OBVIOUS
  <1>4. n.isCustomRegistryEnabled = c /\ n.registryData = v
    OBVIOUS
  <1>5. c = (<<v>> # <<"default">>)
    OBVIOUS
  <1> HIDE DEF n
  <1> QED BY <1>1, <1>2, <1>3, <1>4, <1>5 DEF IsRegistryPage, ShownAs

LEMMA CreationIs ==
  ASSUME NEW s
  PROVE  /\ Creation(s).kind = "create" /\ Creation(s).state = s
         /\ [Creation(s) EXCEPT !.state = "done"] = Creation("done")
  BY DEF Creation

LEMMA UpdateSent ==
  ASSUME NEW id, NEW v
  PROVE  LET q == [kind |-> "update", id |-> id, values |-> v, state |-> "sent"]
         IN  IsUpdate(q) /\ q.id = id /\ q.state = "sent"
  <1> PICK q : q = [kind |-> "update", id |-> id, values |-> v, state |-> "sent"]
    OBVIOUS
  <1> PICK S : S = {"update", id, v, "sent"}
    OBVIOUS
  <1>1. q \in [kind : S, id : S, values : S, state : S]
    OBVIOUS
  <1>2. q \in [{"kind", "id", "values", "state"} -> S]
    BY <1>1
  <1> QED BY <1>2 DEF IsUpdate

LEMMA UpdateDone ==
  ASSUME NEW r, IsUpdate(r)
  PROVE  LET q == [r EXCEPT !.state = "done"]
         IN  IsUpdate(q) /\ q.id = r.id /\ q.values = r.values /\ q.state = "done"
  <1> PICK S : r \in [{"kind", "id", "values", "state"} -> S]
    BY DEF IsUpdate
  <1> DEFINE q == [r EXCEPT !.state = "done"]
  <1>1. q \in [{"kind", "id", "values", "state"} -> S \cup {"done"}]
    OBVIOUS
  <1>2. q.id = r.id /\ q.values = r.values /\ q.state = "done" /\ q.kind = "update"
    BY DEF IsUpdate
  <1> HIDE DEF q
  <1> QED BY <1>1, <1>2 DEF IsUpdate

\* The page, the list and the data after a step, by what happened.
LEMMA RegistryTypesNext ==
  ASSUME RegistryInv, Registry!RegistryNext
  PROVE  RegistryTypes'
  <1>1. RegistryTypes
    BY DEF RegistryInv
  <1>2. IsQuery(list') /\ IsQuery(data')
    <2>1. \/ list' = list
          \/ \E x : list' = Query!Served(list, x)
          \/ list.wire = "back" /\ list' = Query!Received(list)
      BY RegistryQuery DEF Registry!RegistryNext, Registry!ServeList, Registry!ReceiveList, Registry!ServeData,
         Registry!ReceiveData, Registry!SelectRegistry, Registry!TypeValues, Registry!handleSubmit,
         Registry!UseDefault, Registry!Update, Registry!createImageRegistry, Registry!Apply,
         Registry!Answered, Registry!Failed
    <2>2. \/ data' = data
          \/ data' = Query!Asked(data)
          \/ \E x : data' = Query!Served(data, x)
          \/ data.wire = "back" /\ data' = Query!Received(data)
      BY RegistryQuery DEF Registry!RegistryNext, Registry!ServeList, Registry!ReceiveList, Registry!ServeData,
         Registry!ReceiveData, Registry!SelectRegistry, Registry!TypeValues, Registry!handleSubmit,
         Registry!UseDefault, Registry!Update, Registry!createImageRegistry, Registry!Apply,
         Registry!Answered, Registry!Failed
    <2> QED BY <1>1, <2>1, <2>2, QueryTyped DEF RegistryTypes
  <1>3. IsRegistryPage(page') /\ page'.registryID \in {"", "r"}
    <2> DEFINE F == {"registry", "registryID", "typed", "isCustomRegistryEnabled", "isAvailable",
                     "registryData", "overlapped"}
    <2>1. CASE page' = page
      BY <1>1, <2>1 DEF RegistryTypes
    <2>2. ASSUME NEW x, page' = [page EXCEPT !.registry = x] \/ page' = [page EXCEPT !.typed = x]
          PROVE  IsRegistryPage(page') /\ page'.registryID \in {"", "r"}
      <3>1. SamePage(page, page')
        BY <1>1, <2>2, RegistryChosen DEF RegistryTypes
      <3> QED BY <1>1, <3>1 DEF RegistryTypes, SamePage
    <2>3. CASE \E v : page' = Registry!Shows(page, v)
      BY <1>1, <2>3, RegistryShown DEF RegistryTypes
    <2>4. ASSUME NEW x, NEW y,
                 \/ page' = [page EXCEPT !.overlapped = x]
                 \/ page' = [page EXCEPT !.isAvailable = x]
                 \/ page' = [page EXCEPT !.isAvailable = x, !.registry = y]
                 \/ page' = [page EXCEPT !.registryID = "r"]
          PROVE  IsRegistryPage(page') /\ page'.registryID \in {"", "r"}
      <3> PICK S : page \in [F -> S]
        BY <1>1 DEF RegistryTypes, IsRegistryPage
      <3>1. page' \in [F -> S \cup {x, y, "r"}]
        BY <2>4
      <3>2. page'.registryID = page.registryID \/ page'.registryID = "r"
        BY <2>4
      <3> QED BY <1>1, <3>1, <3>2 DEF RegistryTypes, IsRegistryPage
    <2>5. \/ page' = page
          \/ \E x : page' = [page EXCEPT !.registry = x] \/ page' = [page EXCEPT !.typed = x]
          \/ \E v : page' = Registry!Shows(page, v)
          \/ \E x, y : \/ page' = [page EXCEPT !.overlapped = x]
                       \/ page' = [page EXCEPT !.isAvailable = x]
                       \/ page' = [page EXCEPT !.isAvailable = x, !.registry = y]
                       \/ page' = [page EXCEPT !.registryID = "r"]
      BY DEF Registry!RegistryNext, Registry!ServeList, Registry!ReceiveList, Registry!ServeData,
         Registry!ReceiveData, Registry!SelectRegistry, Registry!TypeValues, Registry!handleSubmit,
         Registry!UseDefault, Registry!Update, Registry!createImageRegistry, Registry!Apply,
         Registry!Answered, Registry!Failed
    <2> QED BY <2>1, <2>2, <2>3, <2>4, <2>5
  <1>4. server' = <<>> \/ \E v : server' = <<v>>
    BY <1>1 DEF RegistryTypes, Registry!RegistryNext, Registry!ServeList, Registry!ReceiveList, Registry!ServeData,
         Registry!ReceiveData, Registry!SelectRegistry, Registry!TypeValues, Registry!handleSubmit,
         Registry!UseDefault, Registry!Update, Registry!createImageRegistry, Registry!Apply,
         Registry!Answered, Registry!Failed
  <1>5. \A r \in sends' : IsUpdate(r) \/ r = Creation("sent") \/ r = Creation("done")
    <2> DEFINE Good(s) == \A r \in s : IsUpdate(r) \/ r = Creation("sent") \/ r = Creation("done")
    <2> SUFFICES Good(sends')
      OBVIOUS
    <2>1. Good(sends)
      BY <1>1 DEF RegistryTypes
    <2>2. CASE sends' = sends \/ \E r \in sends : sends' = sends \ {r}
      BY <2>1, <2>2
    <2>3. ASSUME NEW id, NEW v, sends' = sends \cup {[kind |-> "update", id |-> id, values |-> v, state |-> "sent"]}
          PROVE  Good(sends')
      BY <2>1, <2>3, UpdateSent
    <2>4. CASE Registry!createImageRegistry
      BY <2>1, <2>4 DEF Registry!createImageRegistry, Registry!Send, Creation
    <2>5. ASSUME NEW r \in sends, Registry!Apply(r)
          PROVE  Good(sends')
      <3>1. sends' = (sends \ {r}) \cup {[r EXCEPT !.state = "done"]}
        BY <2>5 DEF Registry!Apply
      <3>2. IsUpdate([r EXCEPT !.state = "done"]) \/ [r EXCEPT !.state = "done"] = Creation("done")
        BY <2>1, UpdateDone, CreationIs
      <3> QED BY <2>1, <3>1, <3>2
    <2> HIDE DEF Good
    <2> QED
      BY <2>2, <2>3, <2>4, <2>5
      DEF Registry!RegistryNext, Registry!ServeList, Registry!ReceiveList, Registry!ServeData,
          Registry!ReceiveData, Registry!SelectRegistry, Registry!TypeValues, Registry!handleSubmit,
          Registry!UseDefault, Registry!Update, Registry!Send, Registry!Answered, Registry!Failed
  <1> QED BY <1>2, <1>3, <1>4, <1>5 DEF RegistryTypes

LEMMA RegistryListServed ==
  ASSUME RegistryInv, Registry!ServeList
  PROVE  RegistryInv'
  <1> PICK b \in BOOLEAN : b = (server # <<>>)
    OBVIOUS
  <1>1. /\ list.wire = "sent" /\ list' = Query!Served(list, b)
        /\ UNCHANGED <<server, data, page, sends>> /\ IsQuery(list)
    BY RegistryQuery DEF Registry!ServeList, RegistryInv, RegistryTypes
  <1>2. /\ list'.wire = "back" /\ list'.carried = <<b>> /\ IsQuery(list')
    BY <1>1, ServedIs
  <1>3. RegistryTypes'
    BY <1>1, <1>2 DEF RegistryInv, RegistryTypes
  <1>4. list'.carried[1] => server # <<>>
    <2>1. list'.carried[1] = b
      BY <1>2
    <2>2. b => server # <<>>
      OBVIOUS
    <2> QED BY <2>1, <2>2
  <1>5. IdAfterList'
    BY <1>1, <1>2, <1>4 DEF RegistryInv, IdAfterList, Creates
  <1>6. OneUpdate'
    BY <1>1, <1>2 DEF RegistryInv, OneUpdate
  <1> QED BY <1>3, <1>5, <1>6 DEF RegistryInv

\* The list says that there is a registry: its id is known and its data asked for.
LEMMA RegistryListReceived ==
  ASSUME RegistryInv, Registry!ReceiveList
  PROVE  RegistryInv'
  <1>1. /\ list.wire = "back" /\ list'.wire = "none" /\ list'.data = list.carried
        /\ UNCHANGED <<server, sends>>
    <2>1. list' = Query!Received(list) /\ list.wire = "back" /\ UNCHANGED <<server, sends>>
      BY RegistryQuery DEF Registry!ReceiveList
    <2> QED BY <2>1, QueryWire DEF RegistryInv, RegistryTypes
  <1>2. RegistryTypes'
    BY RegistryTypesNext DEF Registry!RegistryNext
  <1>3. page.registryID = "" /\ data.wire = "none" /\ page.isAvailable /\ ~ Creates
    BY <1>1 DEF RegistryInv, RegistryTypes, IdAfterList
  <1> PICK S : page \in [{"registry", "registryID", "typed", "isCustomRegistryEnabled", "isAvailable",
                 "registryData", "overlapped"} -> S]
    BY DEF RegistryInv, RegistryTypes, IsRegistryPage
  <1>4. CASE list.carried[1]
    <2>1. page' = [page EXCEPT !.registryID = "r"] /\ data' = Query!Asked(data)
      BY <1>1, <1>4, RegistryQuery DEF Registry!ReceiveList, Query!Result
    <2>2. page'.registryID = "r" /\ page'.isAvailable = page.isAvailable /\ page'.overlapped = page.overlapped
      BY <2>1
    <2>3. data'.wire = "sent"
      BY <1>3, <2>1, QueryWire DEF RegistryInv, RegistryTypes
    <2>4. server # <<>>
      BY <1>1, <1>4 DEF RegistryInv, IdAfterList
    <2>5. IdAfterList'
      BY <1>1, <1>3, <2>2, <2>4 DEF RegistryInv, IdAfterList, Creates
    <2>6. \A r \in sends : r.kind = "update" => r.id = ""
      BY <1>3 DEF RegistryInv, IdAfterList
    <2>7. OneUpdate'
      BY <1>1, <2>2, <2>3, <2>6 DEF RegistryInv, OneUpdate
    <2> QED BY <1>2, <2>5, <2>7 DEF RegistryInv
  <1>5. CASE ~ list.carried[1]
    <2>1. page' = [page EXCEPT !.isAvailable = FALSE, !.registry = "disabled"] /\ data' = data
      BY <1>1, <1>5, RegistryQuery DEF Registry!ReceiveList, Query!Result
    <2>2. page'.registryID = "" /\ page'.overlapped = page.overlapped
      BY <1>3, <2>1
    <2>3. IdAfterList'
      BY <1>1, <1>3, <2>1, <2>2 DEF RegistryInv, IdAfterList, Creates
    <2>4. OneUpdate'
      BY <1>1, <2>1, <2>2 DEF RegistryInv, OneUpdate
    <2> QED BY <1>2, <2>3, <2>4 DEF RegistryInv
  <1> QED BY <1>4, <1>5

LEMMA RegistryDataServed ==
  ASSUME RegistryInv, Registry!ServeData
  PROVE  RegistryInv'
  <1> PICK v : v = server[1]
    OBVIOUS
  <1>1. /\ data.wire = "sent" /\ data'.wire = "back" /\ data'.carried = <<v>>
        /\ UNCHANGED <<server, list, page, sends>>
    <2>1. /\ data.wire = "sent" /\ data' = Query!Served(data, v)
          /\ UNCHANGED <<server, list, page, sends>>
      BY RegistryQuery DEF Registry!ServeData
    <2>2. IsQuery(data)
      BY DEF RegistryInv, RegistryTypes
    <2>3. data'.wire = "back" /\ data'.carried = <<v>>
      BY <2>1, <2>2, ServedIs
    <2> QED BY <2>1, <2>3
  <1>2. RegistryTypes'
    BY RegistryTypesNext DEF Registry!RegistryNext
  <1>3. page.registryID # "" /\ server # <<>>
    BY <1>1 DEF RegistryInv, IdAfterList
  <1>4. data'.carried = server
    <2> PICK w : server = <<w>>
      BY <1>3 DEF RegistryInv, RegistryTypes
    <2> QED BY <1>1
  <1>5. IdAfterList'
    BY <1>1, <1>3 DEF RegistryInv, IdAfterList, Creates
  <1>6. OneUpdate'
    BY <1>1, <1>4 DEF RegistryInv, OneUpdate
  <1> QED BY <1>2, <1>5, <1>6 DEF RegistryInv

LEMMA RegistryDataReceived ==
  ASSUME RegistryInv, Registry!ReceiveData
  PROVE  RegistryInv'
  <1>1. /\ data.wire = "back" /\ data'.wire = "none" /\ data'.data = data.carried
        /\ UNCHANGED <<server, list, sends>>
    <2>1. data' = Query!Received(data) /\ data.wire = "back" /\ UNCHANGED <<server, list, sends>>
      BY RegistryQuery DEF Registry!ReceiveData
    <2> QED BY <2>1, QueryWire DEF RegistryInv, RegistryTypes
  <1>2. RegistryTypes'
    BY RegistryTypesNext DEF Registry!RegistryNext
  <1>3. PICK v : v = data.carried[1] /\ page' = Registry!Shows(page, v)
    BY <1>1, RegistryQuery DEF Registry!ReceiveData, Query!Result
  <1>4. /\ page'.registryID = page.registryID /\ page'.isAvailable = page.isAvailable
        /\ page'.overlapped = page.overlapped /\ ShownAs(page', <<v>>)
    BY <1>3, RegistryShown DEF RegistryInv, RegistryTypes
  <1>5. page.registryID # "" /\ server # <<>>
    BY <1>1 DEF RegistryInv, IdAfterList
  <1>6. IdAfterList'
    BY <1>1, <1>4, <1>5 DEF RegistryInv, IdAfterList, Creates
  <1>7. ~ page.overlapped => <<v>> = server
    <2> PICK w : server = <<w>>
      BY <1>5 DEF RegistryInv, RegistryTypes
    <2>1. ~ page.overlapped => data.carried = server
      BY <1>1, <1>5 DEF RegistryInv, OneUpdate
    <2> QED BY <1>3, <2>1
  <1>8. OneUpdate'
    BY <1>1, <1>4, <1>7 DEF RegistryInv, OneUpdate
  <1> QED BY <1>2, <1>6, <1>8 DEF RegistryInv

LEMMA RegistryShownSame ==
  ASSUME NEW p, NEW n, SamePage(p, n), NEW there
  PROVE  ShownAs(p, there) => ShownAs(n, there)
  BY DEF SamePage, ShownAs

LEMMA RegistryTouched ==
  ASSUME RegistryInv, UNCHANGED <<server, list, data, sends>>, SamePage(page, page')
  PROVE  RegistryInv'
  <1>1. RegistryTypes'
    BY DEF RegistryInv, RegistryTypes, SamePage
  <1>2. IdAfterList'
    BY DEF RegistryInv, IdAfterList, Creates, SamePage
  <1>3. OneUpdate'
    BY RegistryShownSame DEF RegistryInv, OneUpdate, SamePage
  <1> QED BY <1>1, <1>2, <1>3 DEF RegistryInv

LEMMA RegistryUpdateSent ==
  ASSUME RegistryInv, NEW v, Registry!Update(v), Registry!RegistryNext
  PROVE  RegistryInv'
  <1>1. PICK q : /\ q = [kind |-> "update", id |-> page.registryID, values |-> v, state |-> "sent"]
                 /\ sends' = sends \cup {q} /\ UNCHANGED <<server, list, data>>
    BY DEF Registry!Update, Registry!Send
  <1>2. IsUpdate(q) /\ q.id = page.registryID /\ q.state = "sent"
    BY <1>1, UpdateSent
  <1>3. RegistryTypes'
    BY RegistryTypesNext
  <1>4. PICK o : /\ o = (page.overlapped \/ Registry!UnderWay("update") \/ ~ Registry!Idle(data))
                 /\ page' = [page EXCEPT !.overlapped = o]
    BY DEF Registry!Update
  <1> PICK S : page \in [{"registry", "registryID", "typed", "isCustomRegistryEnabled", "isAvailable",
                 "registryData", "overlapped"} -> S]
    BY DEF RegistryInv, RegistryTypes, IsRegistryPage
  <1>5. /\ page'.registryID = page.registryID /\ page'.isAvailable = page.isAvailable
        /\ page'.overlapped = o
        /\ page'.isCustomRegistryEnabled = page.isCustomRegistryEnabled
        /\ page'.registryData = page.registryData
    BY <1>4
  <1>6. q.kind = "update"
    BY <1>2 DEF IsUpdate
  <1>7. IdAfterList'
    <2>1. Creates' = Creates
      BY <1>1, <1>6 DEF Creates
    <2>2. \A r \in sends' : r \in sends \/ (r.id = page.registryID /\ r.state = "sent")
      BY <1>1, <1>2
    <2> QED BY <1>1, <1>5, <2>1, <2>2 DEF RegistryInv, IdAfterList
  <1>8. ~ o => /\ ~ page.overlapped /\ data.wire = "none"
               /\ \A r \in sends : r.kind # "update"
    BY <1>4, RegistryQuery DEF Registry!UnderWay, Query!Idle
  <1>9. ShownAs(page, server) => ShownAs(page', server)
    BY <1>5 DEF ShownAs
  <1>10. OneUpdate'
    <2> SUFFICES ASSUME ~ o PROVE OneUpdate'
      BY <1>5 DEF OneUpdate
    <2>1. OneUpdate /\ ~ page.overlapped /\ data.wire = "none" /\ \A r \in sends : r.kind # "update"
      BY <1>8 DEF RegistryInv
    <2>2. \A r \in sends' : r.kind = "update" => r = q
      BY <1>1, <2>1
    <2>3. page.registryID # "" => ShownAs(page', server)
      BY <1>9, <2>1 DEF OneUpdate
    <2> QED BY <1>1, <1>2, <1>5, <2>1, <2>2, <2>3 DEF OneUpdate
  <1> QED BY <1>3, <1>7, <1>10 DEF RegistryInv

LEMMA RegistryCreationSent ==
  ASSUME RegistryInv, Registry!createImageRegistry
  PROVE  RegistryInv'
  <1>1. /\ sends' = sends \cup {Creation("sent")} /\ UNCHANGED <<server, list, data, page>>
        /\ ~ page.isAvailable
    BY DEF Registry!createImageRegistry, Registry!Send, Creation
  <1>2. Creation("sent").kind = "create"
    BY CreationIs
  <1>3. RegistryTypes'
    BY RegistryTypesNext DEF Registry!RegistryNext
  <1>4. IdAfterList'
    BY <1>1, <1>2 DEF RegistryInv, IdAfterList, Creates
  <1>5. OneUpdate'
    BY <1>1, <1>2 DEF RegistryInv, OneUpdate
  <1> QED BY <1>3, <1>4, <1>5 DEF RegistryInv

LEMMA RegistryApplied ==
  ASSUME RegistryInv, NEW r \in sends, Registry!Apply(r)
  PROVE  RegistryInv'
  <1> DEFINE q == [r EXCEPT !.state = "done"]
  <1>1. /\ r.state = "sent" /\ sends' = (sends \ {r}) \cup {q} /\ UNCHANGED <<list, data, page>>
        /\ r.kind = "update" => r.id # "" /\ server' = <<r.values>>
        /\ server' # <<>>
    BY DEF Registry!Apply
  <1>2. RegistryTypes'
    BY RegistryTypesNext DEF Registry!RegistryNext
  <1>3. CASE IsUpdate(r)
    <2>1. IsUpdate(q) /\ q.id = r.id /\ q.values = r.values /\ q.state = "done"
      BY <1>3, UpdateDone
    <2>2. r.kind = "update" /\ q.kind = "update"
      BY <1>3, <2>1 DEF IsUpdate
    <2> HIDE DEF q
    <2>3. IdAfterList'
      BY <1>1, <2>1, <2>2 DEF RegistryInv, IdAfterList, Creates
    <2>4. OneUpdate'
      BY <1>1, <2>1, <2>2 DEF RegistryInv, OneUpdate
    <2> QED BY <1>2, <2>3, <2>4 DEF RegistryInv
  <1>4. CASE r = Creation("sent") \/ r = Creation("done")
    <2>1. r.kind = "create" /\ q.kind = "create"
      BY <1>4, CreationIs
    <2> HIDE DEF q
    <2>2. page.registryID = "" /\ list.wire = "none"
      BY <2>1 DEF RegistryInv, IdAfterList, Creates
    <2>3. \A s \in sends : s.kind = "update" => s.id = "" /\ s.state = "sent"
      BY <2>2 DEF RegistryInv, IdAfterList
    <2>4. IdAfterList'
      BY <1>1, <2>1, <2>2 DEF RegistryInv, IdAfterList, Creates
    <2>5. OneUpdate'
      BY <1>1, <2>1, <2>2, <2>3 DEF RegistryInv, OneUpdate
    <2> QED BY <1>2, <2>4, <2>5 DEF RegistryInv
  <1> QED BY <1>3, <1>4 DEF RegistryInv, RegistryTypes

LEMMA RegistryAnswered ==
  ASSUME RegistryInv, NEW r \in sends, Registry!Answered(r) \/ Registry!Failed(r)
  PROVE  RegistryInv'
  <1>1. sends' = sends \ {r} /\ UNCHANGED <<server, list, data>>
    BY DEF Registry!Answered, Registry!Failed
  <1>2. RegistryTypes'
    BY RegistryTypesNext DEF Registry!RegistryNext
  <1>3. CASE IsUpdate(r)
    <2>1. r.kind = "update"
      BY <1>3 DEF IsUpdate
    <2>2. CASE Registry!Failed(r)
      <3>1. page' = page /\ r.state = "sent"
        BY <2>1, <2>2 DEF Registry!Failed
      <3>2. IdAfterList'
        BY <1>1, <3>1 DEF RegistryInv, IdAfterList, Creates
      <3>3. OneUpdate'
        BY <1>1, <2>1, <3>1 DEF RegistryInv, OneUpdate
      <3> QED BY <1>2, <3>2, <3>3 DEF RegistryInv
    <2>3. CASE Registry!Answered(r)
      <3>1. page' = Registry!Shows(page, r.values) /\ r.state = "done"
        BY <2>1, <2>3 DEF Registry!Answered
      <3>2. /\ page'.registryID = page.registryID /\ page'.isAvailable = page.isAvailable
            /\ page'.overlapped = page.overlapped /\ ShownAs(page', <<r.values>>)
        BY <3>1, RegistryShown DEF RegistryInv, RegistryTypes
      <3>3. IdAfterList'
        BY <1>1, <3>2 DEF RegistryInv, IdAfterList, Creates
      <3>4. OneUpdate'
        BY <1>1, <2>1, <3>1, <3>2 DEF RegistryInv, OneUpdate
      <3> QED BY <1>2, <3>3, <3>4 DEF RegistryInv
    <2> QED BY <2>2, <2>3
  <1>4. CASE r = Creation("sent") \/ r = Creation("done")
    <2>1. r.kind = "create"
      BY <1>4, CreationIs
    <2>2. page.registryID = "" /\ list.wire = "none"
      BY <2>1 DEF RegistryInv, IdAfterList, Creates
    <2>3. PICK x : page' = [page EXCEPT !.isAvailable = x]
      BY <2>1 DEF Registry!Answered, Registry!Failed
    <2> PICK S : page \in [{"registry", "registryID", "typed", "isCustomRegistryEnabled", "isAvailable",
                   "registryData", "overlapped"} -> S]
      BY DEF RegistryInv, RegistryTypes, IsRegistryPage
    <2>4. page'.registryID = page.registryID /\ page'.overlapped = page.overlapped
      BY <2>3
    <2>5. IdAfterList'
      BY <1>1, <2>2, <2>4 DEF RegistryInv, IdAfterList, Creates
    <2>6. OneUpdate'
      BY <1>1, <2>2, <2>4 DEF RegistryInv, OneUpdate
    <2> QED BY <1>2, <2>5, <2>6 DEF RegistryInv
  <1> QED BY <1>3, <1>4 DEF RegistryInv, RegistryTypes

LEMMA RegistryKeeps ==
  RegistryInv /\ [Registry!RegistryNext]_(Registry!registryVars) => RegistryInv'
  <1>1. ASSUME RegistryInv, Registry!RegistryNext PROVE RegistryInv'
    <2>1. ASSUME NEW v, Registry!SelectRegistry(v) \/ Registry!TypeValues(v)
          PROVE  RegistryInv'
      <3>1. SamePage(page, page')
        BY <1>1, <2>1, RegistryChosen
        DEF RegistryInv, RegistryTypes, Registry!SelectRegistry, Registry!TypeValues
      <3> QED BY <1>1, <2>1, <3>1, RegistryTouched DEF Registry!SelectRegistry, Registry!TypeValues
    <2>2. CASE Registry!handleSubmit \/ Registry!UseDefault
      BY <1>1, <2>2, RegistryUpdateSent DEF Registry!handleSubmit, Registry!UseDefault
    <2> QED
      BY <1>1, <2>1, <2>2, RegistryListServed, RegistryListReceived, RegistryDataServed,
         RegistryDataReceived, RegistryCreationSent, RegistryApplied, RegistryAnswered
      DEF Registry!RegistryNext
  <1>2. ASSUME RegistryInv, UNCHANGED Registry!registryVars PROVE RegistryInv'
    <2>1. UNCHANGED <<server, list, data, page, sends>>
      BY <1>2 DEF Registry!registryVars
    <2> QED BY <1>2, <2>1 DEF RegistryInv, RegistryTypes, IdAfterList, OneUpdate, Creates
  <1> QED BY <1>1, <1>2

LEMMA RegistryShowsStored == RegistryInv => Registry!ShowsStored
  <1> SUFFICES ASSUME RegistryInv, Registry!AtRest, page.registryID # "", ~ page.overlapped
               PROVE  page.isCustomRegistryEnabled = (server # <<Registry!Default>>) /\ page.registryData = server[1]
    BY DEF Registry!ShowsStored
  <1>1. data.wire = "none" /\ sends = {}
    BY RegistryQuery DEF Registry!AtRest, Query!Idle
  <1>2. ShownAs(page, server)
    BY <1>1 DEF RegistryInv, OneUpdate
  <1>3. page.registryData = server[1]
    BY <1>2 DEF ShownAs
  <1> QED BY <1>2, <1>3 DEF ShownAs, Registry!Default

Fetching == INSTANCE PageFetch

IsFetch(f) == \E S : f \in [{"carried", "old"} -> S]
IsFetches(fs) == (\E T : fs \in Seq(T)) /\ \A i \in 1 .. Len(fs) : IsFetch(fs[i])

\* The last request under way, unless its answer was overtaken, has or will
\* bring what there is.
LastFresh(fs, there) ==
  Len(fs) > 0 /\ ~ fs[Len(fs)].old => fs[Len(fs)].carried \in {<<>>, <<there>>}

NewFetch == [carried |-> <<>>, old |-> FALSE]

LEMMA NewFetchIs == IsFetch(NewFetch) /\ NewFetch.carried = <<>> /\ NewFetch.old = FALSE
  <1>1. PICK S : S = {<<>>, FALSE}
    OBVIOUS
  <1>2. NewFetch \in [carried : S, old : S]
    BY <1>1 DEF NewFetch
  <1>3. NewFetch \in [{"carried", "old"} -> S]
    BY <1>2
  <1> QED BY <1>3 DEF IsFetch, NewFetch

LEMMA NoFetchIs == IsFetches(<<>>) /\ Len(<<>>) = 0
  <1>1. <<>> \in Seq({}) /\ Len(<<>>) = 0
    OBVIOUS
  <1> QED BY <1>1 DEF IsFetches

LEMMA EmptyFetches ==
  ASSUME NEW fs, IsFetches(fs)
  PROVE  (Len(fs) = 0) <=> (fs = <<>>)
  BY DEF IsFetches

LEMMA SentIsFresh ==
  ASSUME NEW fs, IsFetches(fs)
  PROVE  LET n == Fetching!Sent(fs)
         IN  IsFetches(n) /\ n # <<>> /\ \A there : LastFresh(n, there)
  <1> PICK T : fs \in Seq(T)
    BY DEF IsFetches
  <1> DEFINE n == Append(fs, NewFetch)
  <1>1. Fetching!Sent(fs) = n
    BY DEF Fetching!Sent, Fetching!NoAnswer, NewFetch
  <1>2. fs \in Seq(T \cup {NewFetch})
    OBVIOUS
  <1>3. /\ n \in Seq(T \cup {NewFetch}) /\ Len(n) = Len(fs) + 1 /\ n[Len(fs) + 1] = NewFetch
        /\ \A i \in 1 .. Len(fs) : n[i] = fs[i]
    BY <1>2
  <1> HIDE DEF n
  <1>4. \A i \in 1 .. Len(n) : IsFetch(n[i])
    BY <1>3, NewFetchIs DEF IsFetches
  <1>5. n # <<>>
    BY <1>3
  <1>6. \A there : LastFresh(n, there)
    BY <1>3, NewFetchIs DEF LastFresh
  <1> QED BY <1>1, <1>3, <1>4, <1>5, <1>6 DEF IsFetches

LEMMA ServedAtIsFresh ==
  ASSUME NEW fs, IsFetches(fs), NEW i \in 1 .. Len(fs), NEW there
  PROVE  LET n == Fetching!ServedAt(fs, i, there)
         IN  IsFetches(n) /\ Len(n) = Len(fs) /\ (LastFresh(fs, there) => LastFresh(n, there))
  <1> PICK T : fs \in Seq(T)
    BY DEF IsFetches
  <1> PICK answer : answer = <<there>>
    OBVIOUS
  <1> PICK f : f = [fs[i] EXCEPT !.carried = answer]
    OBVIOUS
  <1> DEFINE n == [fs EXCEPT ![i] = f]
  <1>1. Fetching!ServedAt(fs, i, there) = n
    BY DEF Fetching!ServedAt
  <1>2. /\ n \in Seq(T \cup {f}) /\ Len(n) = Len(fs) /\ n[i] = f
        /\ \A j \in 1 .. Len(fs) : j # i => n[j] = fs[j]
    OBVIOUS
  <1> PICK S : fs[i] \in [{"carried", "old"} -> S]
    BY DEF IsFetches, IsFetch
  <1>3. f \in [{"carried", "old"} -> S \cup {answer}] /\ f.carried = answer
    OBVIOUS
  <1> HIDE DEF n
  <1>4. IsFetches(n)
    BY <1>2, <1>3 DEF IsFetches, IsFetch
  <1>o. f.old = fs[i].old
    OBVIOUS
  <1>5. LastFresh(fs, there) => LastFresh(n, there)
    <2> PICK last : last = Len(fs)
      OBVIOUS
    <2>1. CASE i = last
      BY <1>2, <1>3, <1>o, <2>1 DEF LastFresh
    <2>2. CASE i # last /\ last # 0
      <3>1. n[last] = fs[last]
        <4>1. last \in 1 .. Len(fs)
          BY <2>2
        <4> QED BY <1>2, <2>2, <4>1
      <3> QED BY <1>2, <3>1 DEF LastFresh
    <2> QED BY <2>1, <2>2
  <1> QED BY <1>1, <1>2, <1>4, <1>5

LEMMA TakenIsFresh ==
  ASSUME NEW fs, IsFetches(fs), NEW i \in 1 .. Len(fs)
  PROVE  LET n == Fetching!Taken(fs, i)
         IN  /\ IsFetches(n)
             /\ n = <<>> => i = Len(fs)
             /\ \A there : LastFresh(fs, there) => LastFresh(n, there)
  <1> PICK T : fs \in Seq(T)
    BY DEF IsFetches
  <1> DEFINE Old(f) == [f EXCEPT !.old = TRUE]
             n == [j \in 1 .. Len(fs) - 1 |-> IF j < i THEN Old(fs[j]) ELSE fs[j + 1]]
  <1>1. Fetching!Taken(fs, i) = n
    BY DEF Fetching!Taken
  <1>2. ASSUME NEW f, IsFetch(f)
        PROVE  IsFetch(Old(f)) /\ Old(f).old = TRUE
    <2> PICK S : f \in [{"carried", "old"} -> S]
      BY <1>2 DEF IsFetch
    <2>1. Old(f) \in [{"carried", "old"} -> S \cup {TRUE}] /\ Old(f).old = TRUE
      OBVIOUS
    <2> QED BY <2>1 DEF IsFetch
  <1> HIDE DEF Old
  <1>3. Len(fs) \in Nat /\ Len(fs) - 1 \in Nat
    OBVIOUS
  <1> DEFINE U == {n[j] : j \in 1 .. Len(fs) - 1}
  <1>4. n \in [1 .. Len(fs) - 1 -> U]
    OBVIOUS
  <1>5. \A j \in 1 .. Len(fs) - 1 : n[j] = IF j < i THEN Old(fs[j]) ELSE fs[j + 1]
    OBVIOUS
  <1> HIDE DEF n, U
  <1>6. n \in Seq(U) /\ Len(n) = Len(fs) - 1
    BY <1>3, <1>4
  <1>7. ASSUME NEW j \in 1 .. Len(n)
        PROVE  IsFetch(n[j])
    <2>1. j \in 1 .. Len(fs) /\ j + 1 \in 1 .. Len(fs) /\ j \in 1 .. Len(fs) - 1
      BY <1>3, <1>6
    <2>2. IsFetch(fs[j]) /\ IsFetch(fs[j + 1])
      BY <2>1 DEF IsFetches
    <2> QED BY <1>2, <1>5, <2>1, <2>2
  <1>8. n = <<>> => i = Len(fs)
    <2> SUFFICES ASSUME n = <<>> PROVE i = Len(fs)
      OBVIOUS
    <2>1. Len(n) = 0
      OBVIOUS
    <2>2. Len(fs) = 1
      BY <1>3, <1>6, <2>1
    <2> QED BY <2>2
  <1>9. ASSUME NEW there, LastFresh(fs, there)
        PROVE  LastFresh(n, there)
    <2>1. CASE Len(n) = 0
      BY <2>1 DEF LastFresh
    <2>2. CASE Len(n) > 0 /\ i = Len(fs)
      <3>1. n[Len(n)] = Old(fs[Len(n)])
        BY <1>5, <1>6, <2>2
      <3>2. IsFetch(fs[Len(n)])
        BY <1>6, <2>2 DEF IsFetches
      <3> QED BY <1>2, <3>1, <3>2 DEF LastFresh
    <2>3. CASE Len(n) > 0 /\ i # Len(fs)
      <3>1. n[Len(n)] = fs[Len(fs)]
        BY <1>5, <1>6, <2>3
      <3> QED BY <1>9, <2>3, <3>1, <1>6 DEF LastFresh
    <2> QED BY <1>6, <2>1, <2>2, <2>3
  <1> QED BY <1>1, <1>6, <1>7, <1>8, <1>9 DEF IsFetches
-----------------------------------------------------------------------------
(* The team.                                                               *)

IsTeamPage(p) ==
  \E S : p \in [{"loading", "members", "tab", "search", "role", "pageNo", "stale"} -> S]
IsTeamRequest(r) == \E S : r \in [{"kind", "user", "role", "tab", "done"} -> S]

\* Until its answer comes a change that was made may not be listed.
TeamFresh ==
  (\A r \in sends : ~ r.done) =>
    /\ LastFresh(fetches, server)
    /\ fetches = <<>> => page.stale \/ page.members = server

TeamInv ==
  /\ IsFetches(fetches) /\ IsTeamPage(page) /\ (\A r \in sends : IsTeamRequest(r))
  /\ TeamFresh

LEMMA TeamFetching ==
  ASSUME NEW fs
  PROVE  /\ Team!Sent(fs) = Fetching!Sent(fs)
         /\ \A i, x : Team!ServedAt(fs, i, x) = Fetching!ServedAt(fs, i, x)
         /\ \A i : Team!Taken(fs, i) = Fetching!Taken(fs, i)
  BY DEF Team!Sent, Fetching!Sent, Team!ServedAt, Fetching!ServedAt, Team!Taken, Fetching!Taken,
         Team!NoAnswer, Fetching!NoAnswer

LEMMA TeamStart == Team!TeamInit => TeamInv
  <1> SUFFICES ASSUME Team!TeamInit PROVE TeamInv
    OBVIOUS
  <1> PICK m : m = [u \in Team!Users |-> Team!NoMember]
    OBVIOUS
  <1>1. page = [loading |-> TRUE, members |-> m,
               tab |-> "members", search |-> "", role |-> "all", pageNo |-> 0, stale |-> FALSE]
    BY DEF Team!TeamInit
  <1>2. PICK S : S = {TRUE, FALSE, m, "members", "", "all", 0}
    OBVIOUS
  <1>3. page \in [loading : S, members : S, tab : S, search : S, role : S, pageNo : S, stale : S]
    BY <1>1, <1>2
  <1>4. page \in [{"loading", "members", "tab", "search", "role", "pageNo", "stale"} -> S]
    BY <1>3
  <1>5. fetches = Fetching!Sent(<<>>) /\ sends = {}
    BY TeamFetching DEF Team!TeamInit, Team!NoFetch
  <1>6. IsFetches(fetches) /\ fetches # <<>> /\ LastFresh(fetches, server)
    BY <1>5, NoFetchIs, SentIsFresh
  <1> QED BY <1>4, <1>5, <1>6 DEF TeamInv, TeamFresh, IsTeamPage

\* A step that asks again leaves nothing old.
LEMMA TeamAsksAgain ==
  ASSUME TeamInv, NEW n, Team!Fetch(n)
  PROVE  IsFetches(fetches') /\ TeamFresh'
  <1> DEFINE one == Fetching!Sent(fetches)
             two == Fetching!Sent(one)
  <1>1. fetches' = one \/ fetches' = two
    BY TeamFetching DEF Team!Fetch
  <1>2. IsFetches(one) /\ one # <<>> /\ \A there : LastFresh(one, there)
    BY SentIsFresh DEF TeamInv
  <1> HIDE DEF one
  <1>3. IsFetches(two) /\ two # <<>> /\ \A there : LastFresh(two, there)
    BY <1>2, SentIsFresh
  <1> HIDE DEF two
  <1> QED BY <1>1, <1>2, <1>3 DEF TeamFresh

LEMMA TeamDone ==
  ASSUME NEW r, IsTeamRequest(r)
  PROVE  IsTeamRequest([r EXCEPT !.done = TRUE]) /\ [r EXCEPT !.done = TRUE].done = TRUE
  <1> PICK S : r \in [{"kind", "user", "role", "tab", "done"} -> S]
    BY DEF IsTeamRequest
  <1>1. [r EXCEPT !.done = TRUE] \in [{"kind", "user", "role", "tab", "done"} -> S \cup {TRUE}]
    OBVIOUS
  <1> QED BY <1>1 DEF IsTeamRequest

LEMMA TeamField ==
  ASSUME NEW p, IsTeamPage(p), NEW a, NEW x
  PROVE  IsTeamPage([p EXCEPT ![a] = x])
  <1> PICK S : p \in [{"loading", "members", "tab", "search", "role", "pageNo", "stale"} -> S]
    BY DEF IsTeamPage
  <1>1. [p EXCEPT ![a] = x]
          \in [{"loading", "members", "tab", "search", "role", "pageNo", "stale"} -> S \cup {x}]
    OBVIOUS
  <1> QED BY <1>1 DEF IsTeamPage

LEMMA TeamTypes ==
  ASSUME TeamInv, Team!TeamNext
  PROVE  IsTeamPage(page') /\ \A r \in sends' : IsTeamRequest(r)
  <1>1. IsTeamPage(page) /\ \A r \in sends : IsTeamRequest(r)
    BY DEF TeamInv
  <1>2. IsTeamPage(page')
    <2> PICK S : page \in [{"loading", "members", "tab", "search", "role", "pageNo", "stale"} -> S]
      BY <1>1 DEF IsTeamPage
    <2>1. ASSUME NEW x, NEW y, NEW z,
                 \/ page' = [page EXCEPT !.members = x, !.loading = y, !.stale = z]
                 \/ page' = [page EXCEPT !.tab = x, !.pageNo = y]
                 \/ page' = [page EXCEPT !.search = x]
                 \/ page' = [page EXCEPT !.role = x]
                 \/ page' = [page EXCEPT !.pageNo = x]
                 \/ page' = [page EXCEPT !.stale = x]
          PROVE  IsTeamPage(page')
      <3> PICK D : D = {"loading", "members", "tab", "search", "role", "pageNo", "stale"}
        OBVIOUS
      <3> DEFINE OfTeam(p) == \E T : p \in [D -> T]
      <3>0. page \in [D -> S]
        OBVIOUS
      <3>1. [page EXCEPT !.members = x, !.loading = y, !.stale = z] \in [D -> S \cup {x, y, z}]
        BY <3>0, ThreeChanged
      <3>2. [page EXCEPT !.tab = x, !.pageNo = y] \in [D -> S \cup {x, y}]
        BY <3>0, TwoChanged
      <3>3. /\ [page EXCEPT !.search = x] \in [D -> S \cup {x}]
            /\ [page EXCEPT !.role = x] \in [D -> S \cup {x}]
            /\ [page EXCEPT !.pageNo = x] \in [D -> S \cup {x}]
            /\ [page EXCEPT !.stale = x] \in [D -> S \cup {x}]
        BY <3>0, OneChanged
      <3>a. OfTeam([page EXCEPT !.members = x, !.loading = y, !.stale = z])
        BY <3>1
      <3>b. OfTeam([page EXCEPT !.tab = x, !.pageNo = y])
        BY <3>2
      <3>c. OfTeam([page EXCEPT !.search = x])
        BY <3>3
      <3>d. OfTeam([page EXCEPT !.role = x])
        BY <3>3
      <3>e. OfTeam([page EXCEPT !.pageNo = x])
        BY <3>3
      <3>f. OfTeam([page EXCEPT !.stale = x])
        BY <3>3
      <3>4. \A p : OfTeam(p) => IsTeamPage(p)
        BY DEF IsTeamPage
      <3> HIDE DEF OfTeam
      <3>5. OfTeam(page')
        BY <2>1, <3>a, <3>b, <3>c, <3>d, <3>e, <3>f
      <3> QED BY <3>4, <3>5
    <2>2. CASE page' = page
      BY <1>1, <2>2
    <2>3. ASSUME NEW i, Team!Receive(i) PROVE IsTeamPage(page')
      BY <2>1, <2>3 DEF Team!Receive, Team!Shown
    <2>5. ASSUME NEW i, Team!FetchFailed(i) PROVE IsTeamPage(page')
      BY <2>1, <2>5 DEF Team!FetchFailed
    <2>4. ASSUME NEW x, \/ Team!handleLocalChange(x) \/ Team!Search(x) \/ Team!FilterRole(x)
                        \/ Team!ChangePage(x)
          PROVE  IsTeamPage(page')
      <3>1. CASE Team!handleLocalChange(x)
        <4>1. page' = [page EXCEPT !.tab = x, !.pageNo = 0]
          BY <3>1 DEF Team!handleLocalChange, Team!Shown
        <4> QED BY <2>1, <4>1
      <3>2. CASE Team!Search(x)
        <4>1. page' = [page EXCEPT !.search = x]
          BY <3>2 DEF Team!Search, Team!Shown
        <4> QED BY <1>1, <4>1, TeamField
      <3>3. CASE Team!FilterRole(x)
        <4>1. page' = [page EXCEPT !.role = x]
          BY <3>3 DEF Team!FilterRole, Team!Shown
        <4> QED BY <1>1, <4>1, TeamField
      <3>4. CASE Team!ChangePage(x)
        <4>1. page' = [page EXCEPT !.pageNo = x]
          <5>1. Team!Shown([page EXCEPT !.pageNo = x])
            BY <3>4, Zenon DEF Team!ChangePage
          <5> QED BY <5>1, Zenon DEF Team!Shown
        <4>2. IsTeamPage([page EXCEPT !.pageNo = x])
          BY <1>1, TeamField, Zenon
        <4> QED BY <4>1, <4>2
      <3> QED BY <2>4, <3>1, <3>2, <3>3, <3>4
    <2> QED BY <2>2, <2>3, <2>4, <2>5 DEF Team!TeamNext, Team!Serve, Team!ModalClosed, Team!setRole, Team!SendInvite,
          Team!OpenRemove, Team!handleClose, Team!removeMember, Team!Apply, Team!Answered, Team!Failed
  <1>3. \A r \in sends' : IsTeamRequest(r)
    <2> DEFINE Good(s) == \A r \in s : IsTeamRequest(r)
    <2> SUFFICES Good(sends')
      OBVIOUS
    <2>1. CASE sends' = sends \/ \E r \in sends : sends' = sends \ {r}
      BY <1>1, <2>1
    <2>2. ASSUME NEW kind, NEW u, NEW role, Team!SendRequest(kind, u, role)
          PROVE  Good(sends')
      <3> PICK tab : tab = page.tab
        OBVIOUS
      <3> PICK q : q = [kind |-> kind, user |-> u, role |-> role, tab |-> tab, done |-> FALSE]
        OBVIOUS
      <3>1. sends' = sends \cup {q}
        BY <2>2 DEF Team!SendRequest
      <3> PICK S : S = {kind, u, role, tab, FALSE}
        OBVIOUS
      <3>2. q \in [kind : S, user : S, role : S, tab : S, done : S]
        OBVIOUS
      <3>3. q \in [{"kind", "user", "role", "tab", "done"} -> S]
        BY <3>2
      <3> QED BY <1>1, <3>1, <3>3 DEF IsTeamRequest
    <2>3. ASSUME NEW r \in sends, Team!Apply(r)
          PROVE  Good(sends')
      BY <1>1, <2>3, TeamDone DEF Team!Apply
    <2> HIDE DEF Good
    <2> QED BY <2>1, <2>2, <2>3 DEF Team!TeamNext, Team!Serve, Team!Receive, Team!FetchFailed,
          Team!handleLocalChange, Team!Search, Team!FilterRole, Team!ChangePage, Team!ModalClosed, Team!setRole, Team!SendInvite,
          Team!OpenRemove, Team!handleClose, Team!removeMember, Team!Answered, Team!Failed
  <1> QED BY <1>2, <1>3

LEMMA TeamReceives ==
  ASSUME TeamInv, NEW i \in DOMAIN fetches, Team!Receive(i)
  PROVE  IsFetches(fetches') /\ TeamFresh'
  <1>1. i \in 1 .. Len(fetches) /\ IsFetches(fetches)
    BY DEF TeamInv, IsFetches
  <1>2. fetches' = Fetching!Taken(fetches, i) /\ UNCHANGED <<server, sends>>
    BY TeamFetching DEF Team!Receive
  <1>3. /\ IsFetches(fetches')
        /\ fetches' = <<>> => i = Len(fetches)
        /\ \A there : LastFresh(fetches, there) => LastFresh(fetches', there)
    BY <1>1, <1>2, TakenIsFresh
  <1> PICK answer, old : answer = fetches[i].carried /\ old = fetches[i].old
    OBVIOUS
  <1>4. /\ answer # <<>>
        /\ page' = [page EXCEPT !.members = answer[1], !.loading = FALSE, !.stale = old]
    BY DEF Team!Receive, Team!NoAnswer, Team!Shown
  <1>5. page'.members = answer[1] /\ page'.stale = old
    BY <1>4 DEF TeamInv, IsTeamPage
  <1>6. ASSUME \A r \in sends : ~ r.done, fetches' = <<>>
        PROVE  page'.stale \/ page'.members = server
    <2>1. LastFresh(fetches, server) /\ i = Len(fetches)
      BY <1>3, <1>6 DEF TeamInv, TeamFresh
    <2>2. ~ old => answer = <<server>>
      BY <1>1, <1>4, <2>1 DEF LastFresh
    <2>3. CASE old
      BY <1>5, <2>3
    <2>4. CASE ~ old
      BY <1>5, <2>2, <2>4
    <2> QED BY <2>3, <2>4
  <1> QED BY <1>2, <1>3, <1>6 DEF TeamInv, TeamFresh

LEMMA TeamFails ==
  ASSUME TeamInv, NEW i \in DOMAIN fetches, Team!FetchFailed(i)
  PROVE  IsFetches(fetches') /\ TeamFresh'
  <1>1. i \in 1 .. Len(fetches) /\ IsFetches(fetches)
    BY DEF TeamInv, IsFetches
  <1>2. fetches' = Fetching!Taken(fetches, i) /\ UNCHANGED <<server, sends>>
    BY TeamFetching DEF Team!FetchFailed
  <1>3. IsFetches(fetches')
    BY <1>1, <1>2, TakenIsFresh
  <1>4. page' = [page EXCEPT !.stale = TRUE]
    BY DEF Team!FetchFailed
  <1>5. page'.stale
    BY <1>4 DEF TeamInv, IsTeamPage
  <1> QED BY <1>3, <1>5, <1>1, <1>2, TakenIsFresh DEF TeamInv, TeamFresh

LEMMA TeamStaysFresh ==
  ASSUME TeamInv, Team!TeamNext
  PROVE  IsFetches(fetches') /\ TeamFresh'
  <1>1. IsFetches(fetches) /\ IsTeamPage(page) /\ TeamFresh /\ \A r \in sends : IsTeamRequest(r)
    BY DEF TeamInv
  <1>2. ASSUME NEW i \in DOMAIN fetches, Team!Serve(i)
        PROVE  IsFetches(fetches') /\ TeamFresh'
    <2>1. i \in 1 .. Len(fetches)
      BY <1>1 DEF IsFetches
    <2>2. fetches' = Fetching!ServedAt(fetches, i, server) /\ UNCHANGED <<server, page, sends>>
      BY <1>2, TeamFetching DEF Team!Serve
    <2>3. /\ IsFetches(fetches') /\ Len(fetches') = Len(fetches)
          /\ LastFresh(fetches, server) => LastFresh(fetches', server)
      BY <1>1, <2>1, <2>2, ServedAtIsFresh
    <2>4. fetches' # <<>>
      BY <1>1, <2>1, <2>3, EmptyFetches DEF IsFetches
    <2> QED BY <1>1, <2>2, <2>3, <2>4 DEF TeamFresh
  <1>3. ASSUME UNCHANGED <<server, fetches>>, page'.stale = page.stale, page'.members = page.members,
               (\A r \in sends' : ~ r.done) => (\A r \in sends : ~ r.done)
        PROVE  IsFetches(fetches') /\ TeamFresh'
    BY <1>1, <1>3 DEF TeamFresh
  <1>4. ASSUME NEW x, \/ Team!handleLocalChange(x) \/ Team!Search(x) \/ Team!FilterRole(x)
                      \/ Team!ChangePage(x)
        PROVE  IsFetches(fetches') /\ TeamFresh'
    <2>1. page'.stale = page.stale /\ page'.members = page.members
      <3> PICK S : page \in [{"loading", "members", "tab", "search", "role", "pageNo", "stale"} -> S]
        BY <1>1 DEF IsTeamPage
      <3> QED BY <1>4 DEF Team!handleLocalChange, Team!Search, Team!FilterRole, Team!ChangePage, Team!Shown
    <2> QED BY <1>3, <1>4, <2>1
        DEF Team!handleLocalChange, Team!Search, Team!FilterRole, Team!ChangePage
  <1>5. ASSUME NEW r \in sends, Team!Apply(r)
        PROVE  IsFetches(fetches') /\ TeamFresh'
    <2>1. fetches' = fetches /\ [r EXCEPT !.done = TRUE] \in sends'
      BY <1>5 DEF Team!Apply
    <2>2. [r EXCEPT !.done = TRUE].done = TRUE
      BY <1>1, TeamDone
    <2> QED BY <1>1, <2>1, <2>2 DEF TeamFresh
  <1>6. ASSUME NEW r \in sends, Team!Failed(r)
        PROVE  IsFetches(fetches') /\ TeamFresh'
    BY <1>3, <1>6 DEF Team!Failed
  <1>7. ASSUME NEW n, Team!Fetch(n)
        PROVE  IsFetches(fetches') /\ TeamFresh'
    BY <1>7, TeamAsksAgain
  <1>8. ASSUME NEW r \in sends, Team!Answered(r)
        PROVE  IsFetches(fetches') /\ TeamFresh'
    BY <1>7, <1>8 DEF Team!Answered
  <1>9. ASSUME UNCHANGED <<server, fetches, page>>, sends' = sends \/ \E q : sends' = sends \cup {q}
        PROVE  IsFetches(fetches') /\ TeamFresh'
    BY <1>3, <1>9
  <1> QED
    BY <1>2, <1>4, <1>5, <1>6, <1>7, <1>8, <1>9, TeamReceives, TeamFails
    DEF Team!TeamNext, Team!ModalClosed, Team!setRole, Team!SendInvite, Team!SendRequest,
        Team!OpenRemove, Team!handleClose, Team!removeMember

LEMMA TeamKeeps ==
  TeamInv /\ [Team!TeamNext]_(Team!teamVars) => TeamInv'
  <1>1. ASSUME TeamInv, Team!TeamNext PROVE TeamInv'
    BY <1>1, TeamTypes, TeamStaysFresh DEF TeamInv
  <1>2. ASSUME TeamInv, UNCHANGED Team!teamVars PROVE TeamInv'
    BY <1>2 DEF TeamInv, TeamFresh, Team!teamVars
  <1> QED BY <1>1, <1>2

LEMMA TeamShows == TeamInv => Team!ShowsStored
  BY DEF TeamInv, TeamFresh, Team!ShowsStored, Team!NoFetch
-----------------------------------------------------------------------------
(* The invitations.                                                        *)

TabsFields == {"tab", "head", "tabs", "cards", "last", "loading", "old"}
IsTabsPage(p) ==
  (\E S : p \in [TabsFields -> S]) /\ \E U : p.old \in [Tabs!Askers -> U]
TabsRequestFields == {"op", "project", "done", "mounted", "tab", "cards", "last"}
IsTabsRequest(r) == \E S : r \in [TabsRequestFields -> S]

\* What a component makes of the list.
ShownBy(k, p, projects) ==
  /\ k = "head" => p.head = Tabs!Numbers(projects)
  /\ k = "tabs" => p.tabs = Tabs!Numbers(projects)
  /\ k = "cards" => p.cards = Tabs!With(Tabs!Of(p.tab), projects)

\* Until its answer comes a change that was made may not be listed.
TabsFresh ==
  (\A r \in sends : ~ r.done) =>
    \A k \in Tabs!Askers :
      /\ LastFresh(fetches[k], server)
      /\ fetches[k] = <<>> => page.old[k] \/ ShownBy(k, page, server)

TabsAsks(asks) ==
  (\E T : asks \in [Tabs!Askers -> T]) /\ \A k \in Tabs!Askers : IsFetches(asks[k])

TabsInv ==
  /\ TabsAsks(fetches) /\ IsTabsPage(page) /\ (\A r \in sends : IsTabsRequest(r))
  /\ TabsFresh

LEMMA TabsFetching ==
  ASSUME NEW fs
  PROVE  /\ Tabs!Sent(fs) = Fetching!Sent(fs)
         /\ \A i, x : Tabs!ServedAt(fs, i, x) = Fetching!ServedAt(fs, i, x)
         /\ \A i : Tabs!Taken(fs, i) = Fetching!Taken(fs, i)
  BY DEF Tabs!Sent, Fetching!Sent, Tabs!ServedAt, Fetching!ServedAt, Tabs!Taken, Fetching!Taken,
         Tabs!NoAnswer, Fetching!NoAnswer

LEMMA TabsStart == Tabs!InvitationsInit => TabsInv
  <1> SUFFICES ASSUME Tabs!InvitationsInit PROVE TabsInv
    OBVIOUS
  <1>0. PICK tab \in {0, 1} :
          page = [tab |-> tab, head |-> [other |-> 0, invited |-> 0],
                  tabs |-> [other |-> 0, invited |-> 0], cards |-> {}, last |-> "",
                  loading |-> tab = 1, old |-> [k \in Tabs!Askers |-> FALSE]]
    BY DEF Tabs!InvitationsInit
  <1>w. \E zero, one, old :
          /\ page = [tab |-> tab, head |-> zero, tabs |-> zero, cards |-> {}, last |-> "",
                     loading |-> one, old |-> old]
          /\ old = [k \in Tabs!Askers |-> FALSE]
    <2> WITNESS [other |-> 0, invited |-> 0], tab = 1, [k \in Tabs!Askers |-> FALSE]
    <2> QED BY <1>0
  <1>1. PICK zero, one, old :
          /\ page = [tab |-> tab, head |-> zero, tabs |-> zero, cards |-> {}, last |-> "",
                     loading |-> one, old |-> old]
          /\ old = [k \in Tabs!Askers |-> FALSE]
    BY <1>w
  <1>2. old \in [Tabs!Askers -> {FALSE}]
    BY <1>1
  <1>3. IsTabsPage(page)
    <2> PICK S : S = {tab, zero, {}, "", one, old}
      OBVIOUS
    <2>1. page = [tab |-> tab, head |-> zero, tabs |-> zero, cards |-> {}, last |-> "",
                  loading |-> one, old |-> old]
      BY <1>1
    <2>2. page \in [tab : S, head : S, tabs : S, cards : S, last : S, loading : S, old : S]
      BY <2>1
    <2>3. page \in [TabsFields -> S]
      BY <2>2 DEF TabsFields
    <2>4. page.old = old
      BY <2>1
    <2> QED BY <1>2, <2>3, <2>4 DEF IsTabsPage
  <1>5. /\ fetches = [k \in Tabs!Askers |-> Fetching!Sent(<<>>)]
        /\ sends = {}
    BY TabsFetching DEF Tabs!InvitationsInit, Tabs!NoFetch
  <1> PICK s : s = Fetching!Sent(<<>>)
    OBVIOUS
  <1>6. fetches \in [Tabs!Askers -> {s}] /\ \A k \in Tabs!Askers : fetches[k] = s
    BY <1>5
  <1>7. IsFetches(s) /\ s # <<>> /\ LastFresh(s, server)
    BY NoFetchIs, SentIsFresh
  <1>8. TabsAsks(fetches)
    BY <1>6, <1>7 DEF TabsAsks
  <1> QED BY <1>3, <1>5, <1>6, <1>7, <1>8 DEF TabsInv, TabsFresh

\* A page on which one component's answer is known to be old or not.
Marking(p, k, o, n) ==
  /\ IsTabsPage(n) /\ n.old[k] = o /\ \A j \in Tabs!Askers : j # k => n.old[j] = p.old[j]
  /\ n.head = p.head /\ n.tabs = p.tabs /\ n.cards = p.cards /\ n.tab = p.tab

LEMMA TabsMarked ==
  ASSUME NEW p, IsTabsPage(p), NEW k \in Tabs!Askers, NEW o
  PROVE  Marking(p, k, o, [p EXCEPT !.old = [p.old EXCEPT ![k] = o]])
  <1> PICK old : old = [p.old EXCEPT ![k] = o]
    OBVIOUS
  <1> PICK n : n = [p EXCEPT !.old = old]
    OBVIOUS
  <1> PICK S : p \in [TabsFields -> S]
    BY DEF IsTabsPage
  <1> PICK U : p.old \in [Tabs!Askers -> U]
    BY DEF IsTabsPage
  <1>2. old \in [Tabs!Askers -> U \cup {o}] /\ old[k] = o /\ \A j \in Tabs!Askers : j # k => old[j] = p.old[j]
    OBVIOUS
  <1>3. n \in [TabsFields -> S \cup {old}] /\ n.old = old
    BY DEF TabsFields
  <1>4. n.head = p.head /\ n.tabs = p.tabs /\ n.cards = p.cards /\ n.tab = p.tab
    BY DEF TabsFields
  <1>5. IsTabsPage(n)
    <2>1. \E R : n \in [TabsFields -> R]
      BY <1>3
    <2>a. \E V : old \in [Tabs!Askers -> V]
      BY <1>2
    <2>b. n.old = old
      BY <1>3
    <2>2. \E V : n.old \in [Tabs!Askers -> V]
      BY <2>a, <2>b
    <2> QED BY <2>1, <2>2 DEF IsTabsPage
  <1>6. n.old[k] = o /\ \A j \in Tabs!Askers : j # k => n.old[j] = p.old[j]
    BY <1>2, <1>3
  <1> QED BY <1>4, <1>5, <1>6 DEF Marking

\* A page of which one field is another one.
LEMMA TabsField ==
  ASSUME NEW p, IsTabsPage(p), NEW x, NEW y, NEW n,
         \/ n = [p EXCEPT !.head = x]
         \/ n = [p EXCEPT !.tabs = x]
         \/ n = [p EXCEPT !.cards = x, !.loading = y]
         \/ n = [p EXCEPT !.loading = y]
         \/ n = [p EXCEPT !.last = x]
  PROVE  IsTabsPage(n) /\ n.old = p.old /\ n.tab = p.tab
  <1> PICK S : p \in [TabsFields -> S]
    BY DEF IsTabsPage
  <1>1. n \in [TabsFields -> S \cup {x, y}]
    BY DEF TabsFields
  <1>2. n.old = p.old /\ n.tab = p.tab
    BY DEF TabsFields
  <1> QED BY <1>1, <1>2 DEF IsTabsPage

\* What the components show after another one's answer is what they showed.
ShowsAfter(p, k, x, n) ==
  /\ IsTabsPage(n) /\ n.old = p.old /\ ShownBy(k, n, x)
  /\ \A j \in Tabs!Askers : \A y : j # k /\ ShownBy(j, p, y) => ShownBy(j, n, y)

LEMMA HeadReceived ==
  ASSUME NEW p, IsTabsPage(p), NEW x
  PROVE  ShowsAfter(p, "head", x, Tabs!getProjectDetail(p, x))
  <1> PICK S : p \in [TabsFields -> S]
    BY DEF IsTabsPage
  <1> PICK v : v = Tabs!Numbers(x)
    OBVIOUS
  <1> PICK n : n = [p EXCEPT !.head = v]
    OBVIOUS
  <1>1. n = Tabs!getProjectDetail(p, x)
    BY DEF Tabs!getProjectDetail
  <1>2. n.head = v /\ n.tabs = p.tabs /\ n.cards = p.cards
    BY DEF TabsFields
  <1>3. IsTabsPage(n) /\ n.old = p.old /\ n.tab = p.tab
    BY TabsField
  <1>4. ShownBy("head", n, x)
    BY <1>2 DEF ShownBy
  <1>5. \A j \in Tabs!Askers : \A y : j # "head" /\ ShownBy(j, p, y) => ShownBy(j, n, y)
    BY <1>2, <1>3 DEF ShownBy
  <1> QED BY <1>1, <1>3, <1>4, <1>5 DEF ShowsAfter

LEMMA TabsReceived ==
  ASSUME NEW p, IsTabsPage(p), NEW x
  PROVE  ShowsAfter(p, "tabs", x, Tabs!fetchProjectData(p, x))
  <1> PICK S : p \in [TabsFields -> S]
    BY DEF IsTabsPage
  <1> PICK v : v = Tabs!Numbers(x)
    OBVIOUS
  <1> PICK n : n = [p EXCEPT !.tabs = v]
    OBVIOUS
  <1>1. n = Tabs!fetchProjectData(p, x)
    BY DEF Tabs!fetchProjectData
  <1>2. n.tabs = v /\ n.head = p.head /\ n.cards = p.cards
    BY DEF TabsFields
  <1>3. IsTabsPage(n) /\ n.old = p.old /\ n.tab = p.tab
    BY TabsField
  <1>4. ShownBy("tabs", n, x)
    BY <1>2 DEF ShownBy
  <1>5. \A j \in Tabs!Askers : \A y : j # "tabs" /\ ShownBy(j, p, y) => ShownBy(j, n, y)
    BY <1>2, <1>3 DEF ShownBy
  <1> QED BY <1>1, <1>3, <1>4, <1>5 DEF ShowsAfter

LEMMA CardsReceived ==
  ASSUME NEW p, IsTabsPage(p), NEW x
  PROVE  ShowsAfter(p, "cards", x, Tabs!getProjects(p, x))
  <1> PICK S : p \in [TabsFields -> S]
    BY DEF IsTabsPage
  <1> PICK v : v = Tabs!With(Tabs!Of(p.tab), x)
    OBVIOUS
  <1> PICK no : no = FALSE
    OBVIOUS
  <1> PICK n : n = [p EXCEPT !.cards = v, !.loading = no]
    OBVIOUS
  <1>1. n = Tabs!getProjects(p, x)
    BY DEF Tabs!getProjects
  <1>2. n.cards = v /\ n.head = p.head /\ n.tabs = p.tabs
    BY DEF TabsFields
  <1>3. IsTabsPage(n) /\ n.old = p.old /\ n.tab = p.tab
    <2>1. n \in [TabsFields -> S \cup {v, no}]
      BY DEF TabsFields
    <2>2. n.old = p.old /\ n.tab = p.tab
      BY DEF TabsFields
    <2> QED BY <2>1, <2>2 DEF IsTabsPage
  <1>4. ShownBy("cards", n, x)
    BY <1>2, <1>3 DEF ShownBy
  <1>5. \A j \in Tabs!Askers : \A y : j # "cards" /\ ShownBy(j, p, y) => ShownBy(j, n, y)
    BY <1>2, <1>3 DEF ShownBy
  <1> QED BY <1>1, <1>3, <1>4, <1>5 DEF ShowsAfter

\* A request of one component was answered, or failed: the others' stay.
Taking(f, k, i, n) ==
  /\ TabsAsks(n)
  /\ \A j \in Tabs!Askers : j # k => n[j] = f[j]
  /\ n[k] = <<>> => i = Len(f[k])
  /\ \A there : LastFresh(f[k], there) => LastFresh(n[k], there)

LEMMA OneTaken ==
  ASSUME NEW f, TabsAsks(f), NEW k \in Tabs!Askers, NEW i \in 1 .. Len(f[k])
  PROVE  Taking(f, k, i, [f EXCEPT ![k] = Tabs!Taken(f[k], i)])
  <1> PICK n : n = [f EXCEPT ![k] = Tabs!Taken(f[k], i)]
    OBVIOUS
  <1> PICK left : left = Fetching!Taken(f[k], i)
    OBVIOUS
  <1>1. IsFetches(f[k])
    BY DEF TabsAsks
  <1>2. n = [f EXCEPT ![k] = left]
    BY TabsFetching
  <1>3. /\ IsFetches(left)
        /\ left = <<>> => i = Len(f[k])
        /\ \A there : LastFresh(f[k], there) => LastFresh(left, there)
    BY <1>1, TakenIsFresh
  <1> PICK T : f \in [Tabs!Askers -> T]
    BY DEF TabsAsks
  <1>4. n \in [Tabs!Askers -> T \cup {left}]
    BY <1>2
  <1>5. n[k] = left /\ \A j \in Tabs!Askers : j # k => n[j] = f[j]
    BY <1>2
  <1> QED BY <1>3, <1>4, <1>5 DEF TabsAsks, Taking

LEMMA TabsReceives ==
  ASSUME TabsInv, NEW k \in Tabs!Askers, NEW i \in DOMAIN fetches[k], Tabs!Receive(k, i)
  PROVE  TabsAsks(fetches') /\ IsTabsPage(page') /\ TabsFresh' /\ sends' = sends
  <1>1. TabsAsks(fetches) /\ IsTabsPage(page) /\ IsFetches(fetches[k])
    BY DEF TabsInv, TabsAsks
  <1>2. i \in 1 .. Len(fetches[k])
    BY <1>1 DEF IsFetches
  <1>3. fetches' = [fetches EXCEPT ![k] = Tabs!Taken(fetches[k], i)] /\ UNCHANGED <<server, sends>>
    BY DEF Tabs!Receive
  <1>4. /\ TabsAsks(fetches')
        /\ \A j \in Tabs!Askers : j # k => fetches'[j] = fetches[j]
        /\ fetches'[k] = <<>> => i = Len(fetches[k])
        /\ LastFresh(fetches[k], server) => LastFresh(fetches'[k], server)
    <2>1. Taking(fetches, k, i, fetches')
      BY <1>1, <1>2, <1>3, OneTaken
    <2> QED BY <2>1 DEF Taking
  <1> PICK answer, o : answer = fetches[k][i].carried /\ o = fetches[k][i].old
    OBVIOUS
  <1> PICK old : old = [page.old EXCEPT ![k] = o]
    OBVIOUS
  <1> PICK new : new = [page EXCEPT !.old = old]
    OBVIOUS
  <1> PICK x : x = answer[1]
    OBVIOUS
  <1>5. /\ answer # <<>>
        /\ k = "head" => page' = Tabs!getProjectDetail(new, x)
        /\ k = "tabs" => page' = Tabs!fetchProjectData(new, x)
        /\ k = "cards" => page' = Tabs!getProjects(new, x)
    BY DEF Tabs!Receive, Tabs!NoAnswer
  <1>6. /\ IsTabsPage(new) /\ new.old[k] = o /\ \A j \in Tabs!Askers : j # k => new.old[j] = page.old[j]
        /\ new.head = page.head /\ new.tabs = page.tabs /\ new.cards = page.cards /\ new.tab = page.tab
    <2>1. Marking(page, k, o, new)
      BY <1>1, TabsMarked
    <2> QED BY <2>1 DEF Marking
  <1>7. ShowsAfter(new, k, x, page')
    BY <1>5, <1>6, HeadReceived, TabsReceived, CardsReceived DEF Tabs!Askers
  <1>8. \A j \in Tabs!Askers : \A y : ShownBy(j, page, y) => ShownBy(j, new, y)
    BY <1>6 DEF ShownBy
  <1>9. ASSUME \A r \in sends : ~ r.done, NEW j \in Tabs!Askers
        PROVE  /\ LastFresh(fetches'[j], server)
               /\ fetches'[j] = <<>> => page'.old[j] \/ ShownBy(j, page', server)
    <2>1. /\ LastFresh(fetches[j], server) /\ LastFresh(fetches[k], server)
          /\ fetches[j] = <<>> => page.old[j] \/ ShownBy(j, page, server)
      BY <1>9 DEF TabsInv, TabsFresh
    <2>2. CASE j # k
      BY <1>4, <1>6, <1>7, <1>8, <2>1, <2>2 DEF ShowsAfter
    <2>3. CASE j = k
      <3>1. LastFresh(fetches'[j], server)
        BY <1>4, <2>1, <2>3
      <3>2. ASSUME fetches'[j] = <<>>, ~ o PROVE ShownBy(j, page', server)
        <4>1. i = Len(fetches[k])
          BY <1>4, <2>3, <3>2
        <4>2. Len(fetches[k]) > 0
          BY <1>2, <1>1 DEF IsFetches
        <4>3. answer = <<server>>
          BY <1>5, <2>1, <3>2, <4>1, <4>2 DEF LastFresh
        <4>4. x = server
          BY <4>3
        <4> QED BY <1>7, <2>3, <4>4 DEF ShowsAfter
      <3>3. page'.old[j] = o
        BY <1>6, <1>7, <2>3 DEF ShowsAfter
      <3> QED BY <3>1, <3>2, <3>3
    <2> QED BY <2>2, <2>3
  <1>10. TabsFresh'
    BY <1>3, <1>9 DEF TabsFresh
  <1> QED BY <1>3, <1>4, <1>7, <1>10 DEF ShowsAfter
TabsSame(p, n) == /\ n.old = p.old /\ n.head = p.head /\ n.tabs = p.tabs
                  /\ n.cards = p.cards /\ n.tab = p.tab

\* Steps after which every component knows at most what it knew before.
LEMMA TabsFrame ==
  ASSUME TabsInv, fetches' = fetches, server' = server, TabsSame(page, page'),
         (\A r \in sends' : ~ r.done) => (\A r \in sends : ~ r.done)
  PROVE  TabsAsks(fetches') /\ TabsFresh'
  BY DEF TabsInv, TabsFresh, ShownBy, TabsSame

LEMMA TabsServes ==
  ASSUME TabsInv, NEW k \in Tabs!Askers, NEW i \in DOMAIN fetches[k], Tabs!Serve(k, i)
  PROVE  TabsInv'
  <1>1. TabsAsks(fetches) /\ IsTabsPage(page) /\ IsFetches(fetches[k])
    BY DEF TabsInv, TabsAsks
  <1>2. i \in 1 .. Len(fetches[k])
    BY <1>1 DEF IsFetches
  <1> PICK n : n = Fetching!ServedAt(fetches[k], i, server)
    OBVIOUS
  <1>3. fetches' = [fetches EXCEPT ![k] = n] /\ UNCHANGED <<server, page, sends>>
    BY TabsFetching DEF Tabs!Serve
  <1>4. IsFetches(n) /\ Len(n) = Len(fetches[k]) /\ (LastFresh(fetches[k], server) => LastFresh(n, server))
    BY <1>1, <1>2, ServedAtIsFresh
  <1>5. n # <<>>
    BY <1>1, <1>2, <1>4, EmptyFetches DEF IsFetches
  <1> PICK T : fetches \in [Tabs!Askers -> T]
    BY <1>1 DEF TabsAsks
  <1>6. fetches' \in [Tabs!Askers -> T \cup {n}]
    BY <1>3
  <1>7. fetches'[k] = n /\ \A j \in Tabs!Askers : j # k => fetches'[j] = fetches[j]
    BY <1>3
  <1>8. TabsAsks(fetches')
    BY <1>1, <1>4, <1>6, <1>7 DEF TabsAsks
  <1>9. TabsFresh'
    BY <1>3, <1>4, <1>5, <1>7 DEF TabsInv, TabsFresh
  <1> QED BY <1>3, <1>8, <1>9 DEF TabsInv

\* What a page without an answer shows, but for the component that got none.
LEMMA TabsUnanswered ==
  ASSUME TabsInv, NEW k \in Tabs!Askers, NEW i \in DOMAIN fetches[k], Tabs!NotReceived(k, i)
  PROVE  /\ IsTabsPage(page') /\ page'.old[k] = TRUE
         /\ \A j \in Tabs!Askers : j # k => page'.old[j] = page.old[j]
         /\ \A j \in Tabs!Askers : \A y : j # k /\ ShownBy(j, page, y) => ShownBy(j, page', y)
  <1>1. IsTabsPage(page)
    BY DEF TabsInv
  <1> PICK yes, no, zero : yes = TRUE /\ no = FALSE /\ zero = [other |-> 0, invited |-> 0]
    OBVIOUS
  <1> PICK old : old = [page.old EXCEPT ![k] = yes]
    OBVIOUS
  <1> PICK new : new = [page EXCEPT !.old = old]
    OBVIOUS
  <1> PICK tabless : tabless = [new EXCEPT !.tabs = zero]
    OBVIOUS
  <1> PICK shown : shown = [new EXCEPT !.loading = no]
    OBVIOUS
  <1>2. /\ k = "tabs" => page' = [page EXCEPT !.old = old, !.tabs = zero]
        /\ k = "head" => page' = new
        /\ k = "cards" => page' = [page EXCEPT !.old = old, !.loading = no]
    BY DEF Tabs!NotReceived
  <1> PICK S : page \in [TabsFields -> S]
    BY <1>1 DEF IsTabsPage
  <1>3. /\ [page EXCEPT !.old = old, !.tabs = zero] = tabless
        /\ [page EXCEPT !.old = old, !.loading = no] = shown
    BY DEF TabsFields
  <1>4. Marking(page, k, yes, new)
    BY <1>1, TabsMarked
  <1>5. IsTabsPage(new) /\ new \in [TabsFields -> S \cup {old}]
    BY <1>4 DEF Marking, TabsFields
  <1>6. IsTabsPage(tabless) /\ tabless.old = new.old /\ tabless.tab = new.tab
    <2>1. tabless \in [TabsFields -> S \cup {old, zero}]
      BY <1>5 DEF TabsFields
    <2>2. tabless.old = new.old /\ tabless.tab = new.tab
      BY <1>5 DEF TabsFields
    <2> QED BY <1>5, <2>1, <2>2 DEF IsTabsPage
  <1>7. tabless.head = new.head /\ tabless.cards = new.cards
    BY <1>5 DEF TabsFields
  <1>8. IsTabsPage(shown) /\ shown.old = new.old /\ shown.tab = new.tab
    <2>1. shown \in [TabsFields -> S \cup {old, no}]
      BY <1>5 DEF TabsFields
    <2>2. shown.old = new.old /\ shown.tab = new.tab
      BY <1>5 DEF TabsFields
    <2> QED BY <1>5, <2>1, <2>2 DEF IsTabsPage
  <1>9. shown.head = new.head /\ shown.tabs = new.tabs
    BY <1>5 DEF TabsFields
  <1>10. /\ k = "tabs" => page' = tabless
         /\ k = "head" => page' = new
         /\ k = "cards" => page' = shown
    BY <1>2, <1>3
  <1>11. /\ IsTabsPage(page') /\ page'.old = new.old /\ page'.tab = new.tab
         /\ k # "head" => page'.head = new.head
         /\ k # "tabs" => page'.tabs = new.tabs
         /\ k # "cards" => page'.cards = new.cards
    BY <1>5, <1>6, <1>7, <1>8, <1>9, <1>10 DEF Tabs!Askers
  <1>12. \A j \in Tabs!Askers : \A y : j # k /\ ShownBy(j, page, y) => ShownBy(j, page', y)
    BY <1>4, <1>11 DEF ShownBy, Marking
  <1> QED BY <1>4, <1>11, <1>12 DEF Marking

LEMMA TabsFails ==
  ASSUME TabsInv, NEW k \in Tabs!Askers, NEW i \in DOMAIN fetches[k], Tabs!NotReceived(k, i)
  PROVE  TabsInv'
  <1>1. TabsAsks(fetches) /\ IsFetches(fetches[k])
    BY DEF TabsInv, TabsAsks
  <1>2. i \in 1 .. Len(fetches[k])
    BY <1>1 DEF IsFetches
  <1>3. fetches' = [fetches EXCEPT ![k] = Tabs!Taken(fetches[k], i)] /\ UNCHANGED <<server, sends>>
    BY DEF Tabs!NotReceived
  <1>4. Taking(fetches, k, i, fetches')
    BY <1>1, <1>2, <1>3, OneTaken
  <1>5. ASSUME \A r \in sends : ~ r.done, NEW j \in Tabs!Askers
        PROVE  /\ LastFresh(fetches'[j], server)
               /\ fetches'[j] = <<>> => page'.old[j] \/ ShownBy(j, page', server)
    <2>1. /\ LastFresh(fetches[j], server)
          /\ fetches[j] = <<>> => page.old[j] \/ ShownBy(j, page, server)
      BY <1>5 DEF TabsInv, TabsFresh
    <2>2. CASE j # k
      BY <1>4, <2>1, <2>2, TabsUnanswered DEF Taking
    <2>3. CASE j = k
      BY <1>4, <2>1, <2>3, TabsUnanswered DEF Taking
    <2> QED BY <2>2, <2>3
  <1> QED BY <1>3, <1>4, <1>5, TabsUnanswered DEF TabsInv, TabsFresh, Taking

\* A request of which one field is another one.
LEMMA TabsRequests ==
  ASSUME NEW r, IsTabsRequest(r)
  PROVE  /\ IsTabsRequest([r EXCEPT !.mounted = FALSE]) /\ [r EXCEPT !.mounted = FALSE].done = r.done
         /\ IsTabsRequest([r EXCEPT !.done = TRUE]) /\ [r EXCEPT !.done = TRUE].done = TRUE
  <1> PICK S : r \in [TabsRequestFields -> S]
    BY DEF IsTabsRequest
  <1> PICK yes, no : yes = TRUE /\ no = FALSE
    OBVIOUS
  <1>1. /\ [r EXCEPT !.mounted = no] \in [TabsRequestFields -> S \cup {no}]
        /\ [r EXCEPT !.done = yes] \in [TabsRequestFields -> S \cup {yes}]
    BY DEF TabsRequestFields
  <1>2. [r EXCEPT !.mounted = no].done = r.done
    BY DEF TabsRequestFields
  <1>3. [r EXCEPT !.done = yes].done = yes
    BY DEF TabsRequestFields
  <1> QED BY <1>1, <1>2, <1>3 DEF IsTabsRequest

LEMMA TabsMounts ==
  ASSUME TabsInv, NEW tab, NEW twice \in BOOLEAN, Tabs!Mounted(tab, twice)
  PROVE  TabsInv'
  <1>1. TabsAsks(fetches) /\ IsTabsPage(page) /\ \A r \in sends : IsTabsRequest(r)
    BY DEF TabsInv
  <1>2. UNCHANGED server /\ sends' = {[r EXCEPT !.mounted = FALSE] : r \in sends}
    BY DEF Tabs!Mounted
  <1>3. /\ \A r \in sends' : IsTabsRequest(r)
        /\ (\A r \in sends' : ~ r.done) => (\A r \in sends : ~ r.done)
    <2>1. ASSUME NEW q \in sends
          PROVE  IsTabsRequest([q EXCEPT !.mounted = FALSE]) /\ [q EXCEPT !.mounted = FALSE].done = q.done
      BY <1>1, TabsRequests
    <2> DEFINE Left(q) == [q EXCEPT !.mounted = FALSE]
    <2>2. sends' = {Left(q) : q \in sends}
      BY <1>2
    <2>3. \A q \in sends : IsTabsRequest(Left(q)) /\ Left(q).done = q.done
      BY <2>1
    <2> HIDE DEF Left
    <2> QED BY <2>2, <2>3
  <1> PICK no : no = FALSE
    OBVIOUS
  <1> PICK old : old = [page.old EXCEPT !["cards"] = no]
    OBVIOUS
  <1> PICK S : page \in [TabsFields -> S]
    BY <1>1 DEF IsTabsPage
  <1> PICK U : page.old \in [Tabs!Askers -> U]
    BY <1>1 DEF IsTabsPage
  <1>4. PICK waits : page' = [page EXCEPT !.tab = tab, !.cards = {}, !.last = "", !.loading = waits,
                                          !.old = old]
    <2> WITNESS tab = 1
    <2> QED BY DEF Tabs!Mounted
  <1>5. old \in [Tabs!Askers -> U \cup {no}] /\ \A j \in Tabs!Askers : j # "cards" => old[j] = page.old[j]
    BY DEF Tabs!Askers
  <1>6. page' \in [TabsFields -> S \cup {tab, {}, "", waits, old}]
    BY <1>4 DEF TabsFields
  <1>7. page'.old = old /\ page'.head = page.head /\ page'.tabs = page.tabs
    BY <1>4 DEF TabsFields
  <1>8. IsTabsPage(page')
    BY <1>5, <1>6, <1>7 DEF IsTabsPage
  <1> PICK c, one, two : c = Fetching!Sent(<<>>) /\ one = Fetching!Sent(fetches["tabs"]) /\ two = Fetching!Sent(one)
    OBVIOUS
  <1>9. fetches' = [fetches EXCEPT !["cards"] = c, !["tabs"] = two]
        \/ fetches' = [fetches EXCEPT !["cards"] = c, !["tabs"] = one]
    <2>1. /\ Tabs!Sent(Tabs!NoFetch) = c /\ Tabs!Sent(fetches["tabs"]) = one
          /\ Tabs!Sent(Tabs!Sent(fetches["tabs"])) = two
      BY TabsFetching DEF Tabs!NoFetch
    <2>2. CASE twice
      BY <2>1, <2>2 DEF Tabs!Mounted
    <2>3. CASE ~ twice
      BY <2>1, <2>3 DEF Tabs!Mounted
    <2> QED BY <2>2, <2>3
  <1>10. /\ IsFetches(c) /\ c # <<>> /\ LastFresh(c, server)
         /\ IsFetches(one) /\ one # <<>> /\ LastFresh(one, server)
    BY <1>1, NoFetchIs, SentIsFresh DEF TabsAsks, Tabs!Askers
  <1>11. IsFetches(two) /\ two # <<>> /\ LastFresh(two, server)
    BY <1>10, SentIsFresh
  <1> PICK T : fetches \in [Tabs!Askers -> T]
    BY <1>1 DEF TabsAsks
  <1>12. /\ fetches' \in [Tabs!Askers -> T \cup {c, one, two}]
         /\ fetches'["cards"] = c /\ (fetches'["tabs"] = one \/ fetches'["tabs"] = two)
         /\ fetches'["head"] = fetches["head"]
    BY <1>9 DEF Tabs!Askers
  <1>13. TabsAsks(fetches')
    BY <1>1, <1>10, <1>11, <1>12 DEF TabsAsks, Tabs!Askers
  <1>14. ASSUME \A r \in sends : ~ r.done
         PROVE  /\ LastFresh(fetches'["head"], server)
                /\ fetches'["head"] = <<>> => page'.old["head"] \/ ShownBy("head", page', server)
    <2>1. /\ LastFresh(fetches["head"], server)
          /\ fetches["head"] = <<>> => page.old["head"] \/ ShownBy("head", page, server)
      BY <1>14 DEF TabsInv, TabsFresh, Tabs!Askers
    <2>2. page'.old["head"] = page.old["head"]
      BY <1>5, <1>7 DEF Tabs!Askers
    <2>3. ShownBy("head", page, server) => ShownBy("head", page', server)
      BY <1>7 DEF ShownBy
    <2> QED BY <1>12, <2>1, <2>2, <2>3
  <1>15. TabsFresh'
    BY <1>2, <1>3, <1>10, <1>11, <1>12, <1>14 DEF TabsFresh, Tabs!Askers
  <1> QED BY <1>3, <1>8, <1>13, <1>15 DEF TabsInv

LEMMA ClickedIs ==
  ASSUME NEW op, NEW p, NEW done, NEW mounted, NEW tab, NEW cards, NEW last
  PROVE  IsTabsRequest([op |-> op, project |-> p, done |-> done, mounted |-> mounted,
                        tab |-> tab, cards |-> cards, last |-> last])
  <1> PICK q : q = [op |-> op, project |-> p, done |-> done, mounted |-> mounted,
                    tab |-> tab, cards |-> cards, last |-> last]
    OBVIOUS
  <1> PICK R : R = {op, p, done, mounted, tab, cards, last}
    OBVIOUS
  <1>1. q \in [op : R, project : R, done : R, mounted : R, tab : R, cards : R, last : R]
    OBVIOUS
  <1>2. q \in [TabsRequestFields -> R]
    BY <1>1 DEF TabsRequestFields
  <1>3. IsTabsRequest(q)
    BY <1>2 DEF IsTabsRequest
  <1> QED BY <1>3

LEMMA TabsClicks ==
  ASSUME TabsInv, NEW op, NEW p, Tabs!Click(op, p)
  PROVE  TabsInv'
  <1>1. IsTabsPage(page) /\ \A r \in sends : IsTabsRequest(r)
    BY DEF TabsInv
  <1> PICK S : page \in [TabsFields -> S]
    BY <1>1 DEF IsTabsPage
  <1> PICK x : x = IF op = "leave" THEN p ELSE HostOf[p]
    OBVIOUS
  <1>2. page' = [page EXCEPT !.last = x] /\ UNCHANGED <<server, fetches>>
    BY DEF Tabs!Click
  <1>3. IsTabsPage(page')
    BY <1>1, <1>2, TabsField
  <1>4. TabsSame(page, page')
    <2>1. page'.old = page.old /\ page'.tab = page.tab
      BY <1>2 DEF TabsFields
    <2>2. page'.head = page.head /\ page'.tabs = page.tabs /\ page'.cards = page.cards
      BY <1>2 DEF TabsFields
    <2> QED BY <2>1, <2>2 DEF TabsSame
  <1> PICK yes, no, tab, cards, last :
        yes = TRUE /\ no = FALSE /\ tab = page.tab /\ cards = page.cards /\ last = page.last
    OBVIOUS
  <1> PICK q : q = [op |-> op, project |-> p, done |-> no, mounted |-> yes,
                    tab |-> tab, cards |-> cards, last |-> last]
    OBVIOUS
  <1>5. sends' = sends \cup {q}
    BY DEF Tabs!Click, Tabs!Request
  <1>6. IsTabsRequest(q)
    BY ClickedIs
  <1>7. TabsAsks(fetches') /\ TabsFresh'
    BY <1>2, <1>4, <1>5, TabsFrame
  <1> QED BY <1>1, <1>3, <1>5, <1>6, <1>7 DEF TabsInv

LEMMA TabsApplies ==
  ASSUME TabsInv, NEW r \in sends, Tabs!Apply(r)
  PROVE  TabsInv'
  <1>1. TabsAsks(fetches) /\ IsTabsPage(page) /\ \A q \in sends : IsTabsRequest(q)
    BY DEF TabsInv
  <1>2. fetches' = fetches /\ page' = page /\ sends' = (sends \ {r}) \cup {[r EXCEPT !.done = TRUE]}
    BY DEF Tabs!Apply
  <1>3. IsTabsRequest([r EXCEPT !.done = TRUE]) /\ [r EXCEPT !.done = TRUE].done
    BY <1>1, TabsRequests
  <1>4. TabsFresh'
    BY <1>2, <1>3 DEF TabsFresh
  <1> QED BY <1>1, <1>2, <1>3, <1>4 DEF TabsInv

\* Components that ask again have nothing old; cards that do not are marked.
LEMMA TabsAskAgain ==
  ASSUME TabsAsks(fetches), NEW askers \in SUBSET Tabs!Askers, {"head", "tabs"} \subseteq askers,
         Tabs!AskedBy(askers)
  PROVE  /\ TabsAsks(fetches')
         /\ \A j \in askers : \A there : fetches'[j] # <<>> /\ LastFresh(fetches'[j], there)
         /\ \A there : LastFresh(fetches'["cards"], there)
  <1> DEFINE Old(f) == [f EXCEPT !.old = TRUE]
             Dropped(fs) == [i \in DOMAIN fs |-> Old(fs[i])]
             n == [k \in Tabs!Askers |->
                     IF k \in askers THEN Tabs!Sent(fetches[k]) ELSE Dropped(fetches[k])]
  <1>1. fetches' = n
    BY DEF Tabs!AskedBy
  <1>2. ASSUME NEW fs, IsFetches(fs)
        PROVE  IsFetches(Dropped(fs)) /\ \A there : LastFresh(Dropped(fs), there)
    <2>1. ASSUME NEW f, IsFetch(f)
          PROVE  IsFetch(Old(f)) /\ Old(f).old = TRUE
      <3> PICK S : f \in [{"carried", "old"} -> S]
        BY <2>1 DEF IsFetch
      <3>1. Old(f) \in [{"carried", "old"} -> S \cup {TRUE}] /\ Old(f).old = TRUE
        OBVIOUS
      <3> QED BY <3>1 DEF IsFetch
    <2> HIDE DEF Old
    <2> PICK T : fs \in Seq(T)
      BY <1>2 DEF IsFetches
    <2> PICK d : d = Dropped(fs)
      OBVIOUS
    <2> PICK U : U = {Old(fs[i]) : i \in 1 .. Len(fs)}
      OBVIOUS
    <2>2. d \in [1 .. Len(fs) -> U] /\ Len(fs) \in Nat
      OBVIOUS
    <2>3. d \in Seq(U) /\ Len(d) = Len(fs)
      BY <2>2
    <2>4. \A i \in 1 .. Len(d) : d[i] = Old(fs[i])
      BY <2>3
    <2>5. \A i \in 1 .. Len(d) : IsFetch(d[i]) /\ d[i].old = TRUE
      BY <1>2, <2>1, <2>3, <2>4 DEF IsFetches
    <2>6. \A there : LastFresh(d, there)
      BY <2>3, <2>5 DEF LastFresh
    <2> QED BY <2>3, <2>5, <2>6 DEF IsFetches
  <1> HIDE DEF Dropped
  <1>3. \A k \in askers : n[k] = Fetching!Sent(fetches[k])
    BY TabsFetching
  <1>4. \A k \in askers : \A there : IsFetches(n[k]) /\ n[k] # <<>> /\ LastFresh(n[k], there)
    BY <1>3, SentIsFresh DEF TabsAsks
  <1>5. \A k \in Tabs!Askers \ askers : \A there : IsFetches(n[k]) /\ LastFresh(n[k], there)
    BY <1>2 DEF TabsAsks
  <1>6. n \in [Tabs!Askers -> {n[k] : k \in Tabs!Askers}]
    OBVIOUS
  <1> HIDE DEF n
  <1>7. TabsAsks(n)
    BY <1>4, <1>5, <1>6 DEF TabsAsks
  <1> QED BY <1>1, <1>4, <1>5, <1>7 DEF Tabs!Askers

LEMMA TabsAnswers ==
  ASSUME TabsInv, NEW r \in sends, Tabs!Answered(r)
  PROVE  TabsInv'
  <1>1. TabsAsks(fetches) /\ IsTabsPage(page) /\ \A q \in sends : IsTabsRequest(q)
    BY DEF TabsInv
  <1>2. sends' = sends \ {r} /\ server' = server
    BY DEF Tabs!Answered
  <1> PICK S : page \in [TabsFields -> S]
    BY <1>1 DEF IsTabsPage
  <1>3. CASE r.mounted
    <2>1. Tabs!AskedBy(Tabs!Askers)
      BY <1>3 DEF Tabs!Answered
    <2>2. TabsAsks(fetches') /\ \A j \in Tabs!Askers : \A there : fetches'[j] # <<>> /\ LastFresh(fetches'[j], there)
      BY <1>1, <2>1, TabsAskAgain DEF Tabs!Askers
    <2>3. PICK x, y : page' = [page EXCEPT !.cards = x, !.loading = y]
      <3> WITNESS Tabs!CardsLeft(r), page.tab = 1
      <3> QED BY <1>3 DEF Tabs!Answered
    <2>4. IsTabsPage(page')
      BY <1>1, <2>3, TabsField
    <2>5. TabsFresh'
      BY <2>2 DEF TabsFresh
    <2> QED BY <1>1, <1>2, <2>2, <2>4, <2>5 DEF TabsInv
  <1>4. CASE ~ r.mounted
    <2>1. Tabs!AskedBy({"head", "tabs"})
      BY <1>4 DEF Tabs!Answered
    <2>2. /\ TabsAsks(fetches')
          /\ \A j \in {"head", "tabs"} : \A there : fetches'[j] # <<>> /\ LastFresh(fetches'[j], there)
          /\ \A there : LastFresh(fetches'["cards"], there)
      BY <1>1, <2>1, TabsAskAgain DEF Tabs!Askers
    <2> PICK yes : yes = TRUE
      OBVIOUS
    <2>3. page' = [page EXCEPT !.old = [page.old EXCEPT !["cards"] = yes]]
      BY <1>4 DEF Tabs!Answered
    <2>4. Marking(page, "cards", yes, page')
      BY <1>1, <2>3, TabsMarked DEF Tabs!Askers
    <2>5. TabsFresh'
      BY <2>2, <2>4 DEF TabsFresh, Tabs!Askers, Marking
    <2> QED BY <1>1, <1>2, <2>2, <2>4, <2>5 DEF TabsInv, Marking
  <1> QED BY <1>3, <1>4

LEMMA TabsKeeps ==
  TabsInv /\ [Tabs!InvitationsNext]_(Tabs!invitationsVars) => TabsInv'
  <1>1. ASSUME TabsInv, Tabs!InvitationsNext PROVE TabsInv'
    <2>1. ASSUME NEW k \in Tabs!Askers, NEW i \in DOMAIN fetches[k], Tabs!Receive(k, i)
          PROVE  TabsInv'
      BY <1>1, <2>1, TabsReceives DEF TabsInv
    <2>2. ASSUME NEW r \in sends, Tabs!Refused(r)
          PROVE  TabsInv'
      <3>1. UNCHANGED <<server, fetches, page>> /\ sends' = sends \ {r} /\ ~ r.done
        BY <2>2 DEF Tabs!Refused
      <3>2. TabsAsks(fetches') /\ TabsFresh'
        BY <1>1, <3>1, TabsFrame DEF TabsSame
      <3> QED BY <1>1, <3>1, <3>2 DEF TabsInv
    <2> QED
      BY <1>1, <2>1, <2>2, TabsServes, TabsFails, TabsMounts, TabsClicks, TabsApplies, TabsAnswers
      DEF Tabs!InvitationsNext, Tabs!handleChange, Tabs!InvitationsButton, Tabs!leaveProject,
          Tabs!acceptInvite, Tabs!declineInvite
  <1>2. ASSUME TabsInv, UNCHANGED Tabs!invitationsVars PROVE TabsInv'
    <2>1. UNCHANGED <<server, fetches, page, sends>>
      BY <1>2 DEF Tabs!invitationsVars
    <2> QED BY <1>2, <2>1 DEF TabsInv, TabsFresh
  <1> QED BY <1>1, <1>2

LEMMA TabsShows == TabsInv => Tabs!ShowsStored
  <1> SUFFICES ASSUME TabsInv, \A k \in Tabs!Askers : fetches[k] = <<>> /\ ~ page.old[k], sends = {}
               PROVE  /\ page.head = Tabs!Numbers(server) /\ page.tabs = Tabs!Numbers(server)
                      /\ page.cards = Tabs!With(Tabs!Of(page.tab), server)
    BY DEF Tabs!ShowsStored, Tabs!NoFetch
  <1>1. \A k \in Tabs!Askers : ShownBy(k, page, server)
    BY DEF TabsInv, TabsFresh
  <1> QED BY <1>1 DEF ShownBy, Tabs!Askers
-----------------------------------------------------------------------------
(* The users.                                                              *)

UsersFields == {"show", "rows", "old", "left", "search", "status", "pageNo", "menu", "curr", "form"}
IsUsersPage(p) == \E S : p \in [UsersFields -> S]
IsUsersRequest(r) == \E S : r \in [{"do", "user", "done", "mounted", "id"} -> S]

\* A menu is open in the table only; a request for a new user goes with the
\* form that sent it, or with the mark that the form was left.
UsersForms ==
  /\ page.show # "table" => page.menu = 0
  /\ Admin!Creating => page.show = "create" \/ page.left

StatesSettled(s) == \A r \in s : r.do \in Admin!States => ~ r.done

\* Until its answer comes a change that was made may not be listed, nor one
\* that was made in a form that is still open.
UsersFresh ==
  StatesSettled(sends) /\ page.show # "create" /\ ~ page.left =>
    /\ LastFresh(fetches, Admin!Listed(server))
    /\ fetches = <<>> => page.old \/ page.rows = Admin!Listed(server)

UsersInv ==
  /\ IsFetches(fetches) /\ IsUsersPage(page) /\ (\A r \in sends : IsUsersRequest(r))
  /\ UsersForms /\ UsersFresh

LEMMA UsersFetching ==
  ASSUME NEW fs
  PROVE  /\ Admin!Sent(fs) = Fetching!Sent(fs)
         /\ \A i, x : Admin!ServedAt(fs, i, x) = Fetching!ServedAt(fs, i, x)
         /\ \A i : Admin!Taken(fs, i) = Fetching!Taken(fs, i)
  BY DEF Admin!Sent, Fetching!Sent, Admin!ServedAt, Fetching!ServedAt, Admin!Taken, Fetching!Taken,
         Admin!NoAnswer, Fetching!NoAnswer

LEMMA UsersStart == Admin!UsersInit => UsersInv
  <1> SUFFICES ASSUME Admin!UsersInit PROVE UsersInv
    OBVIOUS
  <1> PICK no, empty, zero, blank :
        no = FALSE /\ empty = <<>> /\ zero = 0 /\ blank = Admin!NoForm
    OBVIOUS
  <1>1. page = [show |-> "table", rows |-> empty, old |-> no, left |-> no, search |-> "",
                status |-> "all", pageNo |-> zero, menu |-> zero, curr |-> "", form |-> blank]
    BY DEF Admin!UsersInit
  <1> PICK S : S = {"table", empty, no, "", "all", zero, blank}
    OBVIOUS
  <1>2. page \in [show : S, rows : S, old : S, left : S, search : S, status : S, pageNo : S,
                  menu : S, curr : S, form : S]
    BY <1>1
  <1>3. page \in [UsersFields -> S]
    BY <1>2 DEF UsersFields
  <1>4. page.menu = zero
    BY <1>1
  <1>5. fetches = Fetching!Sent(<<>>) /\ sends = {}
    BY UsersFetching DEF Admin!UsersInit, Admin!NoFetch
  <1>6. IsFetches(fetches) /\ fetches # <<>> /\ LastFresh(fetches, Admin!Listed(server))
    BY <1>5, NoFetchIs, SentIsFresh
  <1>7. UsersForms
    BY <1>4, <1>5 DEF UsersForms, Admin!Creating
  <1>8. UsersFresh
    <2>1. fetches # <<>> /\ LastFresh(fetches, Admin!Listed(server))
      BY <1>6
    <2> QED BY <2>1 DEF UsersFresh
  <1> QED BY <1>3, <1>5, <1>6, <1>7, <1>8 DEF UsersInv, IsUsersPage

\* Pages with the same rows.
SameRows(p, n) == n.rows = p.rows /\ n.old = p.old /\ n.left = p.left

\* What is chosen and typed in the table and in the forms.
LEMMA UsersChosen ==
  ASSUME UsersInv, NEW x, NEW y, NEW z,
         \/ page' = [page EXCEPT !.search = x, !.status = y, !.pageNo = z]
         \/ page' = [page EXCEPT !.pageNo = x]
         \/ page' = [page EXCEPT !.form = x]
  PROVE  IsUsersPage(page') /\ SameRows(page, page') /\ page'.show = page.show /\ page'.menu = page.menu
  <1> PICK S : page \in [UsersFields -> S]
    BY DEF UsersInv, IsUsersPage
  <1>1. page' \in [UsersFields -> S \cup {x, y, z}]
    BY DEF UsersFields
  <1>2. page'.show = page.show /\ page'.menu = page.menu
    BY DEF UsersFields
  <1>3. page'.rows = page.rows /\ page'.old = page.old /\ page'.left = page.left
    BY DEF UsersFields
  <1> QED BY <1>1, <1>2, <1>3 DEF IsUsersPage, SameRows

LEMMA UsersMenu ==
  ASSUME UsersInv, NEW x, NEW y, page' = [page EXCEPT !.menu = x, !.curr = y]
  PROVE  IsUsersPage(page') /\ SameRows(page, page') /\ page'.show = page.show /\ page'.menu = x
  <1> PICK S : page \in [UsersFields -> S]
    BY DEF UsersInv, IsUsersPage
  <1>1. page' \in [UsersFields -> S \cup {x, y}]
    BY DEF UsersFields
  <1>2. page'.show = page.show /\ page'.menu = x
    BY DEF UsersFields
  <1>3. page'.rows = page.rows /\ page'.old = page.old /\ page'.left = page.left
    BY DEF UsersFields
  <1> QED BY <1>1, <1>2, <1>3 DEF IsUsersPage, SameRows

\* Steps of the page alone.
LEMMA UsersFrame ==
  ASSUME UsersInv, UNCHANGED <<server, fetches, sends>>,
         IsUsersPage(page'), SameRows(page, page'),
         page'.show # "table" => page'.menu = 0,
         (page.show = "create") = (page'.show = "create")
  PROVE  UsersInv'
  <1>1. UsersForms'
    BY DEF UsersInv, UsersForms, SameRows, Admin!Creating
  <1>2. UsersFresh'
    <2>1. /\ page'.rows = page.rows /\ page'.old = page.old /\ page'.left = page.left
          /\ fetches' = fetches /\ sends' = sends /\ server' = server /\ UsersFresh
      BY DEF UsersInv, SameRows
    <2>2. Admin!Listed(server') = Admin!Listed(server) /\ StatesSettled(sends') = StatesSettled(sends)
      BY <2>1
    <2> QED BY <2>1, <2>2 DEF UsersFresh
  <1> QED BY <1>1, <1>2 DEF UsersInv

LEMMA UsersEdit ==
  ASSUME UsersInv, Admin!handleEditDiv
  PROVE  UsersInv'
  <1> PICK S : page \in [UsersFields -> S]
    BY DEF UsersInv, IsUsersPage
  <1> PICK zero, f : zero = 0 /\ f = Admin!EditUser(page.curr)
    OBVIOUS
  <1>1. page' = [page EXCEPT !.show = "edit", !.menu = zero, !.curr = "", !.form = f]
    BY DEF Admin!handleEditDiv
  <1>2. page' \in [UsersFields -> S \cup {"edit", zero, "", f}]
    BY <1>1, FourChanged
  <1>3. page'.show = "edit" /\ page'.menu = zero
    BY <1>1 DEF UsersFields
  <1>4. page'.rows = page.rows /\ page'.old = page.old /\ page'.left = page.left
    BY <1>1 DEF UsersFields
  <1>5. page.show = "table"
    BY DEF UsersInv, UsersForms, Admin!handleEditDiv
  <1>6. UNCHANGED <<server, fetches, sends>>
    BY DEF Admin!handleEditDiv
  <1>7. IsUsersPage(page') /\ SameRows(page, page')
    BY <1>2, <1>4 DEF IsUsersPage, SameRows
  <1>8. page'.menu = 0 /\ page'.show # "create" /\ page.show # "create"
    BY <1>3, <1>5
  <1> QED BY <1>6, <1>7, <1>8, UsersFrame

LEMMA UsersChoose ==
  ASSUME UsersInv,
         \/ \E s \in UserSearches, status \in {"all"} \cup UserStatusFilters : Admin!setFilters(s, status)
         \/ \E n \in 0 .. Len(AllUsers) : Admin!ChangePage(n)
         \/ \E i \in 1 .. UsersPerPage : Admin!OpenMenu(i)
         \/ Admin!CloseMenu
         \/ \E u \in Admin!Users : Admin!handleUserChange(u)
         \/ Admin!handleCreatePassword \/ Admin!handleClose
  PROVE  UsersInv'
  <1> SUFFICES /\ UNCHANGED <<server, fetches, sends>>
               /\ IsUsersPage(page') /\ SameRows(page, page') /\ page'.show = page.show
               /\ page'.show # "table" => page'.menu = 0
    BY UsersFrame
  <1>0. page.show # "table" => page.menu = 0
    BY DEF UsersInv, UsersForms
  <1> DEFINE Goal == /\ UNCHANGED <<server, fetches, sends>>
                     /\ IsUsersPage(page') /\ SameRows(page, page') /\ page'.show = page.show
                     /\ page'.show # "table" => page'.menu = 0
  <1>1. ASSUME NEW s, NEW status, Admin!setFilters(s, status) PROVE Goal
    <2> PICK zero : zero = 0
      OBVIOUS
    <2>1. page' = [page EXCEPT !.search = s, !.status = status, !.pageNo = zero]
      BY <1>1 DEF Admin!setFilters
    <2>2. UNCHANGED <<server, fetches, sends>>
      BY <1>1 DEF Admin!setFilters
    <2>3. IsUsersPage(page') /\ SameRows(page, page') /\ page'.show = page.show /\ page'.menu = page.menu
      BY <2>1, UsersChosen
    <2> QED BY <1>0, <2>2, <2>3
  <1>2. ASSUME NEW n, Admin!ChangePage(n) PROVE Goal
    <2>1. page' = [page EXCEPT !.pageNo = n] /\ UNCHANGED <<server, fetches, sends>>
      BY <1>2 DEF Admin!ChangePage
    <2>2. IsUsersPage(page') /\ SameRows(page, page') /\ page'.show = page.show /\ page'.menu = page.menu
      BY <2>1, UsersChosen
    <2> QED BY <1>0, <2>1, <2>2
  <1>3. ASSUME NEW f, page' = [page EXCEPT !.form = f], UNCHANGED <<server, fetches, sends>> PROVE Goal
    <2>1. IsUsersPage(page') /\ SameRows(page, page') /\ page'.show = page.show /\ page'.menu = page.menu
      BY <1>3, UsersChosen
    <2> QED BY <1>0, <1>3, <2>1
  <1>4. ASSUME NEW i, Admin!OpenMenu(i) PROVE Goal
    <2> PICK c : c = Admin!ShownRows[i].name
      OBVIOUS
    <2>1. page' = [page EXCEPT !.menu = i, !.curr = c]
      BY <1>4 DEF Admin!OpenMenu
    <2>2. page.show = "table" /\ UNCHANGED <<server, fetches, sends>>
      BY <1>4 DEF Admin!OpenMenu, Admin!Table
    <2>3. IsUsersPage(page') /\ SameRows(page, page') /\ page'.show = page.show
      BY <2>1, UsersMenu
    <2> QED BY <2>2, <2>3
  <1>5. ASSUME Admin!CloseMenu PROVE Goal
    <2> PICK zero : zero = 0
      OBVIOUS
    <2>1. page' = [page EXCEPT !.menu = zero, !.curr = ""]
      BY <1>5 DEF Admin!CloseMenu
    <2>2. UNCHANGED <<server, fetches, sends>>
      BY <1>5 DEF Admin!CloseMenu
    <2>3. IsUsersPage(page') /\ SameRows(page, page') /\ page'.show = page.show /\ page'.menu = zero
      BY <2>1, UsersMenu
    <2> QED BY <2>2, <2>3
  <1> HIDE DEF Goal
  <1>6. ASSUME NEW u, Admin!handleUserChange(u) PROVE Goal
    BY <1>3, <1>6 DEF Admin!handleUserChange
  <1>7. ASSUME Admin!handleCreatePassword PROVE Goal
    BY <1>3, <1>7 DEF Admin!handleCreatePassword
  <1>8. ASSUME Admin!handleClose PROVE Goal
    BY <1>3, <1>8 DEF Admin!handleClose
  <1> QED BY <1>1, <1>2, <1>4, <1>5, <1>6, <1>7, <1>8 DEF Goal

-----------------------------------------------------------------------------

LEMMA UsersServes ==
  ASSUME UsersInv, NEW i \in DOMAIN fetches, Admin!Serve(i)
  PROVE  UsersInv'
  <1>1. IsFetches(fetches) /\ i \in 1 .. Len(fetches)
    BY DEF UsersInv, IsFetches
  <1> PICK l : l = Admin!Listed(server)
    OBVIOUS
  <1>2. fetches' = Fetching!ServedAt(fetches, i, l) /\ UNCHANGED <<server, page, sends>>
    BY UsersFetching DEF Admin!Serve
  <1>3. /\ IsFetches(fetches') /\ Len(fetches') = Len(fetches)
        /\ LastFresh(fetches, l) => LastFresh(fetches', l)
    BY <1>1, <1>2, ServedAtIsFresh
  <1>4. fetches' # <<>>
    BY <1>1, <1>3, EmptyFetches DEF IsFetches
  <1>5. UsersFresh'
    BY <1>2, <1>3, <1>4 DEF UsersInv, UsersFresh
  <1>6. UsersForms'
    BY <1>2 DEF UsersInv, UsersForms, Admin!Creating
  <1> QED BY <1>2, <1>3, <1>5, <1>6 DEF UsersInv

\* An answer, that came or not.
Brings(p, f) == p.old \/ (~ f.old /\ f.carried # <<>> /\ p.rows = f.carried[1])

LEMMA UsersTaken ==
  ASSUME UsersInv, NEW i \in DOMAIN fetches, fetches' = Admin!Taken(fetches, i),
         UNCHANGED <<server, sends>>, IsUsersPage(page'),
         page'.show = page.show, page'.left = page.left, page.menu = 0 => page'.menu = 0,
         Brings(page', fetches[i])
  PROVE  UsersInv'
  <1>1. IsFetches(fetches) /\ i \in 1 .. Len(fetches)
    BY DEF UsersInv, IsFetches
  <1> PICK l : l = Admin!Listed(server)
    OBVIOUS
  <1>2. /\ IsFetches(fetches')
        /\ fetches' = <<>> => i = Len(fetches)
        /\ LastFresh(fetches, l) => LastFresh(fetches', l)
    <2>1. fetches' = Fetching!Taken(fetches, i)
      BY UsersFetching
    <2> QED BY <1>1, <2>1, TakenIsFresh
  <1>3. ASSUME StatesSettled(sends), page.show # "create", ~ page.left
        PROVE  LastFresh(fetches', l) /\ (fetches' = <<>> => page'.old \/ page'.rows = l)
    <2>1. LastFresh(fetches, l)
      BY <1>3 DEF UsersInv, UsersFresh
    <2>2. ASSUME fetches' = <<>>, ~ page'.old
          PROVE  page'.rows = l
      <3>1. i = Len(fetches) /\ Len(fetches) > 0 /\ ~ fetches[i].old /\ fetches[i].carried # <<>>
        BY <1>1, <1>2, <2>2 DEF Brings
      <3>2. fetches[i].carried = <<l>>
        BY <2>1, <3>1 DEF LastFresh
      <3> QED BY <2>2, <3>2 DEF Brings
    <2> QED BY <1>2, <2>1, <2>2
  <1>4. UsersFresh'
    BY <1>3 DEF UsersFresh
  <1>5. UsersForms'
    BY DEF UsersInv, UsersForms, Admin!Creating
  <1> QED BY <1>2, <1>4, <1>5 DEF UsersInv

LEMMA UsersReceives ==
  ASSUME UsersInv, NEW i \in DOMAIN fetches, Admin!setRows(i)
  PROVE  UsersInv'
  <1> PICK answer, o : answer = fetches[i].carried /\ o = fetches[i].old
    OBVIOUS
  <1> PICK x : x = answer[1]
    OBVIOUS
  <1> PICK S : page \in [UsersFields -> S]
    BY DEF UsersInv, IsUsersPage
  <1> PICK new : new = [page EXCEPT !.old = o]
    OBVIOUS
  <1>1. /\ answer # <<>> /\ fetches' = Admin!Taken(fetches, i) /\ UNCHANGED <<server, sends>>
        /\ page' = Admin!Rendered(new, x)
    BY DEF Admin!setRows, Admin!NoAnswer
  <1>2. new \in [UsersFields -> S \cup {o}] /\ new.old = o
    BY DEF UsersFields
  <1>3. new.show = page.show /\ new.left = page.left /\ new.menu = page.menu
    BY DEF UsersFields
  <1>4. PICK zero, menu, curr :
          /\ zero = 0 /\ menu \in {zero, new.menu}
          /\ page' = [new EXCEPT !.rows = x, !.menu = menu, !.curr = curr]
    <2> DEFINE shown == SelectSeq(x, LAMBDA r : new.search \in {"", r.name} /\ new.status \in {"all", r.state})
               stays == new.pageNo * UsersPerPage + new.menu \in DOMAIN shown
    <2>1. page' = [new EXCEPT !.rows = x, !.menu = IF stays THEN @ ELSE 0, !.curr = IF stays THEN @ ELSE ""]
      BY <1>1 DEF Admin!Rendered
    <2> HIDE DEF stays
    <2>2. CASE stays
      <3>1. page' = [new EXCEPT !.rows = x, !.menu = new.menu, !.curr = new.curr]
        BY <1>2, <2>1, <2>2 DEF UsersFields
      <3> QED BY <3>1
    <2>3. CASE ~ stays
      <3>1. page' = [new EXCEPT !.rows = x, !.menu = 0, !.curr = ""]
        BY <1>2, <2>1, <2>3 DEF UsersFields
      <3> QED BY <3>1
    <2> QED BY <2>2, <2>3
  <1>n. page' = [new EXCEPT !.rows = x, !.menu = menu, !.curr = curr]
    BY <1>4
  <1>5. IsUsersPage(page')
    <2> PICK T : new \in [UsersFields -> T]
      BY <1>2
    <2>1. page' \in [UsersFields -> T \cup {x, menu, curr}]
      BY <1>n, ThreeChanged
    <2> QED BY <2>1 DEF IsUsersPage
  <1>6. page'.rows = x /\ page'.menu = menu
    BY <1>2, <1>n DEF UsersFields
  <1>7. page'.show = new.show /\ page'.left = new.left /\ page'.old = new.old
    BY <1>2, <1>n DEF UsersFields
  <1>8. page.menu = 0 => page'.menu = 0
    BY <1>3, <1>4, <1>6
  <1>9. IsUsersPage(page') /\ page'.show = page.show /\ page'.left = page.left
    BY <1>3, <1>5, <1>7
  <1>10. page'.old \/ (~ o /\ answer # <<>> /\ page'.rows = x)
    BY <1>1, <1>2, <1>6, <1>7
  <1>11. Brings(page', fetches[i])
    BY <1>10 DEF Brings
  <1> QED BY <1>1, <1>8, <1>9, <1>11, UsersTaken

LEMMA UsersFails ==
  ASSUME UsersInv, NEW i \in DOMAIN fetches, Admin!FetchFailed(i)
  PROVE  UsersInv'
  <1> PICK S : page \in [UsersFields -> S]
    BY DEF UsersInv, IsUsersPage
  <1> PICK yes : yes = TRUE
    OBVIOUS
  <1>1. /\ fetches' = Admin!Taken(fetches, i) /\ UNCHANGED <<server, sends>>
        /\ page' = [page EXCEPT !.old = yes]
    BY DEF Admin!FetchFailed
  <1>2. page' \in [UsersFields -> S \cup {yes}] /\ page'.old = yes
    BY <1>1 DEF UsersFields
  <1>3. page'.show = page.show /\ page'.left = page.left /\ page'.menu = page.menu
    BY <1>1 DEF UsersFields
  <1>4. IsUsersPage(page') /\ Brings(page', fetches[i])
    BY <1>2 DEF IsUsersPage, Brings
  <1> QED BY <1>1, <1>3, <1>4, UsersTaken

\* A request of which one field is another one.
LEMMA UsersRequests ==
  ASSUME NEW r, IsUsersRequest(r), NEW b
  PROVE  /\ IsUsersRequest([r EXCEPT !.mounted = b])
         /\ [r EXCEPT !.mounted = b].done = r.done /\ [r EXCEPT !.mounted = b].do = r.do
         /\ IsUsersRequest([r EXCEPT !.done = b])
         /\ [r EXCEPT !.done = b].done = b /\ [r EXCEPT !.done = b].do = r.do
  <1> PICK S : r \in [{"do", "user", "done", "mounted", "id"} -> S]
    BY DEF IsUsersRequest
  <1>1. /\ [r EXCEPT !.mounted = b] \in [{"do", "user", "done", "mounted", "id"} -> S \cup {b}]
        /\ [r EXCEPT !.done = b] \in [{"do", "user", "done", "mounted", "id"} -> S \cup {b}]
    OBVIOUS
  <1>2. [r EXCEPT !.mounted = b].done = r.done /\ [r EXCEPT !.mounted = b].do = r.do
    OBVIOUS
  <1>3. [r EXCEPT !.done = b].done = b /\ [r EXCEPT !.done = b].do = r.do
    OBVIOUS
  <1> QED BY <1>1, <1>2, <1>3 DEF IsUsersRequest

LEMMA UsersNew ==
  ASSUME NEW do, NEW user, NEW no, NEW yes, NEW id
  PROVE  LET r == [do |-> do, user |-> user, done |-> no, mounted |-> yes, id |-> id]
         IN  IsUsersRequest(r) /\ r.do = do /\ r.done = no
  <1> PICK r : r = [do |-> do, user |-> user, done |-> no, mounted |-> yes, id |-> id]
    OBVIOUS
  <1> PICK R : R = {do, user, no, yes, id}
    OBVIOUS
  <1>1. r \in [do : R, user : R, done : R, mounted : R, id : R]
    OBVIOUS
  <1>2. r \in [{"do", "user", "done", "mounted", "id"} -> R]
    BY <1>1
  <1>3. r.do = do /\ r.done = no
    OBVIOUS
  <1> QED BY <1>2, <1>3 DEF IsUsersRequest

\* The list is asked for.
LEMMA UsersAskAgain ==
  ASSUME UsersInv, Admin!fetchUsers
  PROVE  IsFetches(fetches') /\ UsersFresh'
  <1>1. fetches' = Fetching!Sent(fetches)
    BY UsersFetching DEF Admin!fetchUsers
  <1>2. IsFetches(fetches') /\ fetches' # <<>> /\ \A there : LastFresh(fetches', there)
    BY <1>1, SentIsFresh DEF UsersInv
  <1> QED BY <1>2 DEF UsersFresh

LEMMA UsersOpen ==
  ASSUME UsersInv, Admin!setShowDiv
  PROVE  UsersInv'
  <1> PICK S : page \in [UsersFields -> S]
    BY DEF UsersInv, IsUsersPage
  <1>1. PICK f, left : page' = [page EXCEPT !.show = "create", !.form = f, !.left = left]
    <2> WITNESS Admin!NoForm, Admin!Creating
    <2> QED BY DEF Admin!setShowDiv
  <1>2. page' \in [UsersFields -> S \cup {"create", f, left}]
    BY <1>1 DEF UsersFields
  <1>3. page'.show = "create" /\ page'.menu = page.menu
    BY <1>1 DEF UsersFields
  <1>4. UNCHANGED <<server, sends>> /\ page.menu = 0 /\ Admin!fetchUsers
    BY DEF Admin!setShowDiv, Admin!Table
  <1>5. IsFetches(fetches') /\ UsersFresh'
    BY <1>4, UsersAskAgain
  <1>6. UsersForms'
    BY <1>3, <1>4 DEF UsersForms
  <1> QED BY <1>2, <1>4, <1>5, <1>6 DEF UsersInv, IsUsersPage

LEMMA UsersLeave ==
  ASSUME UsersInv, Admin!handleDiv
  PROVE  UsersInv'
  <1> PICK S : page \in [UsersFields -> S]
    BY DEF UsersInv, IsUsersPage
  <1>1. PICK f, left :
          /\ page' = [page EXCEPT !.show = "table", !.form = f, !.left = left]
          /\ IF page.show = "create" THEN left = Admin!Creating ELSE left = page.left
    <2>1. page' = [page EXCEPT !.show = "table", !.form = Admin!NoForm,
                               !.left = IF page.show = "create" THEN Admin!Creating ELSE @]
      BY DEF Admin!handleDiv
    <2>2. CASE page.show = "create"
      <3> WITNESS Admin!NoForm, Admin!Creating
      <3> QED BY <2>1, <2>2 DEF UsersFields
    <2>3. CASE page.show # "create"
      <3> WITNESS Admin!NoForm, page.left
      <3> QED BY <2>1, <2>3 DEF UsersFields
    <2> QED BY <2>2, <2>3
  <1>2. page' \in [UsersFields -> S \cup {"table", f, left}]
    BY <1>1 DEF UsersFields
  <1>3. page'.show = "table" /\ page'.left = left
    BY <1>1 DEF UsersFields
  <1>4. page'.rows = page.rows /\ page'.old = page.old
    BY <1>1 DEF UsersFields
  <1> DEFINE Left(q) == [q EXCEPT !.mounted = q.do \in Admin!States]
  <1>5. server' = server /\ sends' = {Left(q) : q \in sends}
    BY DEF Admin!handleDiv
  <1>6. \A q \in sends : IsUsersRequest(Left(q)) /\ Left(q).done = q.done /\ Left(q).do = q.do
    BY UsersRequests DEF UsersInv
  <1> HIDE DEF Left
  <1>7. \A q \in sends' : IsUsersRequest(q)
    BY <1>5, <1>6
  <1>8. Admin!Creating' => Admin!Creating
    BY <1>5, <1>6 DEF Admin!Creating
  <1>9. StatesSettled(sends') => StatesSettled(sends)
    BY <1>5, <1>6 DEF StatesSettled
  <1>10. UsersForms'
    BY <1>1, <1>3, <1>8 DEF UsersInv, UsersForms
  <1>11. CASE page.show = "create"
    <2>1. Admin!fetchUsers
      BY <1>11 DEF Admin!handleDiv
    <2> QED BY <1>2, <1>7, <1>10, <2>1, UsersAskAgain DEF UsersInv, IsUsersPage
  <1>12. CASE page.show # "create"
    <2>1. fetches' = fetches /\ left = page.left
      BY <1>1, <1>12 DEF Admin!handleDiv
    <2>2. UsersFresh'
      BY <1>3, <1>4, <1>5, <1>9, <1>12, <2>1 DEF UsersInv, UsersFresh
    <2> QED BY <1>2, <1>7, <1>10, <2>1, <2>2 DEF UsersInv, IsUsersPage
  <1> QED BY <1>11, <1>12

LEMMA UsersSend ==
  ASSUME UsersInv, UNCHANGED <<server, fetches>>, IsUsersPage(page'), SameRows(page, page'),
         page'.show = page.show, page'.menu = page.menu,
         NEW r, IsUsersRequest(r), ~ r.done, r.do = "create" => page.show = "create",
         sends' = sends \cup {r}
  PROVE  UsersInv'
  <1>1. UsersForms'
    BY DEF UsersInv, UsersForms, Admin!Creating, SameRows
  <1>2. StatesSettled(sends') => StatesSettled(sends)
    BY DEF StatesSettled
  <1>3. UsersFresh'
    BY <1>2 DEF UsersInv, UsersFresh, SameRows
  <1> QED BY <1>1, <1>3 DEF UsersInv

LEMMA UsersSubmit ==
  ASSUME UsersInv, Admin!handleSubmit
  PROVE  UsersInv'
  <1> PICK row : row = Admin!ShownRows[page.menu]
    OBVIOUS
  <1> PICK to, user, id : /\ to = IF row.state = "active" THEN "deactivated" ELSE "active"
                          /\ user = row.name /\ id = 1 + Admin!Cardinality(sends)
    OBVIOUS
  <1> PICK yes, no : yes = TRUE /\ no = FALSE
    OBVIOUS
  <1> PICK r : r = [do |-> to, user |-> user, done |-> no, mounted |-> yes, id |-> id]
    OBVIOUS
  <1>1. sends' = sends \cup {r} /\ UNCHANGED <<server, fetches, page>>
    BY DEF Admin!handleSubmit
  <1>2. IsUsersRequest(r) /\ r.do = to /\ r.done = no
    BY UsersNew
  <1>3. r.do # "create"
    BY <1>2
  <1> QED BY <1>1, <1>2, <1>3, UsersSend DEF UsersInv, SameRows

LEMMA UsersClick ==
  ASSUME UsersInv, Admin!handleClick
  PROVE  UsersInv'
  <1> PICK user, id, f : /\ user = page.form.user /\ id = 1 + Admin!Cardinality(sends)
                         /\ f = [page.form EXCEPT !.loading = TRUE]
    OBVIOUS
  <1> PICK show : show = page.show
    OBVIOUS
  <1> PICK yes, no : yes = TRUE /\ no = FALSE
    OBVIOUS
  <1> PICK r : r = [do |-> show, user |-> user, done |-> no, mounted |-> yes, id |-> id]
    OBVIOUS
  <1>1. sends' = sends \cup {r} /\ UNCHANGED <<server, fetches>> /\ page' = [page EXCEPT !.form = f]
    BY DEF Admin!handleClick
  <1>2. IsUsersRequest(r) /\ r.do = show /\ r.done = no
    BY UsersNew
  <1>3. IsUsersPage(page') /\ SameRows(page, page') /\ page'.show = page.show /\ page'.menu = page.menu
    BY <1>1, UsersChosen
  <1> QED BY <1>1, <1>2, <1>3, UsersSend

LEMMA UsersApplies ==
  ASSUME UsersInv, NEW r \in sends, Admin!Apply(r)
  PROVE  UsersInv'
  <1> PICK q : q = [r EXCEPT !.done = TRUE]
    OBVIOUS
  <1>1. fetches' = fetches /\ page' = page /\ sends' = (sends \ {r}) \cup {q}
    BY DEF Admin!Apply
  <1>2. IsUsersRequest(q) /\ q.done /\ q.do = r.do
    BY UsersRequests DEF UsersInv
  <1>3. UsersForms'
    BY <1>1, <1>2 DEF UsersInv, UsersForms, Admin!Creating
  <1>4. ASSUME StatesSettled(sends'), page'.show # "create", ~ page'.left
        PROVE  StatesSettled(sends) /\ server' = server
    <2>1. r.do \notin Admin!States
      BY <1>1, <1>2, <1>4 DEF StatesSettled
    <2>2. r.do # "create"
      BY <1>1, <1>4 DEF UsersInv, UsersForms, Admin!Creating
    <2>3. server' = server
      BY <2>1, <2>2 DEF Admin!Apply
    <2> QED BY <1>1, <1>4, <2>1, <2>3 DEF StatesSettled
  <1>5. UsersFresh'
    BY <1>1, <1>4 DEF UsersInv, UsersFresh
  <1> QED BY <1>1, <1>2, <1>3, <1>5 DEF UsersInv

\* A request that is over, and that changed no user's state that is not listed.
LEMMA UsersOver ==
  ASSUME UsersInv, NEW r \in sends, sends' = sends \ {r}, UNCHANGED <<server, fetches>>,
         r.do \in Admin!States => ~ r.done,
         IsUsersPage(page'), SameRows(page, page'), page'.show = page.show, page'.menu = page.menu
  PROVE  UsersInv'
  <1>1. UsersForms'
    BY DEF UsersInv, UsersForms, Admin!Creating, SameRows
  <1>2. StatesSettled(sends') => StatesSettled(sends)
    BY DEF StatesSettled
  <1>3. UsersFresh'
    BY <1>2 DEF UsersInv, UsersFresh, SameRows
  <1> QED BY <1>1, <1>3 DEF UsersInv

LEMMA UsersFinish ==
  ASSUME UsersInv, NEW outcome, page' = page \/ page' = Admin!Finish(outcome)
  PROVE  IsUsersPage(page') /\ SameRows(page, page') /\ page'.show = page.show /\ page'.menu = page.menu
  <1>1. CASE page' = page
    BY <1>1 DEF UsersInv, SameRows
  <1>2. CASE page' = Admin!Finish(outcome)
    <2> PICK S : page \in [UsersFields -> S]
      BY DEF UsersInv, IsUsersPage
    <2>1. PICK f : page' = [page EXCEPT !.form = f]
      <3> WITNESS [page.form EXCEPT !.loading = FALSE, !.modal = outcome]
      <3> QED BY <1>2 DEF Admin!Finish, UsersFields
    <2> QED BY <2>1, UsersChosen
  <1> QED BY <1>1, <1>2

LEMMA UsersAnswers ==
  ASSUME UsersInv, NEW r \in sends, Admin!Receive(r)
  PROVE  UsersInv'
  <1>1. sends' = sends \ {r} /\ server' = server
    BY DEF Admin!Receive
  <1>2. CASE r.do \in Admin!States
    <2>1. Admin!fetchUsers /\ page' = page
      BY <1>2 DEF Admin!Receive, Admin!Answered
    <2>2. IsFetches(fetches') /\ UsersFresh'
      BY <2>1, UsersAskAgain
    <2>3. UsersForms'
      BY <1>1, <2>1 DEF UsersInv, UsersForms, Admin!Creating
    <2> QED BY <1>1, <2>1, <2>2, <2>3 DEF UsersInv
  <1>3. CASE r.do \notin Admin!States
    <2>1. fetches' = fetches /\ (page' = page \/ page' = Admin!Finish("done"))
      BY <1>3 DEF Admin!Receive, Admin!Answered
    <2>2. IsUsersPage(page') /\ SameRows(page, page') /\ page'.show = page.show /\ page'.menu = page.menu
      BY <2>1, UsersFinish
    <2> QED BY <1>1, <1>3, <2>1, <2>2, UsersOver
  <1> QED BY <1>2, <1>3

LEMMA UsersRefused ==
  ASSUME UsersInv, NEW r \in sends, Admin!Refuse(r)
  PROVE  UsersInv'
  <1>1. /\ sends' = sends \ {r} /\ UNCHANGED <<server, fetches>> /\ ~ r.done
        /\ page' = page \/ page' = Admin!Finish("error")
    BY DEF Admin!Refuse
  <1>2. IsUsersPage(page') /\ SameRows(page, page') /\ page'.show = page.show /\ page'.menu = page.menu
    BY <1>1, UsersFinish
  <1> QED BY <1>1, <1>2, UsersOver

LEMMA UsersKeeps ==
  UsersInv /\ [Admin!UsersNext]_(Admin!usersVars) => UsersInv'
  <1>1. ASSUME UsersInv, Admin!UsersNext PROVE UsersInv'
    BY <1>1, UsersServes, UsersReceives, UsersFails, UsersChoose, UsersSubmit, UsersEdit, UsersOpen,
       UsersClick, UsersLeave, UsersApplies, UsersAnswers, UsersRefused
    DEF Admin!UsersNext
  <1>2. ASSUME UsersInv, UNCHANGED Admin!usersVars PROVE UsersInv'
    <2>1. UNCHANGED <<server, fetches, page, sends>>
      BY <1>2 DEF Admin!usersVars
    <2> QED BY <1>2, <2>1 DEF UsersInv, UsersFresh, UsersForms, Admin!Creating
  <1> QED BY <1>1, <1>2

LEMMA UsersShows == UsersInv => Admin!ShowsStored
  BY DEF UsersInv, UsersFresh, StatesSettled, Admin!ShowsStored, Admin!NoFetch
-----------------------------------------------------------------------------
(* The runs.                                                               *)

\* A sequence in which no run is twice.
DistinctIDs(s) == \A i, j \in 1 .. Len(s) : s[i].id = s[j].id => i = j

IsResult(r) ==
  /\ \E S : r \in [{"rows", "total", "loaded"} -> S]
  /\ \E T : r.rows \in Seq(T)
  /\ r.total \in Nat /\ Len(r.rows) <= r.total /\ DistinctIDs(r.rows)

CacheKeys == [filter : Table!Filters, page : {0, 1}]

LEMMA RunsCardinality ==
  ASSUME NEW S
  PROVE  Table!Cardinality(S) = Cardinality(S)
  BY DEF Table!Cardinality, Cardinality

LEMMA AllInSequence ==
  ASSUME NEW S, IsFiniteSet(S)
  PROVE  LET all == Table!SetToSeq(S)
         IN  /\ all \in Seq(S) /\ Len(all) = Cardinality(S) /\ Cardinality(S) \in Nat
             /\ \A i, j \in 1 .. Cardinality(S) : all[i] = all[j] => i = j
  <1> PICK n : n = Cardinality(S)
    OBVIOUS
  <1>1. n \in Nat /\ ExistsBijection(1 .. n, S)
    BY FS_CardinalityType
  <1>2. PICK f \in [1 .. n -> S] : \A i, j \in 1 .. n : f[i] = f[j] => i = j
    BY <1>1 DEF ExistsBijection, Bijection, Injection, IsInjective
  <1> DEFINE Inj(g) == \A i, j \in DOMAIN g : g[i] = g[j] => i = j
  <1> PICK all : all = Table!SetToSeq(S)
    OBVIOUS
  <1>3. all = CHOOSE g \in [1 .. n -> S] : Inj(g)
    BY RunsCardinality DEF Table!SetToSeq, Table!IsInjective
  <1>a. Inj(f)
    BY <1>2
  <1> HIDE DEF Inj
  <1>b. all \in [1 .. n -> S] /\ Inj(all)
    BY <1>3, <1>a
  <1>4. all \in [1 .. n -> S] /\ \A i, j \in 1 .. n : all[i] = all[j] => i = j
    BY <1>b DEF Inj
  <1>5. all \in Seq(S) /\ Len(all) = n
    BY <1>1, <1>4
  <1> QED BY <1>1, <1>4, <1>5

LEMMA NewResult ==
  ASSUME NEW shown, NEW total \in Nat, NEW loaded, NEW T, shown \in Seq(T), Len(shown) <= total,
         DistinctIDs(shown)
  PROVE  IsResult([rows |-> shown, total |-> total, loaded |-> loaded])
  <1> PICK r : r = [rows |-> shown, total |-> total, loaded |-> loaded]
    OBVIOUS
  <1> PICK n : n = total
    OBVIOUS
  <1>1. r = [rows |-> shown, total |-> n, loaded |-> loaded]
    OBVIOUS
  <1> PICK S : S = {shown, n, loaded}
    OBVIOUS
  <1>2. r \in [rows : S, total : S, loaded : S]
    BY <1>1
  <1>3. r \in [{"rows", "total", "loaded"} -> S]
    BY <1>2
  <1>4. r.rows = shown /\ r.total = n
    BY <1>1
  <1>5. r.total \in Nat /\ Len(r.rows) <= r.total
    BY <1>4
  <1> QED BY <1>3, <1>4, <1>5 DEF IsResult

\* The rows of m runs from a sequence in which no run is twice.
ArePiece(shown, all, skip, m) ==
  /\ \E A : all \in Seq(A)
  /\ \A i, j \in 1 .. Len(all) : all[i] = all[j] => i = j
  /\ skip \in Nat /\ m \in Nat
  /\ (m = 0) \/ (skip + m <= Len(all))
  /\ \E T : shown \in [1 .. m -> T]
  /\ \A i \in 1 .. m : shown[i].id = all[skip + i]

LEMMA PieceOfDistinct ==
  ASSUME NEW all, NEW shown, NEW skip, NEW m, ArePiece(shown, all, skip, m)
  PROVE  (\E T : shown \in Seq(T)) /\ DistinctIDs(shown) /\ Len(shown) <= Len(all)
  <1> PICK A : all \in Seq(A)
    BY DEF ArePiece
  <1> PICK T : shown \in [1 .. m -> T]
    BY DEF ArePiece
  <1>a. skip \in Nat /\ m \in Nat /\ ((m = 0) \/ (skip + m <= Len(all)))
    BY DEF ArePiece
  <1>b. /\ \A i, j \in 1 .. Len(all) : all[i] = all[j] => i = j
        /\ \A i \in 1 .. m : shown[i].id = all[skip + i]
    BY DEF ArePiece
  <1>1. shown \in Seq(T) /\ Len(shown) = m
    BY <1>a
  <1>2. Len(all) \in Nat
    OBVIOUS
  <1>3. m <= Len(all)
    BY <1>2, <1>a
  <1>4. \A i \in 1 .. m : skip + i \in 1 .. Len(all)
    BY <1>2, <1>a
  <1>5. ASSUME NEW i \in 1 .. m, NEW j \in 1 .. m, shown[i].id = shown[j].id
        PROVE  i = j
    <2>1. all[skip + i] = all[skip + j]
      BY <1>5, <1>b
    <2>2. skip + i \in 1 .. Len(all) /\ skip + j \in 1 .. Len(all)
      BY <1>4
    <2>3. skip + i = skip + j
      BY <2>1, <2>2, <1>b
    <2> QED BY <2>3, <1>a
  <1>6. DistinctIDs(shown)
    BY <1>1, <1>5 DEF DistinctIDs
  <1> QED BY <1>1, <1>3, <1>6

LEMMA RowsOfAPage ==
  ASSUME NEW v, v.page \in {0, 1}, NEW of
  PROVE  IsResult(Table!Listed(of, v))
  <1> DEFINE A == {r \in RunIDs : Table!Matches(v.filter, r, of[r])}
  <1>1. IsFiniteSet(A) /\ A \subseteq RunIDs
    BY RunIDsAssumption, FS_Subset
  <1> PICK all : all = Table!SetToSeq(A)
    OBVIOUS
  <1> PICK limit, skip : limit = RunsPerPage /\ skip = v.page * RunsPerPage
    OBVIOUS
  <1> PICK left : left = Len(all) - skip
    OBVIOUS
  <1> DEFINE k == IF left <= 0 THEN 0 ELSE IF left < limit THEN left ELSE limit
             here == [i \in 1 .. k |-> all[skip + i]]
             block == [i \in DOMAIN here |-> Table!Row(here[i], of[here[i]])]
  <1>2. Table!Listed(of, v) = [rows |-> block, total |-> Len(all), loaded |-> TRUE]
    BY DEF Table!Listed
  <1> HIDE DEF A
  <1>3. /\ all \in Seq(A) /\ Len(all) \in Nat
        /\ \A i, j \in 1 .. Len(all) : all[i] = all[j] => i = j
    BY <1>1, AllInSequence
  <1>4. limit \in Nat /\ skip \in Nat
    BY RunIDsAssumption
  <1>5. (k = 0) \/ (skip + k <= Len(all))
    BY <1>3, <1>4
  <1>6. k \in Nat
    BY <1>3, <1>4
  <1> PICK m : m = k
    OBVIOUS
  <1>m. m \in Nat /\ ((m = 0) \/ (skip + m <= Len(all)))
    BY <1>5, <1>6
  <1> HIDE DEF k
  <1>7. block = [i \in 1 .. m |-> Table!Row(all[skip + i], of[all[skip + i]])]
    OBVIOUS
  <1> PICK shown : shown = block
    OBVIOUS
  <1> PICK T : T = {shown[i] : i \in 1 .. m}
    OBVIOUS
  <1> HIDE DEF block, here
  <1>8. shown \in [1 .. m -> T]
    BY <1>7
  <1>10. \A i \in 1 .. m : shown[i].id = all[skip + i]
    BY <1>7 DEF Table!Row
  <1>11. ArePiece(shown, all, skip, m)
    <2>1. (\E B : all \in Seq(B)) /\ skip \in Nat /\ m \in Nat /\ \E U : shown \in [1 .. m -> U]
      BY <1>3, <1>4, <1>m, <1>8
    <2>2. /\ \A i, j \in 1 .. Len(all) : all[i] = all[j] => i = j
          /\ (m = 0) \/ (skip + m <= Len(all))
          /\ \A i \in 1 .. m : shown[i].id = all[skip + i]
      BY <1>3, <1>m, <1>10
    <2> QED BY <2>1, <2>2 DEF ArePiece
  <1>12. (\E U : shown \in Seq(U)) /\ DistinctIDs(shown) /\ Len(shown) <= Len(all)
    BY <1>11, PieceOfDistinct
  <1> QED BY <1>2, <1>3, <1>12, NewResult

\* An event changes the row of its run or puts one in front of the others.
LEMMA EventKeepsResult ==
  ASSUME NEW result, IsResult(result), NEW f, NEW row
  PROVE  IsResult(Table!WithEvent(result, f, row))
  <1> PICK S : result \in [{"rows", "total", "loaded"} -> S]
    BY DEF IsResult
  <1> PICK T : result.rows \in Seq(T)
    BY DEF IsResult
  <1> PICK old, n : old = result.rows /\ n = Len(result.rows)
    OBVIOUS
  <1> PICK count : count = result.total
    OBVIOUS
  <1>1. /\ old \in Seq(T) /\ n = Len(old) /\ n \in Nat /\ DOMAIN old = 1 .. n
        /\ count \in Nat /\ n <= count /\ DistinctIDs(old)
    BY DEF IsResult
  <1>2. CASE \E i \in DOMAIN result.rows : result.rows[i].id = row.id
    <2> DEFINE new == [i \in DOMAIN old |-> IF old[i].id = row.id THEN row ELSE old[i]]
               after == [result EXCEPT !.rows = new]
    <2>1. Table!WithEvent(result, f, row) = after
      BY <1>2 DEF Table!WithEvent
    <2>2. new \in [1 .. n -> T \cup {row}] /\ \A i \in 1 .. n : new[i].id = old[i].id
      BY <1>1
    <2>3. new \in Seq(T \cup {row}) /\ Len(new) = n
      BY <1>1, <2>2
    <2> HIDE DEF new
    <2>4. DistinctIDs(new)
      BY <1>1, <2>2, <2>3 DEF DistinctIDs
    <2>5. /\ after \in [{"rows", "total", "loaded"} -> S \cup {new}]
          /\ after.rows = new /\ after.total = count
      OBVIOUS
    <2> HIDE DEF after
    <2>6. after.total \in Nat /\ Len(after.rows) <= after.total
      BY <1>1, <2>3, <2>5
    <2> QED BY <2>1, <2>3, <2>4, <2>5, <2>6 DEF IsResult
  <1>3. CASE ~ (\E i \in DOMAIN result.rows : result.rows[i].id = row.id) /\ Table!isFiltered(f, row)
    <2> PICK new : new = <<row>> \o old
      OBVIOUS
    <2> PICK more : more = count + 1
      OBVIOUS
    <2> DEFINE after == [result EXCEPT !.rows = new, !.total = more]
    <2>1. Table!WithEvent(result, f, row) = after
      BY <1>3 DEF Table!WithEvent
    <2>2. old \in Seq(T \cup {row}) /\ <<row>> \in Seq(T \cup {row})
      BY <1>1
    <2>3. /\ new \in Seq(T \cup {row}) /\ Len(new) = n + 1 /\ new[1] = row
          /\ \A i \in 2 .. n + 1 : new[i] = old[i - 1] /\ i - 1 \in 1 .. n
      BY <1>1, <2>2
    <2>4. \A i \in 1 .. n : old[i].id # row.id
      BY <1>1, <1>3
    <2>5. DistinctIDs(new)
      <3> SUFFICES ASSUME NEW i \in 1 .. n + 1, NEW j \in 1 .. n + 1, new[i].id = new[j].id
                   PROVE  i = j
        BY <2>3 DEF DistinctIDs
      <3>1. i \in Nat /\ j \in Nat
        BY <1>1
      <3>2. CASE i = 1 /\ j = 1
        BY <3>2
      <3>3. CASE i = 1 /\ j # 1
        <4>1. j \in 2 .. n + 1
          BY <1>1, <3>1, <3>3
        <4> QED BY <2>3, <2>4, <3>3, <4>1
      <3>4. CASE i # 1 /\ j = 1
        <4>1. i \in 2 .. n + 1
          BY <1>1, <3>1, <3>4
        <4> QED BY <2>3, <2>4, <3>4, <4>1
      <3>5. CASE i # 1 /\ j # 1
        <4>1. i \in 2 .. n + 1 /\ j \in 2 .. n + 1
          BY <1>1, <3>1, <3>5
        <4> PICK x, y : x = i - 1 /\ y = j - 1
          OBVIOUS
        <4>2. x \in 1 .. n /\ y \in 1 .. n /\ old[x] = new[i] /\ old[y] = new[j]
          BY <2>3, <4>1
        <4>3. old[x].id = old[y].id
          BY <4>2
        <4>4. x = y
          BY <1>1, <4>2, <4>3 DEF DistinctIDs
        <4> QED BY <3>1, <4>4
      <3> QED BY <3>2, <3>3, <3>4, <3>5
    <2>6. /\ after \in [{"rows", "total", "loaded"} -> S \cup {new, more}]
          /\ after.rows = new /\ after.total = more
      OBVIOUS
    <2> HIDE DEF after
    <2>7. more \in Nat /\ n + 1 <= more
      BY <1>1
    <2>8. after.total \in Nat /\ Len(after.rows) <= after.total
      BY <2>3, <2>6, <2>7
    <2> QED BY <2>1, <2>3, <2>5, <2>6, <2>8 DEF IsResult
  <1>4. CASE ~ (\E i \in DOMAIN result.rows : result.rows[i].id = row.id) /\ ~ Table!isFiltered(f, row)
    BY <1>4 DEF Table!WithEvent
  <1> QED BY <1>2, <1>3, <1>4

-----------------------------------------------------------------------------
RunsTableIs(t) == (\E S : t \in [{"filter", "page", "subs"} -> S]) /\ t.page \in {0, 1}

RunsAnswers(as) == \A a \in as : IsResult(a.result)

RunsCached(c) == (\E S : c \in [CacheKeys -> S]) /\ \A v \in CacheKeys : IsResult(c[v])

RunsInv == RunsCached(cache) /\ RunsAnswers(asked) /\ RunsTableIs(table)

LEMMA SubscribingKeeps ==
  ASSUME NEW t, RunsTableIs(t)
  PROVE  RunsTableIs(Table!Subscribed(t))
  <1> PICK S : t \in [{"filter", "page", "subs"} -> S]
    BY DEF RunsTableIs
  <1> PICK more : more = t.subs \cup {t.filter}
    OBVIOUS
  <1> DEFINE n == [t EXCEPT !.subs = more]
  <1>1. Table!Subscribed(t) = n
    BY DEF Table!Subscribed
  <1>2. n \in [{"filter", "page", "subs"} -> S \cup {more}] /\ n.page = t.page
    OBVIOUS
  <1> QED BY <1>1, <1>2 DEF RunsTableIs

LEMMA ShowingKeeps ==
  ASSUME NEW t, RunsTableIs(t), NEW f, NEW at \in {0, 1}
  PROVE  RunsTableIs([t EXCEPT !.filter = f, !.page = at])
  <1> PICK S : t \in [{"filter", "page", "subs"} -> S]
    BY DEF RunsTableIs
  <1> DEFINE n == [t EXCEPT !.filter = f, !.page = at]
  <1>1. n \in [{"filter", "page", "subs"} -> S \cup {f, at}] /\ n.page = at
    OBVIOUS
  <1> HIDE DEF n
  <1>2. RunsTableIs(n)
    BY <1>1 DEF RunsTableIs
  <1> QED BY <1>2 DEF n

LEMMA CachingKeeps ==
  ASSUME NEW c, RunsCached(c), NEW v, NEW r, v \in CacheKeys => IsResult(r)
  PROVE  RunsCached([c EXCEPT ![v] = r])
  <1> PICK S : c \in [CacheKeys -> S]
    BY DEF RunsCached
  <1> DEFINE n == [c EXCEPT ![v] = r]
  <1>1. n \in [CacheKeys -> S \cup {r}] /\ \A w \in CacheKeys : n[w] = IF w = v THEN r ELSE c[w]
    OBVIOUS
  <1> HIDE DEF n
  <1>2. RunsCached(n)
    BY <1>1 DEF RunsCached
  <1> QED BY <1>2 DEF n

LEMMA AskingKeeps ==
  ASSUME NEW v, NEW of, v.page \in {0, 1}, Table!Ask(v, of), RunsAnswers(asked)
  PROVE  RunsAnswers(asked')
  <1> PICK r : r = Table!Listed(of, v)
    OBVIOUS
  <1> PICK a : a = [for |-> v, result |-> r]
    OBVIOUS
  <1>1. a.result = r
    OBVIOUS
  <1>2. IsResult(r)
    BY RowsOfAPage
  <1>3. asked' = asked \cup {a}
    BY DEF Table!Ask
  <1> QED BY <1>1, <1>2, <1>3 DEF RunsAnswers

LEMMA RunsShowKeeps ==
  ASSUME RunsInv, NEW f, NEW at \in {0, 1}, Table!Show(f, at)
  PROVE  RunsInv'
  <1> DEFINE v == [filter |-> f, page |-> at]
             t == [table EXCEPT !.filter = f, !.page = at]
  <1>a. Table!Ask(v, runs) /\ UNCHANGED cache
    BY DEF Table!Show
  <1>b. table' = Table!Subscribed(t) \/ table' = t
    BY DEF Table!Show
  <1>1. /\ v.page \in {0, 1} /\ Table!Ask(v, runs) /\ UNCHANGED cache
        /\ (table' = Table!Subscribed(t) \/ table' = t)
    BY <1>a, <1>b
  <1>2. RunsTableIs(t)
    BY ShowingKeeps DEF RunsInv
  <1> HIDE DEF v, t
  <1>3. RunsTableIs(table')
    BY <1>1, <1>2, SubscribingKeeps
  <1>4. RunsAnswers(asked')
    BY <1>1, AskingKeeps DEF RunsInv
  <1> QED BY <1>1, <1>3, <1>4 DEF RunsInv

LEMMA RunsStart ==
  ASSUME Table!RunsInit
  PROVE  RunsInv
  <1> PICK f : f = Table!First.filter
    OBVIOUS
  <1> PICK none, zero, no, yes : none = <<>> /\ zero = 0 /\ no = FALSE /\ yes = TRUE
    OBVIOUS
  <1>1. none \in Seq({}) /\ Len(none) = 0 /\ zero \in Nat /\ Len(none) <= zero /\ DistinctIDs(none)
    BY DEF DistinctIDs
  <1>2. Table!NoResult = [rows |-> none, total |-> zero, loaded |-> no]
    BY DEF Table!NoResult
  <1>3. IsResult(Table!NoResult)
    BY <1>1, <1>2, NewResult
  <1>4. RunsCached(cache)
    <2>1. cache = [v \in CacheKeys |-> Table!NoResult]
      BY DEF Table!RunsInit, CacheKeys
    <2>2. cache \in [CacheKeys -> {Table!NoResult}] /\ \A v \in CacheKeys : cache[v] = Table!NoResult
      BY <2>1
    <2> QED BY <1>3, <2>2 DEF RunsCached
  <1>5. RunsAnswers(asked)
    <2> PICK q : q = Table!NoResult
      OBVIOUS
    <2> PICK S : q \in [{"rows", "total", "loaded"} -> S]
      BY <1>3 DEF IsResult
    <2> DEFINE r == [q EXCEPT !.loaded = yes]
    <2>1. /\ r \in [{"rows", "total", "loaded"} -> S \cup {yes}]
          /\ r.rows = q.rows /\ r.total = q.total
      OBVIOUS
    <2> HIDE DEF r
    <2>2. IsResult(r)
      BY <1>3, <2>1 DEF IsResult
    <2> PICK a : a = [for |-> Table!First, result |-> r]
      OBVIOUS
    <2>3. asked = {a}
      BY DEF Table!RunsInit, r
    <2>4. a.result = r
      OBVIOUS
    <2> QED BY <2>2, <2>3, <2>4 DEF RunsAnswers
  <1>6. RunsTableIs(table)
    <2> PICK subs : subs = {f}
      OBVIOUS
    <2>1. table = [filter |-> f, page |-> zero, subs |-> subs]
      BY DEF Table!RunsInit
    <2> PICK S : S = {f, zero, subs}
      OBVIOUS
    <2>2. table \in [filter : S, page : S, subs : S]
      BY <2>1
    <2>3. table \in [{"filter", "page", "subs"} -> S]
      BY <2>2
    <2>4. table.page = 0
      BY <2>1
    <2> QED BY <2>3, <2>4 DEF RunsTableIs
  <1> QED BY <1>4, <1>5, <1>6 DEF RunsInv

LEMMA RunsKeeps ==
  ASSUME RunsInv, [Table!RunsNext]_(Table!runsVars)
  PROVE  RunsInv'
  <1>v. Table!Variables.page = table.page /\ table.page \in {0, 1}
    BY DEF Table!Variables, RunsInv, RunsTableIs
  <1>1. ASSUME NEW r \in RunIDs, NEW phase \in Table!Phases, Table!RunChanges(r, phase)
        PROVE  RunsInv'
    <2>1. UNCHANGED <<asked, cache, table>>
      BY <1>1 DEF Table!RunChanges
    <2> QED BY <2>1 DEF RunsInv
  <1>2. ASSUME NEW a \in asked, Table!Answer(a)
        PROVE  RunsInv'
    <2>1. /\ asked' = asked \ {a} /\ cache' = [cache EXCEPT ![a.for] = a.result]
          /\ (table' = Table!Subscribed(table) \/ table' = table)
      BY <1>2 DEF Table!Answer
    <2>2. IsResult(a.result) /\ RunsAnswers(asked')
      BY <2>1 DEF RunsInv, RunsAnswers
    <2>3. RunsCached(cache')
      BY <2>1, <2>2, CachingKeeps DEF RunsInv
    <2>4. RunsTableIs(table')
      BY <2>1, SubscribingKeeps DEF RunsInv
    <2> QED BY <2>2, <2>3, <2>4 DEF RunsInv
  <1>3. CASE Table!Event
    <2> PICK f, row : f = Head(wire).filter /\ row = Head(wire).row
      OBVIOUS
    <2> PICK v : v = Table!Variables
      OBVIOUS
    <2> PICK new : new = IF cache[v].loaded THEN Table!WithEvent(cache[v], f, row) ELSE cache[v]
      OBVIOUS
    <2>1. /\ cache' = [cache EXCEPT ![v] = new] /\ UNCHANGED asked
          /\ (table' = Table!Subscribed(table) \/ table' = table)
      BY <1>3 DEF Table!Event, Table!Data
    <2>2. v \in CacheKeys => IsResult(new)
      BY EventKeepsResult DEF RunsInv, RunsCached
    <2>3. RunsCached(cache')
      BY <2>1, <2>2, CachingKeeps DEF RunsInv
    <2>4. RunsTableIs(table')
      BY <2>1, SubscribingKeeps DEF RunsInv
    <2> QED BY <2>1, <2>3, <2>4 DEF RunsInv
  <1>4. ASSUME NEW f, Table!ChangeFilter(f)
        PROVE  RunsInv'
    BY <1>4, RunsShowKeeps DEF Table!ChangeFilter
  <1>5. ASSUME NEW at \in {0, 1}, Table!ChangePage(at)
        PROVE  RunsInv'
    BY <1>5, RunsShowKeeps DEF Table!ChangePage
  <1>6. ASSUME NEW of, Table!Ask(Table!Variables, of), UNCHANGED <<cache, table>>
        PROVE  RunsInv'
    <2>1. RunsAnswers(asked')
      BY <1>v, <1>6, AskingKeeps DEF RunsInv
    <2> QED BY <1>6, <2>1 DEF RunsInv
  <1>7. ASSUME NEW i, Table!Terminate(i) \/ Table!DeleteRun(i)
        PROVE  RunsInv'
    <2>1. \E of : Table!Ask(Table!Variables, of) /\ UNCHANGED <<cache, table>>
      BY <1>7 DEF Table!Terminate, Table!DeleteRun
    <2> QED BY <1>6, <2>1
  <1>8. CASE UNCHANGED Table!runsVars
    BY <1>8 DEF RunsInv, Table!runsVars
  <1> QED BY <1>1, <1>2, <1>3, <1>4, <1>5, <1>7, <1>8 DEF Table!RunsNext

LEMMA RunsShows ==
  ASSUME RunsInv
  PROVE  Table!RunsShownOnce
  <1> SUFFICES ASSUME NEW v \in DOMAIN cache
               PROVE  /\ \A i, j \in DOMAIN cache[v].rows :
                            cache[v].rows[i].id = cache[v].rows[j].id => i = j
                      /\ Len(cache[v].rows) <= cache[v].total
    BY DEF Table!RunsShownOnce
  <1>1. IsResult(cache[v])
    BY DEF RunsInv, RunsCached
  <1> PICK T : cache[v].rows \in Seq(T)
    BY <1>1 DEF IsResult
  <1>2. DOMAIN cache[v].rows = 1 .. Len(cache[v].rows)
    OBVIOUS
  <1> QED BY <1>1, <1>2 DEF IsResult, DistinctIDs
-----------------------------------------------------------------------------
(* The pages together: each as long as it is the open one.                 *)

NamesInv ==
  /\ area = "targets" => TargetsInv
  /\ area = "schedules" => SchedulesInv
  /\ area = "hubs" => HubsInv
  /\ area = "gitops" => GitOpsInv
  /\ area = "invite" => InviteInv

LEMMA PagesOpened ==
  ASSUME PagesInit
  PROVE  /\ area = "targets" => Targets!TargetsInit
         /\ area = "schedules" => Schedules!SchedulesInit
         /\ area = "hubs" => Hubs!HubsInit
         /\ area = "gitops" => GitOps!GitOpsTabInit
         /\ area = "invite" => Invite!InviteInit
         /\ area = "registry" => Registry!RegistryInit
         /\ area = "team" => Team!TeamInit
         /\ area = "invitations" => Tabs!InvitationsInit
         /\ area = "users" => Admin!UsersInit
         /\ area = "runs" => Table!RunsInit
  BY DEF PagesInit, PageOpened

\* A step of the pages is one of the open page, or leaves it alone.
LEMMA PagesStep ==
  ASSUME [PagesNext]_pagesVars
  PROVE  /\ area' = area
         /\ area = "targets" => [Targets!TargetsNext]_(Targets!targetsVars)
         /\ area = "schedules" => [Schedules!SchedulesNext]_(Schedules!schedulesVars)
         /\ area = "hubs" => [Hubs!HubsNext]_(Hubs!hubsVars)
         /\ area = "gitops" => [GitOps!GitOpsTabNext]_(GitOps!gitOpsTabVars)
         /\ area = "invite" => [Invite!InviteNext]_(Invite!inviteVars)
         /\ area = "registry" => [Registry!RegistryNext]_(Registry!registryVars)
         /\ area = "team" => [Team!TeamNext]_(Team!teamVars)
         /\ area = "invitations" => [Tabs!InvitationsNext]_(Tabs!invitationsVars)
         /\ area = "users" => [Admin!UsersNext]_(Admin!usersVars)
         /\ area = "runs" => [Table!RunsNext]_(Table!runsVars)
  <1>1. CASE PagesNext
    BY <1>1 DEF PagesNext, PageNext
  <1>2. CASE UNCHANGED pagesVars
    <2>1. UNCHANGED <<area, server, page, list, sends, table, fetches, data, hubForm, rows,
                      modal, invites, picked, runs, wire, asked, cache>>
      BY <1>2 DEF pagesVars
    <2> QED
      BY <2>1
      DEF Targets!targetsVars, Schedules!schedulesVars, Hubs!hubsVars, GitOps!gitOpsTabVars,
          Invite!inviteVars, Registry!registryVars, Team!teamVars, Tabs!invitationsVars,
          Admin!usersVars, Table!runsVars
  <1> QED BY <1>1, <1>2

\* A dialog of a delegate disconnects the delegate it names, a template is made
\* of the manifest of its row, a hub is stored as it was typed, the GitOps form
\* agrees with what the server has and whoever is invited gets the role that was
\* picked last (handleClose of the targets' table and its like in each page).
THEOREM ActsOnNamed == PagesSpec => []ActsOnWhatWasNamed
  <1>1. PagesInit => NamesInv
    BY PagesOpened, TargetsStart, SchedulesStart, HubsStart, GitOpsStart, InviteStart DEF NamesInv
  <1>2. NamesInv /\ [PagesNext]_pagesVars => NamesInv'
    BY PagesStep, TargetsKeeps, SchedulesKeeps, HubsKeeps, GitOpsKeeps, InviteKeeps DEF NamesInv
  <1>3. NamesInv => ActsOnWhatWasNamed
    BY SchedulesShows, HubsShows, GitOpsAgrees, InviteShows
    DEF NamesInv, ActsOnWhatWasNamed, TargetsInv
  <1> QED BY <1>1, <1>2, <1>3, PTL DEF PagesSpec

-----------------------------------------------------------------------------
StoredInv ==
  /\ area = "schedules" => SchedulesInv
  /\ area = "registry" => RegistryInv
  /\ area = "hubs" => HubsInv
  /\ area = "team" => TeamInv
  /\ area = "invitations" => TabsInv
  /\ area = "users" => UsersInv

\* When nothing is under way any more, the tables of the schedules, the team,
\* the invitations and the users, the cards of the hubs and the image registry
\* show what the server has, however changes, answers and refetches crossed.
THEOREM ShowsWhatIsStored == PagesSpec => []ListsAsStored
  <1>1. PagesInit => StoredInv
    BY PagesOpened, SchedulesStart, RegistryStart, HubsStart, TeamStart, TabsStart, UsersStart
    DEF StoredInv
  <1>2. StoredInv /\ [PagesNext]_pagesVars => StoredInv'
    BY PagesStep, SchedulesKeeps, RegistryKeeps, HubsKeeps, TeamKeeps, TabsKeeps, UsersKeeps
    DEF StoredInv
  <1>3. StoredInv => ListsAsStored
    BY SchedulesShows, RegistryShowsStored, HubsShows, TeamShows, TabsShows, UsersShows
    DEF StoredInv, ListsAsStored
  <1> QED BY <1>1, <1>2, <1>3, PTL DEF PagesSpec

\* However many subscriptions of the runs table see an event, and whichever
\* answer lands before or after it, no cached page of runs has a run twice or
\* more rows than its count says (updateQuery of WorkflowRunTable).
THEOREM RunsOnce == PagesSpec => []RunsShownOnce
  <1> DEFINE Inv == area = "runs" => RunsInv
  <1>1. PagesInit => Inv
    BY PagesOpened, RunsStart
  <1>2. Inv /\ [PagesNext]_pagesVars => Inv'
    BY PagesStep, RunsKeeps
  <1>3. Inv => RunsShownOnce
    BY RunsShows DEF RunsShownOnce
  <1> QED BY <1>1, <1>2, <1>3, PTL DEF PagesSpec
=============================================================================

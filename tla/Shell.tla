------------------------------- MODULE Shell -------------------------------
(***************************************************************************)
(* The frame around the screens of the web application: its routes, and    *)
(* the menu beside them, whose groups open and close.  Which group is open *)
(* is stored in the browser, where every tab writes it and a tab reads it  *)
(* when it is loaded; one tab is followed.  A path is the sequence of its  *)
(* segments; "" stands for any id.                                         *)
(***************************************************************************)
EXTENDS Naturals, Sequences, FiniteSets

Paths == INSTANCE SequencesExt

VARIABLES
    shell,  \* the menu of the tab, a customer's or an operator's
    stored, \* the groups marked as open in the browser's storage
    tab     \* the tab: its path, the groups it holds open, and those closed by hand

shellVars == <<shell, stored, tab>>

Leaf(id, to) == [id |-> id, to |-> to]
MenuGroup(id, default, children) == [id |-> id, default |-> default, children |-> children]

-----------------------------------------------------------------------------
CustomerRoutes ==
    {<<"app">> \o path : path \in
        {<<"dashboard">>, <<"matches", "mogelijk">>, <<"matches">>, <<"matches", "">>,
         <<"bewaakte-merken">>, <<"bewaakte-merken", "nieuw">>, <<"bewaakte-merken", "">>,
         <<"deadlines">>, <<"archief">>, <<"merken", "archief">>, <<"organisatie">>,
         <<"abonnement">>, <<"betalingen">>, <<"chat">>, <<"merkonderzoek", "nieuw">>,
         <<"merkonderzoek">>, <<"merkonderzoek", "">>, <<"meldingen">>, <<"databronnen">>}}

PlatformRoutes ==
    {<<"platform">> \o path : path \in
        {<<"overzicht">>, <<"klanten">>, <<"klanten", "">>, <<"abonnementen">>, <<"prijzen">>,
         <<"registers">>, <<"imports">>, <<"matches-scoring">>, <<"ai-kosten">>,
         <<"jobs-fouten">>, <<"notificaties">>, <<"systeeminstellingen">>, <<"auditlog">>}}

CustomerMenu == [
    leaves |-> {Leaf("dashboard", <<"app", "dashboard">>),
                Leaf("meldingen-inbox", <<"app", "meldingen">>),
                Leaf("org-overview", <<"app", "organisatie">>),
                Leaf("abonnement", <<"app", "abonnement">>),
                Leaf("betalingen", <<"app", "betalingen">>), Leaf("chat", <<"app", "chat">>)},
    groups |-> <<
        MenuGroup("mijn-merken", TRUE,
            {Leaf("huidige-merken", <<"app", "bewaakte-merken">>),
             Leaf("merken-archief", <<"app", "merken", "archief">>)}),
        MenuGroup("matches-groep", FALSE,
            {Leaf("matches-actief", <<"app", "matches">>),
             Leaf("matches-mogelijk", <<"app", "matches", "mogelijk">>),
             Leaf("deadlines", <<"app", "deadlines">>),
             Leaf("match-archief", <<"app", "archief">>)}),
        MenuGroup("merkonderzoek-groep", FALSE,
            {Leaf("merkonderzoek-nieuw", <<"app", "merkonderzoek", "nieuw">>),
             Leaf("merkonderzoek-rapporten", <<"app", "merkonderzoek">>)})>>]

Below(id) == Leaf(id, <<"platform", id>>)
PlatformMenu == [
    leaves |-> {Below("overzicht")},
    groups |-> <<
        MenuGroup("klanten", TRUE, {Leaf("klanten-lijst", <<"platform", "klanten">>)}),
        MenuGroup("operatie", TRUE,
            {Below(id) : id \in {"registers", "imports", "matches-scoring", "ai-kosten",
                                 "jobs-fouten", "notificaties"}}),
        MenuGroup("systeem", FALSE,
            {Below(id) : id \in {"abonnementen", "prijzen", "systeeminstellingen", "auditlog"}})>>]

Menu == [customer |-> CustomerMenu, platform |-> PlatformMenu]
Routes == [customer |-> CustomerRoutes, platform |-> PlatformRoutes]

Groups(menu) == {menu.groups[x] : x \in DOMAIN menu.groups}
GroupIds(menu) == {g.id : g \in Groups(menu)}
Leaves(menu) == menu.leaves \cup UNION {g.children : g \in Groups(menu)}

\* A leaf is lit on its own path and below, except that two leaves give way to a more
\* specific one beside them.
IsLeafActive(leaf, path) ==
    /\ Paths!IsPrefix(leaf.to, path)
    /\ leaf.id = "matches-actief" => ~Paths!IsPrefix(<<"app", "matches", "mogelijk">>, path)
    /\ leaf.id = "merkonderzoek-rapporten" => ~Paths!IsPrefix(<<"app", "merkonderzoek", "nieuw">>, path)

GroupHasActiveChild(group, path) == \E leaf \in group.children : IsLeafActive(leaf, path)

\* At most one: the one of the path.
GroupsOfPath(menu, path) == {g.id : g \in {h \in Groups(menu) : GroupHasActiveChild(h, path)}}

-----------------------------------------------------------------------------
\* Of several groups marked as open the last is kept.
NormalizeSingleOpen(menu, open) ==
    LET marked == {x \in DOMAIN menu.groups : menu.groups[x].id \in open} IN
    IF marked = {} THEN {}
    ELSE {menu.groups[CHOOSE x \in marked : \A y \in marked : y <= x].id}

FirstDefault(menu) ==
    LET defaults == {x \in DOMAIN menu.groups : menu.groups[x].default} IN
    {menu.groups[CHOOSE x \in defaults : \A y \in defaults : x <= y].id}

InitialOpen(menu) ==
    LET kept == NormalizeSingleOpen(menu, stored) IN IF kept # {} THEN kept ELSE FirstDefault(menu)

\* A group of the path is opened in its own tab and stored; on other paths nothing changes.
Arrived(menu, path, open, collapsed) ==
    LET here == GroupsOfPath(menu, path) IN
    [path |-> path,
     open |-> IF here # {} THEN here ELSE open,
     collapsed |-> collapsed \ here]
StoredAt(menu, path) ==
    LET here == GroupsOfPath(menu, path) IN IF here # {} THEN here ELSE stored

IsOpen(id) ==
    /\ id \notin tab.collapsed
    /\ id \in GroupsOfPath(Menu[shell], tab.path) \cup tab.open

Unloaded == [path |-> <<>>, open |-> {}, collapsed |-> {}]

\* The storage may hold what an earlier version of the application wrote there, of the groups
\* there are now.
ShellInit ==
    /\ shell \in DOMAIN Menu
    /\ stored \in SUBSET GroupIds(Menu[shell])
    /\ tab = Unloaded

Load(path) ==
    /\ tab' = Arrived(Menu[shell], path, InitialOpen(Menu[shell]), {})
    /\ stored' = StoredAt(Menu[shell], path)
    /\ UNCHANGED shell

Navigate(path) ==
    /\ tab.path \notin {<<>>, path}
    /\ tab' = Arrived(Menu[shell], path, tab.open, tab.collapsed)
    /\ stored' = StoredAt(Menu[shell], path)
    /\ UNCHANGED shell

Toggle(id) ==
    /\ tab # Unloaded
    /\ tab' = IF IsOpen(id) THEN [tab EXCEPT !.collapsed = @ \cup {id}, !.open = {}]
              ELSE [tab EXCEPT !.collapsed = @ \ {id}, !.open = {id}]
    /\ stored' = tab'.open
    /\ UNCHANGED shell

\* Another tab of the browser is used.
StoredElsewhere(open) ==
    /\ stored' = open
    /\ UNCHANGED <<shell, tab>>

ShellNext ==
    \/ \E path \in Routes[shell] : Load(path) \/ Navigate(path)
    \/ \E id \in GroupIds(Menu[shell]) : Toggle(id) \/ StoredElsewhere({id})
    \/ StoredElsewhere({})

-----------------------------------------------------------------------------
ShellTypeOK ==
    /\ shell \in DOMAIN Menu /\ stored \subseteq GroupIds(Menu[shell])
    /\ tab.path \in Routes[shell] \cup {<<>>}

\* Whatever other tabs and an earlier version store, a loaded tab lights one leaf at most and
\* shows at most one group open besides the path's: what it keeps open is one group at most,
\* and none that was closed by hand.
OneGroupOpen ==
    /\ Cardinality({leaf \in Leaves(Menu[shell]) : IsLeafActive(leaf, tab.path)}) <= 1
    /\ Cardinality(tab.open) <= 1
    /\ tab.open \cap tab.collapsed = {}
=============================================================================

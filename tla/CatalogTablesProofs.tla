------------------------- MODULE CatalogTablesProofs -------------------------
(***************************************************************************)
(* The tables of the catalog stay together for every number of urls,       *)
(* scanning threads and ids and for every set of failing statements: what  *)
(* a method does to the rows of one url is looked at by itself, and three  *)
(* lemmas say what addItems, removeItems and updateItems leave of it.      *)
(***************************************************************************)
EXTENDS CatalogTables, FiniteSetTheorems, TLAPS

(* A url has one row, and is known by its hash, or neither.                *)
Fits(url) == /\ \A p, q \in PlacesOf(url) : p = q
             /\ url \in hashes <=> PlacesOf(url) # {}

(* The rows of a url, of which there is one, have this id.                 *)
Leads(url, id) == /\ PlacesOf(url) # {}
                  /\ \A p \in PlacesOf(url) : rows[p].id = id

(* A scan finds a file once.                                               *)
OneOfEach(rs) == \A r, q \in rs : r.url = q.url => r = q

ObjectsLead == \A id \in DOMAIN lookup, url \in Urls \ touched :
                  lookup[id].url = url => Leads(url, id)

(* What a thread has selected and not yet registered leads to its id too:  *)
(* otherwise the object would get lost when it is registered.              *)
OpeningsLead == \A o \in Openers, url \in Urls \ touched :
                   HasSource(o) /\ opening[o].source.url = url => Leads(url, opening[o].source.id)

TInv == /\ TypeOK
        /\ \A s \in Scanners : OneOfEach(found[s])
        /\ HashesMatchRows
        /\ ObjectsLead
        /\ OpeningsLead

InUse == DOMAIN lookup \cup IdsOf(BeingOpened)

(* What a step on the rows may not do to the urls it leaves untouched.     *)
Keeps(S) == \A url \in Urls \ touched' :
               /\ Fits(url)'
               /\ \A id \in S : Leads(url, id) => Leads(url, id)'

TableTypes == /\ rows \in [Places -> Row \cup {Free}]
              /\ props \subseteq Ids
              /\ hashes \subseteq Urls
              /\ touched \subseteq Urls

(* What is in a place is a row, and no row is Free.                        *)
LEMMA InPlaces ==
  ASSUME rows \in [Places -> Row \cup {Free}]
  PROVE  /\ \A p \in Places \ FreePlaces : /\ rows[p] \in Row /\ rows[p].id \in Ids
                                           /\ rows[p].url \in Urls
         /\ Rows \subseteq Row
         /\ \A p \in Places, url \in Urls :
               p \in PlacesOf(url) <=> rows[p] # Free /\ rows[p].url = url
<1>1. ASSUME NEW p \in Places \ FreePlaces
      PROVE  rows[p] \in Row /\ rows[p].id \in Ids /\ rows[p].url \in Urls
  BY DEF FreePlaces, Row
<1>2. Rows \subseteq Row
  BY <1>1 DEF Rows
<1>3. ASSUME NEW p \in Places, NEW url \in Urls
      PROVE  p \in PlacesOf(url) <=> rows[p] # Free /\ rows[p].url = url
  BY DEF PlacesOf, FreePlaces
<1> QED BY <1>1, <1>2, <1>3

(* The two ways to say to what a url leads.                                *)
LEMMA LeadsTo ==
  ASSUME NEW url \in Urls, NEW id, Leads(url, id)
  PROVE  IdsOf(RowsOf(url)) = {id}
<1>1. \A r \in RowsOf(url) : r.id = id
  BY DEF Leads, PlacesOf, RowsOf, Rows
<1>2. PICK p \in Places \ FreePlaces : rows[p].url = url /\ rows[p].id = id
  BY DEF Leads, PlacesOf
<1>3. rows[p] \in RowsOf(url)
  BY <1>2 DEF RowsOf, Rows
<1> QED BY <1>1, <1>2, <1>3 DEF IdsOf

(* A url that is not contained and was left alone has no row.              *)
LEMMA NotContained ==
  ASSUME NEW url \in Urls, Fits(url), ~contains(url)
  PROVE  PlacesOf(url) = {} /\ url \notin hashes
<1> SUFFICES ASSUME NEW p \in PlacesOf(url), url \in hashes PROVE FALSE
  BY DEF Fits
<1>1. rows[p] \in Rows /\ rows[p].url = url
  BY DEF PlacesOf, Rows
<1> QED BY <1>1 DEF contains, UrlsOf

LEMMA AddKeeps ==
  ASSUME TypeOK, HashesMatchRows, NEW rs \in SUBSET Row, OneOfEach(rs), addItems(rs)
  PROVE  /\ rows' \in [Places -> Row \cup {Free}]
         /\ hashes' \subseteq Urls /\ touched' \subseteq Urls /\ touched \subseteq touched'
         /\ Keeps(Ids)
         /\ \A r \in rs : ~contains(r.url) /\ r.url \notin touched' => Leads(r.url, r.id)'
<1> DEFINE new == {r \in rs : ~contains(r.url)}
<1>1. PICK bad \in SUBSET new :
        /\ hashes' = hashes \cup UrlsOf(new)
        /\ Insert(new \ bad)
        /\ touched' = touched \cup UrlsOf(bad)
  BY DEF addItems
<1>0. PICK filled \in SUBSET FreePlaces : \E row \in Bijection(filled, new \ bad) :
        rows' = [p \in Places |-> IF p \in filled THEN row[p] ELSE rows[p]]
  BY <1>1 DEF Insert
<1>2. PICK row \in Bijection(filled, new \ bad) :
        rows' = [p \in Places |-> IF p \in filled THEN row[p] ELSE rows[p]]
  BY <1>0
<1>3. /\ row \in [filled -> new \ bad]
      /\ \A p, q \in filled : row[p] = row[q] => p = q
      /\ \A r \in new \ bad : \E p \in filled : row[p] = r
  BY DEF Bijection, Injection, Surjection, IsInjective
<1>4. rows' \in [Places -> Row \cup {Free}]
  BY <1>2, <1>3 DEF TypeOK
<1>5. hashes' \subseteq Urls /\ touched' \subseteq Urls /\ touched \subseteq touched'
  BY <1>1 DEF TypeOK, UrlsOf, Row
<1>6. \A p \in Places : rows'[p] = IF p \in filled THEN row[p] ELSE rows[p]
  BY <1>2
<1>7. \A p \in filled : p \in Places /\ rows[p] = Free
  BY DEF FreePlaces
<1>8. \A p \in Places, url \in Urls :
        p \in PlacesOf(url)' <=> rows'[p] # Free /\ rows'[p].url = url
  BY DEF PlacesOf, FreePlaces
<1>9. \A p \in Places, url \in Urls :
        p \in PlacesOf(url) <=> rows[p] # Free /\ rows[p].url = url
  BY DEF PlacesOf, FreePlaces
<1>10. \A url : PlacesOf(url) \subseteq Places /\ PlacesOf(url)' \subseteq Places
  BY DEF PlacesOf
<1>11. \A r \in rs : r \in Row /\ r # Free /\ r.url \in Urls
  BY FreeAssumption DEF Row
<1>12. ASSUME NEW url \in Urls \ touched', NEW r \in new, r.url = url
       PROVE  Fits(url)' /\ Leads(url, r.id)' /\ PlacesOf(url) = {}
  <2>1. r \notin bad
    BY <1>1, <1>12 DEF UrlsOf
  <2>2. Fits(url)
    BY <1>5 DEF HashesMatchRows, Fits
  <2>3. PlacesOf(url) = {} /\ url \notin hashes
    BY <2>2, <1>12, NotContained
  <2>4. PICK p \in filled : row[p] = r
    BY <2>1, <1>3
  <2>5. p \in PlacesOf(url)'
    BY <2>4, <1>6, <1>7, <1>8, <1>11, <1>12
  <2>6. ASSUME NEW q \in PlacesOf(url)' PROVE q = p
    <3>1. q \in Places /\ rows'[q] # Free /\ rows'[q].url = url
      BY <1>8, <1>10
    <3>2. q \in filled
      BY <3>1, <2>3, <1>6, <1>9
    <3>3. row[q] = r
      BY <3>1, <3>2, <1>3, <1>6, <1>12 DEF OneOfEach
    <3> QED BY <3>2, <3>3, <2>4, <1>3
  <2>7. rows'[p].id = r.id
    BY <2>4, <1>6, <1>7
  <2>8. url \in hashes'
    BY <1>1, <1>12 DEF UrlsOf
  <2>9. Fits(url)'
    BY <2>5, <2>6, <2>8 DEF Fits
  <2>10. Leads(url, r.id)'
    BY <2>5, <2>6, <2>7 DEF Leads
  <2> QED BY <2>3, <2>9, <2>10
<1>13. ASSUME NEW url \in Urls \ touched', \A r \in new : r.url # url
       PROVE  Fits(url)' /\ \A id \in Ids : Leads(url, id) => Leads(url, id)'
  <2>1. Fits(url)
    BY <1>5 DEF HashesMatchRows, Fits
  <2>2. \A p \in Places : p \in PlacesOf(url)' <=> p \in PlacesOf(url)
    BY <1>3, <1>6, <1>7, <1>8, <1>9, <1>13
  <2>3. PlacesOf(url)' = PlacesOf(url)
    BY <2>2, <1>10
  <2>4. \A p \in PlacesOf(url) : rows'[p] = rows[p]
    BY <1>6, <1>7, <1>9, <1>10
  <2>5. url \in hashes' <=> url \in hashes
    BY <1>1, <1>13 DEF UrlsOf
  <2>6. Fits(url)'
    BY <2>1, <2>3, <2>5 DEF Fits
  <2>7. \A id \in Ids : Leads(url, id) => Leads(url, id)'
    BY <2>3, <2>4 DEF Leads
  <2> QED BY <2>6, <2>7
<1>14. Keeps(Ids)
  <2> SUFFICES ASSUME NEW url \in Urls \ touched'
               PROVE  /\ Fits(url)'
                      /\ \A id \in Ids : Leads(url, id) => Leads(url, id)'
    BY DEF Keeps
  <2>1. CASE \E r \in new : r.url = url
    BY <2>1, <1>12 DEF Leads
  <2>2. CASE \A r \in new : r.url # url
    BY <2>2, <1>13
  <2> QED BY <2>1, <2>2
<1>15. \A r \in rs : ~contains(r.url) /\ r.url \notin touched' => Leads(r.url, r.id)'
  BY <1>11, <1>12
<1> QED BY <1>4, <1>5, <1>14, <1>15

LEMMA RemoveKeeps ==
  ASSUME TypeOK, HashesMatchRows, NEW rs \in SUBSET Row, removeItems(rs)
  PROVE  TableTypes' /\ touched \subseteq touched' /\ Keeps(InUse)
<1>1. PICK done \in SUBSET rs, begun \in SUBSET rs, deleted \in SUBSET rs :
        /\ done \subseteq deleted /\ deleted \subseteq begun
        /\ \/ done = rs
           \/ "delete" \in Failing /\ \E cut \in rs : begun = done \cup {cut}
        /\ LET stale == {r \in begun : r \notin deleted \/ IdsOf(RowsOf(r.url)) # {r.id}}
               used == {r \in begun : r.id \in DOMAIN lookup \cup IdsOf(BeingOpened)}
               others == {r \in Rows : r.id \in IdsOf(deleted) /\ r.url \notin UrlsOf(begun)}
           IN  /\ hashes' = hashes \ UrlsOf(begun)
               /\ rows' = [p \in Places |-> IF p \notin FreePlaces /\ rows[p].id \in IdsOf(deleted)
                                            THEN Free ELSE rows[p]]
               /\ props' = props \ IdsOf(done)
               /\ touched' = touched \cup UrlsOf(stale \cup used \cup others)
  BY DEF removeItems
<1> DEFINE stale == {r \in begun : r \notin deleted \/ IdsOf(RowsOf(r.url)) # {r.id}}
           used == {r \in begun : r.id \in DOMAIN lookup \cup IdsOf(BeingOpened)}
           others == {r \in Rows : r.id \in IdsOf(deleted) /\ r.url \notin UrlsOf(begun)}
<1>2. /\ hashes' = hashes \ UrlsOf(begun)
      /\ rows' = [p \in Places |-> IF p \notin FreePlaces /\ rows[p].id \in IdsOf(deleted)
                                   THEN Free ELSE rows[p]]
      /\ props' = props \ IdsOf(done)
      /\ touched' = touched \cup UrlsOf(stale \cup used \cup others)
  BY <1>1
<1>3. Rows \subseteq Row /\ begun \subseteq Row
  BY InPlaces DEF TypeOK
<1>4. TableTypes' /\ touched \subseteq touched'
  <2>1. UrlsOf(stale \cup used \cup others) \subseteq Urls
    BY <1>3 DEF UrlsOf, Row
  <2> QED BY <1>2, <2>1 DEF TypeOK, TableTypes
<1>5. \A p \in Places, url \in Urls :
        p \in PlacesOf(url)' <=> rows'[p] # Free /\ rows'[p].url = url
  BY DEF PlacesOf, FreePlaces
<1>6. \A p \in Places, url \in Urls :
        p \in PlacesOf(url) <=> rows[p] # Free /\ rows[p].url = url
  BY DEF PlacesOf, FreePlaces
<1>7. \A url : PlacesOf(url) \subseteq Places /\ PlacesOf(url)' \subseteq Places
  BY DEF PlacesOf
<1>8. \A p \in Places : rows'[p] = IF rows[p] # Free /\ rows[p].id \in IdsOf(deleted)
                                   THEN Free ELSE rows[p]
  BY <1>2 DEF FreePlaces
<1>9. \A p \in Places : rows[p] # Free => rows[p] \in Rows
  BY DEF Rows, FreePlaces
<1> SUFFICES ASSUME NEW url \in Urls \ touched'
             PROVE  /\ Fits(url)'
                    /\ \A id \in InUse : Leads(url, id) => Leads(url, id)'
  BY <1>4 DEF Keeps
<1>10. Fits(url)
  BY <1>4 DEF HashesMatchRows, Fits
<1>11. \A r \in begun : r.url = url =>
          r \in deleted /\ r.id \notin InUse /\ IdsOf(RowsOf(url)) = {r.id}
  BY <1>2 DEF UrlsOf, InUse
(* The rows go with the hash ...                                           *)
<1>12. ASSUME NEW r \in begun, r.url = url
       PROVE  /\ PlacesOf(url)' = {} /\ url \notin hashes'
              /\ \A id \in InUse : ~Leads(url, id)
  <2>1. r \in deleted /\ r.id \notin InUse /\ IdsOf(RowsOf(url)) = {r.id}
    BY <1>11, <1>12
  <2>2. url \notin hashes'
    BY <1>2, <1>12 DEF UrlsOf
  <2>3. ASSUME NEW p \in PlacesOf(url)' PROVE FALSE
    <3>1. p \in Places /\ rows[p] # Free /\ rows[p].url = url /\ rows[p].id \notin IdsOf(deleted)
      BY <1>5, <1>7, <1>8
    <3>2. rows[p].id \in IdsOf(RowsOf(url))
      BY <3>1, <1>9 DEF RowsOf, IdsOf
    <3> QED BY <3>1, <3>2, <2>1 DEF IdsOf
  <2>4. \A id \in InUse : ~Leads(url, id)
    BY <2>1, LeadsTo
  <2> QED BY <2>2, <2>3, <2>4
(* ... or both stay.                                                       *)
<1>13. ASSUME \A r \in begun : r.url # url
       PROVE  /\ PlacesOf(url)' = PlacesOf(url)
              /\ \A p \in PlacesOf(url) : rows'[p] = rows[p]
              /\ url \in hashes' <=> url \in hashes
  <2>1. url \notin UrlsOf(begun)
    BY <1>13 DEF UrlsOf
  <2>2. \A r \in Rows : r.url = url => r.id \notin IdsOf(deleted)
    BY <2>1, <1>2 DEF UrlsOf
  <2>3. \A p \in Places : rows[p] # Free /\ rows[p].url = url => rows'[p] = rows[p]
    BY <2>2, <1>8, <1>9
  <2>4. \A p \in Places : rows'[p] # Free => rows'[p] = rows[p]
    BY <1>8
  <2>5. \A p \in Places : p \in PlacesOf(url)' <=> p \in PlacesOf(url)
    BY <2>3, <2>4, <1>5, <1>6
  <2>6. \A p \in PlacesOf(url) : rows'[p] = rows[p]
    BY <2>3, <1>6, <1>7
  <2> QED BY <2>1, <2>5, <2>6, <1>2, <1>7
<1>14. CASE \E r \in begun : r.url = url
  BY <1>12, <1>14 DEF Fits
<1>15. CASE \A r \in begun : r.url # url
  <2>1. Fits(url)'
    BY <1>10, <1>13, <1>15 DEF Fits
  <2>2. \A id \in InUse : Leads(url, id) => Leads(url, id)'
    BY <1>13, <1>15 DEF Leads
  <2> QED BY <2>1, <2>2
<1> QED BY <1>14, <1>15

LEMMA UpdateKeeps ==
  ASSUME TypeOK, HashesMatchRows, NEW rs \in SUBSET Row, NEW with, updateItems(rs, with)
  PROVE  TableTypes' /\ touched \subseteq touched' /\ Keeps(Ids)
<1>1. PICK bad \in SUBSET IdsOf(rs) :
        LET done == {r \in rs : r.id \notin bad}
            written == {p \in Places \ FreePlaces : rows[p].id \in IdsOf(done)}
            new == [p \in written |-> CHOOSE r \in done : r.id = rows[p].id]
            changed == {p \in written : new[p].url # rows[p].url}
        IN  /\ rows' = [p \in Places |-> IF p \in written THEN new[p] ELSE rows[p]]
            /\ props' = (props \ IdsOf(rs)) \cup (IdsOf(done) \cap with)
            /\ touched' = touched \cup {rows[p].url : p \in changed} \cup {new[p].url : p \in changed}
            /\ UNCHANGED hashes
  BY DEF updateItems
<1> DEFINE done == {r \in rs : r.id \notin bad}
           written == {p \in Places \ FreePlaces : rows[p].id \in IdsOf(done)}
           new == [p \in written |-> CHOOSE r \in done : r.id = rows[p].id]
           changed == {p \in written : new[p].url # rows[p].url}
<1>2. /\ rows' = [p \in Places |-> IF p \in written THEN new[p] ELSE rows[p]]
      /\ props' = (props \ IdsOf(rs)) \cup (IdsOf(done) \cap with)
      /\ touched' = touched \cup {rows[p].url : p \in changed} \cup {new[p].url : p \in changed}
      /\ UNCHANGED hashes
  BY <1>1
<1>3. ASSUME NEW p \in written
      PROVE  new[p] \in done /\ new[p].id = rows[p].id
  <2>1. \E r \in done : r.id = rows[p].id
    BY DEF IdsOf
  <2> QED BY <2>1
<1>4. \A p \in written : /\ p \in Places /\ rows[p] # Free
                         /\ new[p] \in Row /\ new[p] # Free /\ new[p].url \in Urls
                         /\ rows[p].url \in Urls
  <2>1. \A r \in done : r \in Row /\ r # Free /\ r.url \in Urls
    BY FreeAssumption DEF Row
  <2>2. \A p \in written : p \in Places /\ rows[p] # Free /\ rows[p].url \in Urls
    BY InPlaces DEF TypeOK, FreePlaces
  <2> QED BY <2>1, <2>2, <1>3
<1>5. \A p \in Places : rows'[p] = IF p \in written THEN new[p] ELSE rows[p]
  BY <1>2
<1> HIDE DEF new, written
<1>6. \A p \in changed : rows[p].url \in touched' /\ new[p].url \in touched'
  <2> HIDE DEF changed
  <2> QED BY <1>2
<1>7. TableTypes' /\ touched \subseteq touched'
  <2>1. rows' \in [Places -> Row \cup {Free}]
    BY <1>2, <1>4 DEF TypeOK
  <2>2. props' \subseteq Ids
    BY <1>2 DEF TypeOK, IdsOf, Row
  <2>3. touched' \subseteq Urls /\ touched \subseteq touched'
    BY <1>2, <1>4 DEF TypeOK
  <2> QED BY <1>2, <2>1, <2>2, <2>3 DEF TypeOK, TableTypes
<1>8. \A p \in Places, url \in Urls :
        /\ p \in PlacesOf(url)' <=> rows'[p] # Free /\ rows'[p].url = url
        /\ p \in PlacesOf(url) <=> rows[p] # Free /\ rows[p].url = url
  BY DEF PlacesOf, FreePlaces
<1>9. \A url : PlacesOf(url) \subseteq Places /\ PlacesOf(url)' \subseteq Places
  BY DEF PlacesOf
<1> SUFFICES ASSUME NEW url \in Urls \ touched'
             PROVE  /\ Fits(url)'
                    /\ \A id \in Ids : Leads(url, id) => Leads(url, id)'
  BY <1>7 DEF Keeps
<1>10. Fits(url)
  BY <1>7 DEF HashesMatchRows, Fits
<1>11. \A p \in Places : p \in PlacesOf(url)' <=> p \in PlacesOf(url)
  BY <1>4, <1>5, <1>6, <1>8
<1>12. \A p \in PlacesOf(url) : rows'[p].id = rows[p].id
  BY <1>3, <1>5, <1>9
<1>13. PlacesOf(url)' = PlacesOf(url)
  BY <1>9, <1>11
<1>14. Fits(url)'
  BY <1>2, <1>10, <1>13 DEF Fits
<1>15. \A id \in Ids : Leads(url, id) => Leads(url, id)'
  BY <1>12, <1>13 DEF Leads
<1> QED BY <1>14, <1>15

-----------------------------------------------------------------------------
LEMMA InitTInv == Init => TInv
<1> SUFFICES ASSUME Init PROVE TInv
  OBVIOUS
<1>1. TypeOK
  BY BoundAssumption DEF Init, TypeOK, Ids
<1>2. \A s \in Scanners : OneOfEach(found[s])
  BY DEF Init, OneOfEach
<1>3. \A url : PlacesOf(url) = {}
  BY DEF Init, PlacesOf, FreePlaces
<1>4. HashesMatchRows
  BY <1>3 DEF Init, HashesMatchRows
<1>5. ObjectsLead
  BY DEF Init, ObjectsLead
<1>6. OpeningsLead
  BY DEF Init, OpeningsLead, HasSource, Idle
<1> QED BY <1>1, <1>2, <1>4, <1>5, <1>6 DEF TInv

(* The sources that threads have selected are sources.                     *)
LEMMA SourcesAre ==
  ASSUME TypeOK, NEW o \in Openers, HasSource(o)
  PROVE  /\ opening[o] \in Chosen /\ opening[o].source \in Source /\ opening[o].source.url \in Urls
         /\ opening[o].source.id \in Ids /\ opening[o].source.id \in IdsOf(BeingOpened)
<1>1. opening[o] \in {Idle} \cup Asked \cup Chosen /\ opening[o].step \in {"selected", "create"}
  BY DEF TypeOK, HasSource
<1>2. opening[o] \in Chosen
  BY <1>1 DEF Idle, Asked
<1>3. opening[o].source \in Source /\ opening[o].source.url # NoUrl
  BY <1>2 DEF Chosen
<1>4. opening[o].source \in BeingOpened
  BY DEF BeingOpened
<1> QED BY <1>2, <1>3, <1>4 DEF Source, IdsOf

(* A step that keeps the rows and leaves the objects alone, and those that *)
(* are being opened, keeps what is said of them.                           *)
LEMMA KeptTogether ==
  ASSUME TInv, touched \subseteq touched', Keeps(InUse), UNCHANGED <<lookup, opening>>
  PROVE  HashesMatchRows' /\ ObjectsLead' /\ OpeningsLead'
<1>1. HashesMatchRows'
  BY DEF Keeps, HashesMatchRows, Fits
<1>2. ObjectsLead'
  BY DEF Keeps, ObjectsLead, TInv, InUse
<1>3. OpeningsLead'
  <2> SUFFICES ASSUME NEW o \in Openers, NEW url \in Urls \ touched', HasSource(o)',
                      opening'[o].source.url = url
               PROVE  Leads(url, opening[o].source.id)'
    BY DEF OpeningsLead
  <2>1. HasSource(o) /\ opening[o].source.url = url
    BY DEF HasSource
  <2>2. opening[o].source.id \in InUse
    BY <2>1, SourcesAre DEF TInv, InUse
  <2>3. Leads(url, opening[o].source.id)
    BY <2>1 DEF TInv, OpeningsLead
  <2> QED BY <2>2, <2>3 DEF Keeps
<1> QED BY <1>1, <1>2, <1>3

(* So does one that does not touch the tables.                             *)
LEMMA SameTables ==
  ASSUME TInv, UNCHANGED <<rows, hashes, touched, lookup, opening>>
  PROVE  HashesMatchRows' /\ ObjectsLead' /\ OpeningsLead'
BY DEF TInv, HashesMatchRows, ObjectsLead, OpeningsLead, HasSource, Leads, PlacesOf, FreePlaces

LEMMA KeepsLess ==
  ASSUME TypeOK, Keeps(Ids)
  PROVE  Keeps(InUse)
<1>1. InUse \subseteq Ids
  BY SourcesAre DEF TypeOK, InUse, IdsOf, BeingOpened
<1> QED BY <1>1 DEF Keeps

LEMMA FindTInv ==
  ASSUME TInv, NEW s \in Scanners, Find(s)
  PROVE  TInv'
<1>1. PICK files \in SUBSET Urls :
        /\ baseId' = baseId + Cardinality(files)
        /\ baseId' <= MaxId
        /\ \E id \in Bijection(files, baseId .. baseId' - 1) :
             found' = [found EXCEPT ![s] = {[id |-> id[url], url |-> url] : url \in files}]
  BY DEF Find
<1>2. PICK id \in [files -> baseId .. baseId' - 1] :
        found' = [found EXCEPT ![s] = {[id |-> id[url], url |-> url] : url \in files}]
  BY <1>1 DEF Bijection, Injection
<1>3. Cardinality(files) \in Nat
  BY BoundAssumption, FS_Subset, FS_CardinalityType
<1>4. baseId' \in 0 .. MaxId /\ baseId .. baseId' - 1 \subseteq Ids
  BY <1>1, <1>3, BoundAssumption DEF TInv, TypeOK, Ids
<1>5. {[id |-> id[url], url |-> url] : url \in files} \subseteq Row
  BY <1>2, <1>4 DEF Row
<1>6. found' \in [Scanners -> SUBSET Row]
  BY <1>2, <1>5 DEF TInv, TypeOK
<1>7. TypeOK'
  BY <1>4, <1>6 DEF TInv, TypeOK, Find
<1>8. \A q \in Scanners : OneOfEach(found'[q])
  BY <1>2 DEF TInv, TypeOK, OneOfEach
<1>10. HashesMatchRows' /\ ObjectsLead' /\ OpeningsLead'
  BY SameTables DEF Find
<1> QED BY <1>7, <1>8, <1>10 DEF TInv, OneOfEach

LEMMA AddFoundTInv ==
  ASSUME TInv, NEW s \in Scanners, AddFound(s)
  PROVE  TInv'
<1>1. found[s] \in SUBSET Row /\ OneOfEach(found[s]) /\ addItems(found[s])
  BY DEF TInv, TypeOK, AddFound
<1>2. /\ rows' \in [Places -> Row \cup {Free}]
      /\ hashes' \subseteq Urls /\ touched' \subseteq Urls /\ touched \subseteq touched'
      /\ Keeps(Ids)
  BY <1>1, AddKeeps DEF TInv
<1>3. HashesMatchRows' /\ ObjectsLead' /\ OpeningsLead'
  BY <1>2, KeepsLess, KeptTogether DEF TInv, AddFound
<1>4. found' = [found EXCEPT ![s] = {}] /\ UNCHANGED <<props, lookup, baseId, items, batch, opening>>
  BY DEF AddFound
<1>5. TypeOK'
  BY <1>2, <1>4 DEF TInv, TypeOK
<1>6. (\A q \in Scanners : OneOfEach(found[q]))'
  BY <1>4 DEF TInv, TypeOK, OneOfEach
<1> QED BY <1>3, <1>5, <1>6 DEF TInv

LEMMA RefreshTInv ==
  ASSUME TInv, Refresh
  PROVE  TInv'
<1>1. PICK its \in SUBSET Row : items' = its /\ removeItems(its)
  BY InPlaces DEF TInv, TypeOK, Refresh
<1>2. TableTypes' /\ touched \subseteq touched' /\ Keeps(InUse)
  BY <1>1, RemoveKeeps DEF TInv
<1>3. HashesMatchRows' /\ ObjectsLead' /\ OpeningsLead'
  BY <1>2, KeptTogether DEF Refresh
<1>4. TypeOK'
  BY <1>1, <1>2 DEF TInv, TypeOK, TableTypes, Refresh
<1> QED BY <1>3, <1>4 DEF TInv, Refresh, OneOfEach

LEMMA SelectAllTInv ==
  ASSUME TInv, SelectAll
  PROVE  TInv'
<1>1. batch' \subseteq Row
  BY InPlaces DEF TInv, TypeOK, SelectAll
<1>2. UNCHANGED <<rows, props, hashes, lookup, baseId, found, items, opening, touched>>
  BY DEF SelectAll
<1>3. TypeOK'
  BY <1>1, <1>2 DEF TInv, TypeOK
<1>4. HashesMatchRows' /\ ObjectsLead' /\ OpeningsLead'
  BY <1>2, SameTables
<1> QED BY <1>2, <1>3, <1>4 DEF TInv, OneOfEach

LEMMA WriteEnvelopesTInv ==
  ASSUME TInv, WriteEnvelopes
  PROVE  TInv'
<1>1. batch \in SUBSET Row /\ updateItems(batch, IdsOf(batch))
  BY DEF TInv, TypeOK, WriteEnvelopes
<1>2. TableTypes' /\ touched \subseteq touched' /\ Keeps(Ids)
  BY <1>1, UpdateKeeps DEF TInv
<1>3. HashesMatchRows' /\ ObjectsLead' /\ OpeningsLead'
  BY <1>2, KeepsLess, KeptTogether DEF TInv, WriteEnvelopes
<1>4. TypeOK'
  BY <1>2 DEF TInv, TypeOK, TableTypes, WriteEnvelopes
<1> QED BY <1>3, <1>4 DEF TInv, WriteEnvelopes, OneOfEach

(* The row of a url that was left alone leads to its id.                   *)
LEMMA RowLeads ==
  ASSUME TInv, NEW row \in Rows, row.url \in Urls \ touched
  PROVE  Leads(row.url, row.id)
<1>1. PICK p \in Places \ FreePlaces : row = rows[p]
  BY DEF Rows
<1>2. p \in PlacesOf(row.url)
  BY <1>1 DEF PlacesOf
<1>3. \A q \in PlacesOf(row.url) : q = p
  BY <1>2 DEF TInv, HashesMatchRows
<1> QED BY <1>1, <1>2, <1>3 DEF Leads

(* A thread goes on, with a source that leads to its id or is touched.     *)
LEMMA OpenerGoesOn ==
  ASSUME TInv, NEW o \in Openers, NEW to \in {Idle} \cup Asked \cup Chosen, Becomes(o, to),
         UNCHANGED <<rows, props, hashes, lookup, baseId, found, items, batch>>,
         touched \subseteq touched', touched' \subseteq Urls,
         \A url \in Urls \ touched' :
            to \in Chosen /\ to.source.url = url => Leads(url, to.source.id)
  PROVE  TInv'
<1>1. opening' = [opening EXCEPT ![o] = to] /\ opening' \in [Openers -> {Idle} \cup Asked \cup Chosen]
  BY DEF Becomes, TInv, TypeOK
<1>2. TypeOK'
  BY <1>1 DEF TInv, TypeOK
<1>3. \A url : PlacesOf(url)' = PlacesOf(url)
  BY DEF PlacesOf, FreePlaces
<1>4. \A url, id : Leads(url, id)' <=> Leads(url, id)
  BY <1>3 DEF Leads
<1>5. HashesMatchRows'
  BY <1>3 DEF TInv, HashesMatchRows
<1>6. ObjectsLead'
  BY <1>4 DEF TInv, ObjectsLead
<1>7. OpeningsLead'
  <2> SUFFICES ASSUME NEW t \in Openers, NEW url \in Urls \ touched', HasSource(t)',
                      opening'[t].source.url = url
               PROVE  Leads(url, opening'[t].source.id)
    BY <1>4 DEF OpeningsLead
  <2>1. CASE t = o
    <3>1. opening'[t] = to /\ to.step \in {"selected", "create"}
      BY <1>1, <2>1 DEF HasSource, TInv, TypeOK
    <3>2. to \in Chosen
      BY <3>1 DEF Idle, Asked
    <3> QED BY <3>1, <3>2
  <2>2. CASE t # o
    <3>1. opening'[t] = opening[t]
      BY <1>1, <2>2 DEF TInv, TypeOK
    <3>2. HasSource(t)
      BY <3>1 DEF HasSource
    <3> QED BY <3>1, <3>2 DEF TInv, OpeningsLead
  <2> QED BY <2>1, <2>2
<1> QED BY <1>2, <1>5, <1>6, <1>7 DEF TInv, OneOfEach

LEMMA ChooseRow ==
  ASSUME TInv, NEW o \in Openers, NEW row \in Rows, Choose(o, SourceOf(row)),
         UNCHANGED <<rows, props, hashes, lookup, baseId, found, items, batch, touched>>
  PROVE  TInv'
<1> DEFINE to == [step |-> "selected", source |-> SourceOf(row)]
<1>1. row \in Row
  BY InPlaces DEF TInv, TypeOK
<1>2. /\ SourceOf(row) \in Source /\ SourceOf(row).url # NoUrl
      /\ SourceOf(row).url = row.url /\ SourceOf(row).id = row.id
  BY <1>1, UrlsAssumption DEF SourceOf, Source, Row
<1>3. to \in Chosen /\ to.source = SourceOf(row) /\ Becomes(o, to)
  BY <1>2 DEF Chosen, Choose
<1>4. \A url \in Urls \ touched' : to.source.url = url => Leads(url, to.source.id)
  BY <1>2, <1>3, RowLeads
<1> HIDE DEF to
<1> QED BY <1>3, <1>4, OpenerGoesOn DEF TInv, TypeOK

LEMMA TakeResourceTInv ==
  ASSUME TInv, NEW o \in Openers, NEW resource \in Row, TakeResource(o, resource),
         UNCHANGED <<rows, props, hashes, lookup, baseId, found, items, batch>>
  PROVE  TInv'
<1>1. PICK env \in BOOLEAN : Choose(o, [id |-> resource.id, url |-> resource.url, env |-> env])
  BY DEF TakeResource
<1> DEFINE source == [id |-> resource.id, url |-> resource.url, env |-> env]
           to == [step |-> "selected", source |-> source]
<1>2. source \in Source /\ source.url # NoUrl /\ source.url = resource.url /\ resource.url \in Urls
  BY UrlsAssumption DEF Source, Row
<1>3. to \in Chosen /\ to.source = source /\ Becomes(o, to)
  BY <1>1, <1>2 DEF Chosen, Choose
<1>4. touched' = touched \cup {resource.url}
  BY DEF TakeResource
<1>5. touched \subseteq touched' /\ touched' \subseteq Urls /\ to.source.url \in touched'
  BY <1>2, <1>3, <1>4 DEF TInv, TypeOK
<1> HIDE DEF to, source
<1> QED BY <1>3, <1>5, OpenerGoesOn

LEMMA SelectTInv ==
  ASSUME TInv, NEW o \in Openers, Select(o)
  PROVE  TInv'
BY ChooseRow DEF Select

LEMMA AskTInv ==
  ASSUME TInv, NEW o \in Openers, Ask(o)
  PROVE  TInv'
<1>0. UNCHANGED <<rows, props, hashes, lookup, baseId, found, items, batch>>
  BY DEF Ask
<1>1. PICK resource \in Row :
        \/ /\ \E row \in RowsOf(resource.url) :
                 Becomes(o, [step |-> "asked", id |-> row.id, resource |-> resource])
           /\ UNCHANGED touched
        \/ TakeResource(o, resource)
  BY DEF Ask, TInv, TypeOK
<1>2. CASE TakeResource(o, resource)
  BY <1>0, <1>2, TakeResourceTInv
<1>3. ASSUME NEW row \in RowsOf(resource.url), UNCHANGED touched,
             Becomes(o, [step |-> "asked", id |-> row.id, resource |-> resource])
      PROVE  TInv'
  <2> DEFINE to == [step |-> "asked", id |-> row.id, resource |-> resource]
  <2>1. row.id \in Ids
    BY InPlaces DEF RowsOf, Row, TInv, TypeOK
  <2>2. to \in Asked /\ to.step = "asked"
    BY <2>1 DEF Asked
  <2>3. to \notin Chosen
    BY <2>2 DEF Chosen
  <2>4. Becomes(o, to)
    BY <1>3
  <2> HIDE DEF to
  <2> QED BY <1>0, <1>3, <2>2, <2>3, <2>4, OpenerGoesOn DEF TInv, TypeOK
<1> QED BY <1>1, <1>2, <1>3

LEMMA SelectAskedTInv ==
  ASSUME TInv, NEW o \in Openers, SelectAsked(o)
  PROVE  TInv'
<1>1. /\ opening[o].step = "asked"
      /\ \/ (\E row \in Rows : Choose(o, SourceOf(row))) /\ UNCHANGED touched
         \/ TakeResource(o, opening[o].resource)
      /\ UNCHANGED <<rows, props, hashes, lookup, baseId, found, items, batch>>
  BY DEF SelectAsked
<1>2. CASE (\E row \in Rows : Choose(o, SourceOf(row))) /\ UNCHANGED touched
  BY <1>1, <1>2, ChooseRow
<1>3. CASE TakeResource(o, opening[o].resource)
  <2>1. opening[o] \in {Idle} \cup Asked \cup Chosen
    BY DEF TInv, TypeOK
  <2>2. opening[o].resource \in Row
    BY <1>1, <2>1 DEF Idle, Asked, Chosen
  <2> QED BY <1>1, <1>3, <2>2, TakeResourceTInv
<1> QED BY <1>1, <1>2, <1>3

LEMMA CheckRegisteredTInv ==
  ASSUME TInv, NEW o \in Openers, CheckRegistered(o)
  PROVE  TInv'
<1>1. /\ opening[o].step = "selected"
      /\ Becomes(o, IF opening[o].source.id \in DOMAIN lookup THEN Idle
                    ELSE [opening[o] EXCEPT !.step = "create"])
      /\ UNCHANGED <<rows, props, hashes, lookup, baseId, found, items, batch, touched>>
  BY DEF CheckRegistered
<1>2. touched \subseteq touched' /\ touched' \subseteq Urls
  BY <1>1 DEF TInv, TypeOK
<1>3. CASE Becomes(o, Idle)
  <2>1. Idle \notin Chosen
    BY DEF Idle, Chosen
  <2> QED BY <1>1, <1>2, <1>3, <2>1, OpenerGoesOn
<1>4. CASE Becomes(o, [opening[o] EXCEPT !.step = "create"])
  <2> DEFINE to == [opening[o] EXCEPT !.step = "create"]
  <2>1. HasSource(o)
    BY <1>1 DEF HasSource
  <2>2. opening[o] \in Chosen
    BY <2>1, SourcesAre DEF TInv
  <2>3. to \in Chosen /\ to.source = opening[o].source
    BY <2>2 DEF Chosen
  <2>4. \A url \in Urls \ touched' : to.source.url = url => Leads(url, to.source.id)
    BY <1>1, <2>1, <2>3 DEF TInv, OpeningsLead
  <2>5. Becomes(o, to)
    BY <1>4
  <2> HIDE DEF to
  <2> QED BY <1>1, <1>2, <2>3, <2>4, <2>5, OpenerGoesOn
<1> QED BY <1>1, <1>3, <1>4

LEMMA FailToCreateTInv ==
  ASSUME TInv, NEW o \in Openers, FailToCreate(o)
  PROVE  TInv'
<1>1. Idle \notin Chosen
  BY DEF Idle, Chosen
<1> QED BY <1>1, OpenerGoesOn DEF FailToCreate, TInv, TypeOK

LEMMA RegisterObjectTInv ==
  ASSUME TInv, NEW o \in Openers, registerObject(o)
  PROVE  TInv'
<1> DEFINE source == opening[o].source
           url == source.url
<1>1. /\ HasSource(o)
      /\ addItems({RowOf(source)})
      /\ lookup' = Register(lookup, source)
      /\ opening' = [opening EXCEPT ![o] = Idle]
      /\ UNCHANGED <<props, baseId, found, items, batch>>
  BY DEF registerObject, HasSource, Becomes
<1>2. source \in Source /\ url \in Urls /\ source.id \in Ids
  BY <1>1, SourcesAre DEF TInv
<1>3. RowOf(source) \in Row /\ RowOf(source).id = source.id /\ RowOf(source).url = url
  BY <1>2 DEF Row, RowOf
<1>4. {RowOf(source)} \in SUBSET Row /\ OneOfEach({RowOf(source)})
  BY <1>3 DEF OneOfEach
<1>5. url \notin touched => Leads(url, source.id)
  BY <1>1, <1>2 DEF TInv, OpeningsLead
<1>6. /\ DOMAIN lookup' = DOMAIN lookup \cup {source.id}
      /\ \A id \in DOMAIN lookup' : lookup'[id] = IF id = source.id THEN source ELSE lookup[id]
  BY <1>1 DEF Register
<1> HIDE DEF source
<1>7. /\ rows' \in [Places -> Row \cup {Free}]
      /\ hashes' \subseteq Urls /\ touched' \subseteq Urls /\ touched \subseteq touched'
      /\ Keeps(Ids)
  BY <1>1, <1>4, AddKeeps DEF TInv
<1>8. HashesMatchRows'
  BY <1>7 DEF Keeps, HashesMatchRows, Fits
<1>9. ObjectsLead'
  <2> SUFFICES ASSUME NEW id \in DOMAIN lookup', NEW u \in Urls \ touched', lookup'[id].url = u
               PROVE  Leads(u, id)'
    BY DEF ObjectsLead
  <2>1. CASE id = source.id
    BY <2>1, <1>2, <1>5, <1>6, <1>7 DEF Keeps
  <2>2. CASE id # source.id
    <3>1. lookup'[id] = lookup[id] /\ id \in DOMAIN lookup /\ id \in Ids
      BY <2>2, <1>6 DEF TInv, TypeOK
    <3>2. Leads(u, id)
      BY <3>1, <1>7 DEF TInv, ObjectsLead
    <3> QED BY <3>1, <3>2, <1>7 DEF Keeps
  <2> QED BY <2>1, <2>2
<1>10. OpeningsLead'
  <2> SUFFICES ASSUME NEW t \in Openers, NEW u \in Urls \ touched', HasSource(t)',
                      opening'[t].source.url = u
               PROVE  Leads(u, opening[t].source.id)'
    BY DEF OpeningsLead
  <2>1. opening'[t] = opening[t] /\ HasSource(t)
    BY <1>1 DEF HasSource, Idle, TInv, TypeOK
  <2>2. opening[t].source.id \in Ids
    BY <2>1, SourcesAre DEF TInv
  <2>3. Leads(u, opening[t].source.id)
    BY <2>1, <1>7 DEF TInv, OpeningsLead
  <2> QED BY <2>1, <2>2, <2>3, <1>7 DEF Keeps
<1>11. TypeOK'
  <2>1. \A id \in DOMAIN lookup' : lookup'[id] \in Source /\ lookup'[id].id = id /\ id \in Ids
    BY <1>2, <1>6 DEF TInv, TypeOK
  <2>2. opening' \in [Openers -> {Idle} \cup Asked \cup Chosen]
    BY <1>1 DEF TInv, TypeOK
  <2> QED BY <2>1, <2>2, <1>1, <1>7 DEF TInv, TypeOK
<1> QED BY <1>1, <1>8, <1>9, <1>10, <1>11 DEF TInv, OneOfEach

LEMMA NewObjectTInv ==
  ASSUME TInv, NewObject
  PROVE  TInv'
<1> DEFINE source == [id |-> baseId, url |-> NoUrl, env |-> FALSE]
<1>1. /\ baseId < MaxId /\ baseId' = baseId + 1
      /\ lookup' = Register(lookup, source)
      /\ UNCHANGED <<rows, props, hashes, found, items, batch, opening, touched>>
  BY DEF NewObject
<1>2. baseId \in Ids /\ baseId' \in 0 .. MaxId
  BY <1>1, BoundAssumption DEF TInv, TypeOK, Ids
<1>3. source \in Source /\ source.id = baseId /\ source.url = NoUrl
  BY <1>2 DEF Source
<1>4. /\ DOMAIN lookup' = DOMAIN lookup \cup {baseId}
      /\ \A id \in DOMAIN lookup' : lookup'[id] = IF id = baseId THEN source ELSE lookup[id]
  BY <1>1, <1>3 DEF Register
<1> HIDE DEF source
<1>5. TypeOK'
  <2>1. \A id \in DOMAIN lookup' : lookup'[id] \in Source /\ lookup'[id].id = id /\ id \in Ids
    BY <1>2, <1>3, <1>4 DEF TInv, TypeOK
  <2> QED BY <2>1, <1>1, <1>2 DEF TInv, TypeOK
<1>6. HashesMatchRows'
  BY <1>1 DEF TInv, HashesMatchRows, PlacesOf, FreePlaces
<1>7. ObjectsLead'
  BY <1>1, <1>3, <1>4, UrlsAssumption DEF TInv, ObjectsLead, Leads, PlacesOf, FreePlaces
<1>8. OpeningsLead'
  BY <1>1 DEF TInv, OpeningsLead, HasSource, Leads, PlacesOf, FreePlaces
<1> QED BY <1>1, <1>5, <1>6, <1>7, <1>8 DEF TInv, OneOfEach

LEMMA RenameTInv ==
  ASSUME TInv, NEW id \in Ids, NEW url \in Urls, Rename(id, url)
  PROVE  TInv'
<1> DEFINE source == [lookup[id] EXCEPT !.url = url]
<1>1. /\ id \in DOMAIN lookup
      /\ lookup' = [lookup EXCEPT ![id] = source]
      /\ \/ ~contains(url) /\ addItems({RowOf(source)})
         \/ /\ touched' = touched \cup ({lookup[id].url, url} \ {NoUrl})
            /\ UNCHANGED <<rows, hashes>>
      /\ UNCHANGED <<props, baseId, found, items, batch, opening>>
  BY DEF Rename
<1>2. lookup[id] \in Source /\ lookup[id].id = id
  BY <1>1 DEF TInv, TypeOK
<1>3. source \in Source /\ source.id = id /\ source.url = url
  BY <1>2 DEF Source
<1>4. RowOf(source) \in Row /\ RowOf(source).id = id /\ RowOf(source).url = url
  BY <1>3 DEF Row, RowOf
<1>5. /\ DOMAIN lookup' = DOMAIN lookup
      /\ \A i \in DOMAIN lookup : lookup'[i] = IF i = id THEN source ELSE lookup[i]
  BY <1>1
<1> HIDE DEF source
<1>6. /\ rows' \in [Places -> Row \cup {Free}]
      /\ hashes' \subseteq Urls /\ touched' \subseteq Urls /\ touched \subseteq touched'
      /\ Keeps(Ids)
      /\ url \notin touched' => Leads(url, id)'
  <2>1. CASE ~contains(url) /\ addItems({RowOf(source)})
    <3>1. {RowOf(source)} \in SUBSET Row /\ OneOfEach({RowOf(source)})
      BY <1>4 DEF OneOfEach
    <3> QED BY <2>1, <3>1, <1>4, AddKeeps DEF TInv
  <2>2. CASE /\ touched' = touched \cup ({lookup[id].url, url} \ {NoUrl})
             /\ UNCHANGED <<rows, hashes>>
    <3>1. url \in touched' /\ touched \subseteq touched' /\ touched' \subseteq Urls
      BY <2>2, <1>2, UrlsAssumption DEF Source, TInv, TypeOK
    <3>2. Keeps(Ids)
      BY <2>2, <3>1 DEF Keeps, TInv, HashesMatchRows, Fits, Leads, PlacesOf, FreePlaces
    <3> QED BY <2>2, <3>1, <3>2 DEF TInv, TypeOK
  <2> QED BY <2>1, <2>2, <1>1
<1>7. HashesMatchRows'
  BY <1>6 DEF Keeps, HashesMatchRows, Fits
<1>8. ObjectsLead'
  <2> SUFFICES ASSUME NEW i \in DOMAIN lookup', NEW u \in Urls \ touched', lookup'[i].url = u
               PROVE  Leads(u, i)'
    BY DEF ObjectsLead
  <2>1. CASE i = id
    BY <2>1, <1>3, <1>5, <1>6
  <2>2. CASE i # id
    <3>1. lookup'[i] = lookup[i] /\ i \in Ids /\ i \in DOMAIN lookup
      BY <2>2, <1>5 DEF TInv, TypeOK
    <3>2. Leads(u, i)
      BY <3>1, <1>6 DEF TInv, ObjectsLead
    <3> QED BY <3>1, <3>2, <1>6 DEF Keeps
  <2> QED BY <2>1, <2>2
<1>9. TypeOK'
  <2>1. \A i \in DOMAIN lookup' : lookup'[i] \in Source /\ lookup'[i].id = i /\ i \in Ids
    BY <1>3, <1>5 DEF TInv, TypeOK
  <2> QED BY <2>1, <1>1, <1>6 DEF TInv, TypeOK
<1>10. OpeningsLead'
  <2> SUFFICES ASSUME NEW t \in Openers, NEW u \in Urls \ touched', HasSource(t)',
                      opening'[t].source.url = u
               PROVE  Leads(u, opening[t].source.id)'
    BY DEF OpeningsLead
  <2>1. opening'[t] = opening[t] /\ HasSource(t)
    BY <1>1 DEF HasSource
  <2>2. opening[t].source.id \in Ids
    BY <2>1, SourcesAre DEF TInv
  <2>3. Leads(u, opening[t].source.id)
    BY <2>1, <1>6 DEF TInv, OpeningsLead
  <2> QED BY <2>1, <2>2, <2>3, <1>6 DEF Keeps
<1> QED BY <1>1, <1>7, <1>8, <1>9, <1>10 DEF TInv, OneOfEach

LEMMA UpdateObjectTInv ==
  ASSUME TInv, NEW id \in Ids, UpdateObject(id)
  PROVE  TInv'
<1>1. PICK with : updateItems({RowOf(lookup[id])}, with)
  BY DEF UpdateObject
<1>2. {RowOf(lookup[id])} \in SUBSET Row
  <2>1. lookup[id] \in Source /\ lookup[id].url # NoUrl
    BY DEF TInv, TypeOK, UpdateObject
  <2> QED BY <2>1 DEF Source, Row, RowOf
<1>3. TableTypes' /\ touched \subseteq touched' /\ Keeps(Ids)
  BY <1>1, <1>2, UpdateKeeps DEF TInv
<1>4. UNCHANGED <<lookup, baseId, found, items, batch, opening>>
  BY DEF UpdateObject
<1>5. HashesMatchRows' /\ ObjectsLead' /\ OpeningsLead'
  BY <1>3, <1>4, KeepsLess, KeptTogether DEF TInv
<1>6. TypeOK'
  BY <1>3, <1>4 DEF TInv, TypeOK, TableTypes
<1> QED BY <1>4, <1>5, <1>6 DEF TInv, OneOfEach

LEMMA UnregisterTInv ==
  ASSUME TInv, NEW id \in Ids, unregister(id)
  PROVE  TInv'
<1>1. /\ UNCHANGED <<rows, props, hashes, baseId, found, items, batch, opening, touched>>
      /\ DOMAIN lookup' \subseteq DOMAIN lookup
      /\ \A i \in DOMAIN lookup' : lookup'[i] = lookup[i]
  BY DEF unregister, Restrict
<1>2. TypeOK'
  BY <1>1 DEF TInv, TypeOK
<1>3. HashesMatchRows' /\ ObjectsLead' /\ OpeningsLead'
  BY <1>1 DEF TInv, HashesMatchRows, ObjectsLead, OpeningsLead, HasSource, Leads, PlacesOf, FreePlaces
<1> QED BY <1>1, <1>2, <1>3 DEF TInv, OneOfEach

LEMMA NextTInv == TInv /\ [Next]_vars => TInv'
<1> SUFFICES ASSUME TInv, [Next]_vars PROVE TInv'
  OBVIOUS
<1>1. CASE Next
  BY <1>1, FindTInv, AddFoundTInv, RefreshTInv, SelectAllTInv, WriteEnvelopesTInv, SelectTInv,
     AskTInv, SelectAskedTInv, CheckRegisteredTInv, FailToCreateTInv, RegisterObjectTInv,
     NewObjectTInv, RenameTInv, UpdateObjectTInv, UnregisterTInv DEF Next
<1>2. CASE UNCHANGED vars
  <2>1. TypeOK'
    BY <1>2 DEF TInv, TypeOK, vars
  <2>2. HashesMatchRows' /\ ObjectsLead' /\ OpeningsLead'
    BY <1>2, SameTables DEF vars
  <2> QED BY <1>2, <2>1, <2>2 DEF TInv, OneOfEach, vars
<1> QED BY <1>1, <1>2

LEMMA TInvAlways == Spec => []TInv
BY InitTInv, NextTInv, PTL DEF Spec

-----------------------------------------------------------------------------
(* The tables, the hashes and the objects in use stay well formed; so do   *)
(* the lists that a scan, a catalog and the worker keep meanwhile          *)
(* (mastercatalog.cpp).                                                    *)
THEOREM TablesAreTyped == Spec => []TypeOK
<1>1. TInv => TypeOK
  BY DEF TInv
<1> QED BY <1>1, TInvAlways, PTL

(* Scans, refreshes by an old list, updates by an old selection and        *)
(* statements that fail halfway through a list leave the hash and the one  *)
(* row of every other url together (mastercatalog.cpp: addItems(),         *)
(* removeItems(), updateItems()).                                          *)
THEOREM OtherUrlsStayTogether == Spec => []HashesMatchRows
<1>1. TInv => HashesMatchRows
  BY DEF TInv
<1> QED BY <1>1, TInvAlways, PTL

(* The url of an object in use leads to the row with the id under which    *)
(* the object is registered (mastercatalog.cpp: registerObject()), also    *)
(* when other threads run between the steps in which prepare() selects the *)
(* row, tests for an object, creates one and registers it (ilwisdata.h).   *)
(* It does not say so of the urls to which something happened: a failed    *)
(* statement, a renaming, the removal of the row while its object is in    *)
(* use or being opened, or an object opened without a row.                 *)
THEOREM UrlsLeadToObjects == Spec => []ObjectsAreFound
<1>1. TInv => ObjectsAreFound
  BY LeadsTo DEF TInv, ObjectsLead, ObjectsAreFound
<1> QED BY <1>1, TInvAlways, PTL
=============================================================================

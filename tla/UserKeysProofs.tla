--------------------------- MODULE UserKeysProofs ---------------------------
(***************************************************************************)
(* What "up to date" means in the key cache, for any devices, histories    *)
(* and callers: updateUserKeys compares tokens, never lists, and still     *)
(* does not take an old list for a new one, because a token says at least  *)
(* how old a list may be.  Without the requests of SendOlm, that is, which *)
(* are stored under a token that says nothing.                             *)
(***************************************************************************)
EXTENDS UserKeys, TLAPS

Entry  == [list : List, exists : BOOLEAN, updated : Nat, changed : Nat,
           ids : SUBSET Devices, keys : SUBSET Keys]
Asked  == [kind : {"mark", "call"}, tag : Nat, caller : Callers \cup {0}, version : Nat]
Posted == [kind : {"update", "finalize", "delete"}, tag : Nat, version : Nat,
           to : SUBSET Callers]

ListTypeOK ==
  /\ entry \in Entry /\ token \in Nat \ {0}
  /\ requests \subseteq Asked /\ queue \in Seq(Posted)
  /\ waiting \subseteq Callers
  /\ versions \in Seq(List) /\ now \in 1 .. Len(versions)
  /\ {told, of, due} \subseteq Nat

Posts == {queue[i] : i \in DOMAIN queue}

\* A list that was fetched for a token is as new as what was known with the
\* token, and a list fetched for the last change as new as that change.
NewEnough(x) ==
  /\ x.version <= now /\ x.tag <= token
  /\ x.version # 0 /\ x.tag = token => x.version >= told
  /\ x.version # 0 /\ x.tag = entry.changed /\ entry.changed # 0 => x.version >= due

FreshInv ==
  /\ due <= told /\ told <= now
  /\ entry.changed <= token /\ entry.updated <= token
  /\ ~entry.exists => entry.changed = 0
  /\ \A r \in requests : NewEnough(r)
  /\ \A p \in Posts : p.kind = "update" => p.version # 0 /\ NewEnough(p)
  /\ entry.updated = token => of >= told
  /\ entry.changed # 0 /\ entry.updated = entry.changed => of >= due

IInv == ~May("send") => ListTypeOK /\ FreshInv

------------------------------------------------------------------------------

LEMMA InitIInv == Init => IInv
<1> SUFFICES ASSUME Init, ~May("send") PROVE ListTypeOK /\ FreshInv
  BY DEF IInv
<1>1. /\ versions \in Histories /\ now = 1 /\ token = 1 /\ told = 1 /\ of = 0
      /\ queue = <<>> /\ waiting = {}
  BY DEF Init
<1>2. versions \in Seq(List) /\ versions # <<>>
  BY <1>1, UserKeysOK DEF List
<1>3. now \in 1 .. Len(versions)
  BY <1>1, <1>2
<1>4. Posts = {} /\ queue \in Seq(Posted)
  BY <1>1 DEF Posts
<1>5. Unknown \in Entry
  BY DEF Unknown, Entry, NoList, List
<1>6. \/ entry = Unknown /\ requests = {} /\ due = 0
      \/ /\ entry = [Unknown EXCEPT !.exists = TRUE, !.changed = 1]
         /\ requests = Fetch("mark", 1, 0) /\ due = 1
  BY DEF Init
<1>7. /\ entry \in Entry /\ entry.updated = 0 /\ entry.changed \in {0, 1}
      /\ ~entry.exists => entry.changed = 0
      /\ requests \subseteq Asked /\ due \in {0, 1}
      /\ \A r \in requests : r.version = 0 /\ r.tag = 1
  <2>1. CASE entry = Unknown /\ requests = {} /\ due = 0
    BY <1>5, <2>1 DEF Unknown
  <2>2. CASE /\ entry = [Unknown EXCEPT !.exists = TRUE, !.changed = 1]
             /\ requests = Fetch("mark", 1, 0) /\ due = 1
    <3>1. entry \in Entry /\ entry.updated = 0 /\ entry.changed = 1 /\ entry.exists
      BY <1>5, <2>2 DEF Entry, Unknown
    <3>2. requests = {[kind |-> "mark", tag |-> 1, caller |-> 0, version |-> 0]}
      BY <2>2 DEF Fetch
    <3>3. requests \subseteq Asked /\ \A r \in requests : r.version = 0 /\ r.tag = 1
      BY <3>2 DEF Asked
    <3>4. QED
      BY <2>2, <3>1, <3>3
  <2>3. QED
    BY <1>6, <2>1, <2>2
<1>8. ListTypeOK
  BY <1>1, <1>2, <1>3, <1>4, <1>7 DEF ListTypeOK
<1>9. FreshInv
  BY <1>1, <1>4, <1>7 DEF FreshInv, NewEnough
<1>10. QED
  BY <1>8, <1>9

\* Steps that ask nothing, store nothing and post nothing but signals.
LEMMA AsideKeeps ==
  ASSUME ListTypeOK, FreshInv, UNCHANGED <<entry, token, versions, now, told, of, due>>,
         requests' \subseteq requests, queue' \in Seq(Posted), waiting' \subseteq Callers,
         \A p \in Posts' : p.kind = "update" => p \in Posts
  PROVE  ListTypeOK' /\ FreshInv'
<1>1. ListTypeOK'
  BY DEF ListTypeOK
<1>2. \A x : NewEnough(x) => NewEnough(x)'
  BY DEF NewEnough
<1>3. FreshInv'
  BY <1>2 DEF FreshInv
<1>4. QED
  BY <1>1, <1>3

\* A request that was not served yet keeps all promises.
LEMMA AskKeeps ==
  ASSUME ListTypeOK, FreshInv,
         UNCHANGED <<entry, token, versions, now, told, of, due, queue>>, waiting' \subseteq Callers,
         NEW kind \in {"mark", "call"}, NEW tag \in Nat, tag <= token, NEW c \in Callers \cup {0},
         requests' = requests \cup Fetch(kind, tag, c)
  PROVE  ListTypeOK' /\ FreshInv'
<1> DEFINE new == [kind |-> kind, tag |-> tag, caller |-> c, version |-> 0]
<1>1. requests' = requests \cup {new} /\ new \in Asked /\ new.version = 0 /\ new.tag = tag
  BY DEF Fetch, Asked
<1> HIDE DEF new
<1>2. ListTypeOK'
  BY <1>1 DEF ListTypeOK
<1>3. NewEnough(new)
  BY <1>1 DEF NewEnough, ListTypeOK
<1>4. \A x : NewEnough(x) => NewEnough(x)'
  BY DEF NewEnough
<1>5. FreshInv'
  BY <1>1, <1>3, <1>4 DEF FreshInv, Posts
<1>6. QED
  BY <1>2, <1>5

\* Marking the user for the present token; told is then what is due.
LEMMA MarkKeeps ==
  ASSUME ListTypeOK, FreshInv, UNCHANGED <<versions, now, of, queue, waiting>>,
         \/ token' = token + 1 /\ told' = now
         \/ token' = token /\ told' = told,
         Mark(token', told', requests)
  PROVE  ListTypeOK' /\ FreshInv'
<1> PICK new : new = [kind |-> "mark", tag |-> token', caller |-> 0, version |-> 0]
  OBVIOUS
<1>1. /\ entry' = [entry EXCEPT !.exists = TRUE, !.changed = token']
      /\ due' = told' /\ requests' = requests \cup {new}
  BY DEF Mark, Fetch
<1>2. /\ entry \in Entry /\ token \in Nat \ {0} /\ now \in Nat /\ told \in Nat /\ of \in Nat
      /\ due \in Nat /\ due <= told /\ told <= now
      /\ entry.updated \in Nat /\ entry.updated <= token /\ entry.changed <= token
      /\ entry.updated = token => of >= told
  BY DEF ListTypeOK, FreshInv, Entry
<1>3. token' \in Nat \ {0} /\ told' \in Nat /\ told' <= now
  BY <1>2
<1>4. /\ entry' \in Entry /\ entry'.exists /\ entry'.changed = token'
      /\ entry'.updated = entry.updated
  BY <1>1, <1>2, <1>3 DEF Entry
<1>5. new \in Asked /\ new.version = 0 /\ new.tag = token'
  BY <1>3 DEF Asked
<1>6. ListTypeOK'
  BY <1>1, <1>3, <1>4, <1>5 DEF ListTypeOK
<1>7. ASSUME NEW x, x.tag \in Nat, x.version \in Nat, NewEnough(x)
      PROVE  NewEnough(x)'
  BY <1>1, <1>2, <1>3, <1>4, <1>7 DEF NewEnough
<1>8. NewEnough(new)'
  BY <1>2, <1>3, <1>5 DEF NewEnough
<1>9. \A r \in requests' : NewEnough(r)'
  <2>1. SUFFICES ASSUME NEW r \in requests PROVE NewEnough(r)'
    BY <1>1, <1>8
  <2>2. r.tag \in Nat /\ r.version \in Nat /\ NewEnough(r)
    BY DEF ListTypeOK, Asked, FreshInv
  <2>3. QED
    BY <1>7, <2>2
<1>10. \A p \in Posts' : p.kind = "update" => p.version # 0 /\ NewEnough(p)'
  <2>1. SUFFICES ASSUME NEW p \in Posts, p.kind = "update" PROVE p.version # 0 /\ NewEnough(p)'
    BY DEF Posts
  <2>2. p \in Posted
    BY DEF Posts, ListTypeOK
  <2>3. p.tag \in Nat /\ p.version \in Nat /\ NewEnough(p) /\ p.version # 0
    BY <2>1, <2>2 DEF Posted, FreshInv
  <2>4. QED
    BY <1>7, <2>3
<1>11. (entry'.updated = token' => of >= told') /\ due' <= told'
  BY <1>1, <1>2, <1>3, <1>4
<1>12. FreshInv'
  BY <1>1, <1>2, <1>3, <1>4, <1>9, <1>10, <1>11 DEF FreshInv
<1>13. QED
  BY <1>6, <1>12

\* updateUserKeys: either nothing, or the list of a version and its token.
LEMMA StoreKeeps ==
  ASSUME ListTypeOK, FreshInv, NEW version \in Nat, NEW tag \in Nat,
         version # 0, version <= now, Store(version, tag)
  PROVE  \/ UNCHANGED <<entry, of>>
         \/ /\ entry' \in Entry /\ entry'.exists /\ of' = version
            /\ entry'.updated = tag /\ entry'.changed = entry.changed
            /\ entry.changed # 0 => tag = entry.changed
<1>1. CASE UNCHANGED <<entry, of>>
  BY <1>1
<1>2. CASE (~entry.exists \/ Wanted(tag)) /\ entry' = Updated(versions[version], tag) /\ of' = version
  <2> PICK l : l = versions[version]
    OBVIOUS
  <2>1. l \in List /\ entry \in Entry
    BY DEF ListTypeOK
  <2>2. Listed(l) \subseteq Devices /\ \A d \in Listed(l) : l[d] \in Keys
    BY <2>1 DEF Listed, List
  <2>3. Unknown \in Entry /\ Unknown.changed = 0
    BY DEF Unknown, Entry, NoList, List
  <2>4. CASE ~entry.exists
    <3>1. entry' = [Unknown EXCEPT !.list = l, !.exists = TRUE, !.updated = tag]
      BY <1>2, <2>4 DEF Updated
    <3>2. entry' \in Entry /\ entry'.exists /\ entry'.updated = tag /\ entry'.changed = 0
      BY <2>1, <2>3, <3>1 DEF Entry
    <3>3. entry.changed = 0
      BY <2>4 DEF FreshInv
    <3>4. QED
      BY <1>2, <3>2, <3>3
  <2>5. CASE entry.exists
    <3> DEFINE kept == [d \in Devices |->
                          IF d \in Listed(l) /\ Accepted(l, d) THEN l[d] ELSE NoKey]
               more == {l[d] : d \in Listed(l)}
    <3>1. kept \in List /\ more \subseteq Keys
      BY <2>1, <2>2 DEF List
    <3>2. entry' = [entry EXCEPT !.list = kept, !.ids = @ \cup Listed(l), !.keys = @ \cup more,
                                 !.updated = tag]
      BY <1>2, <2>5 DEF Updated
    <3> HIDE DEF kept, more
    <3>3. entry' \in Entry /\ entry'.exists /\ entry'.updated = tag
          /\ entry'.changed = entry.changed
      BY <2>1, <2>2, <2>5, <3>1, <3>2 DEF Entry
    <3>4. entry.changed # 0 => tag = entry.changed
      BY <1>2, <2>5 DEF Wanted
    <3>5. QED
      BY <1>2, <3>3, <3>4
  <2>6. QED
    BY <2>1, <2>4, <2>5 DEF Entry
<1>3. QED
  BY <1>1, <1>2 DEF Store

\* The first of the queue.
LEMMA HeadOfQueue ==
  ASSUME ListTypeOK, queue # <<>>
  PROVE  /\ Head(queue) \in Posted /\ Head(queue) \in Posts
         /\ Tail(queue) \in Seq(Posted) /\ Len(Tail(queue)) \in Nat
         /\ \A i \in DOMAIN Tail(queue) : Tail(queue)[i] \in Posts
<1>1. queue \in Seq(Posted)
  BY DEF ListTypeOK
<1>2. Head(queue) = queue[1] /\ 1 \in DOMAIN queue
  BY <1>1
<1>3. Tail(queue) \in Seq(Posted) /\ Len(Tail(queue)) = Len(queue) - 1
      /\ \A i \in DOMAIN Tail(queue) : i + 1 \in DOMAIN queue /\ Tail(queue)[i] = queue[i + 1]
  BY <1>1
<1>4. QED
  BY <1>1, <1>2, <1>3 DEF Posts

\* The token of an answer says how old its list may be.
LEMMA UserKeysUpdateKeeps ==
  ASSUME ListTypeOK, FreshInv, UserKeysUpdate PROVE ListTypeOK' /\ FreshInv'
<1> PICK p : p = Head(queue)
  OBVIOUS
<1>1. /\ queue # <<>> /\ p.kind = "update" /\ queue' = Tail(queue)
      /\ Store(p.version, p.tag)
      /\ UNCHANGED <<token, waiting, requests, versions, now, told, due>>
  BY DEF UserKeysUpdate, Next1, world
<1>2. p \in Posted /\ p \in Posts /\ queue' \in Seq(Posted) /\ Posts' \subseteq Posts
  BY <1>1, HeadOfQueue DEF Posts
<1>3. /\ p.version \in Nat /\ p.tag \in Nat /\ p.version # 0 /\ NewEnough(p)
      /\ p.version <= now /\ p.tag <= token
  BY <1>1, <1>2 DEF Posted, FreshInv, NewEnough
<1>4. CASE UNCHANGED <<entry, of>>
  BY <1>1, <1>2, <1>4, AsideKeeps DEF ListTypeOK
<1>5. CASE /\ entry' \in Entry /\ entry'.exists /\ of' = p.version
           /\ entry'.updated = p.tag /\ entry'.changed = entry.changed
           /\ entry.changed # 0 => p.tag = entry.changed
  <2>1. ListTypeOK'
    BY <1>1, <1>2, <1>3, <1>5 DEF ListTypeOK
  <2>2. \A x : NewEnough(x) => NewEnough(x)'
    BY <1>1, <1>5 DEF NewEnough
  <2>3. entry'.updated = token => of' >= told
    BY <1>3, <1>5 DEF NewEnough
  <2>4. entry'.changed # 0 /\ entry'.updated = entry'.changed => of' >= due
    BY <1>3, <1>5 DEF NewEnough
  <2>5. FreshInv'
    BY <1>1, <1>2, <1>3, <1>5, <2>2, <2>3, <2>4 DEF FreshInv
  <2>6. QED
    BY <2>1, <2>5
<1>6. QED
  BY <1>1, <1>3, <1>4, <1>5, StoreKeeps

\* A request is served with a list as new as what is known.
LEMMA ServeKeeps ==
  ASSUME ListTypeOK, FreshInv, NEW r, Serve(r) PROVE ListTypeOK' /\ FreshInv'
<1> PICK new : new = [r EXCEPT !.version = now]
  OBVIOUS
<1>1. /\ r \in requests /\ requests' = (requests \ {r}) \cup {new}
      /\ UNCHANGED <<entry, token, queue, waiting, versions, now, told, of, due>>
  BY DEF Serve, disk, world, history
<1>2. r \in Asked /\ now \in Nat /\ told \in Nat /\ due \in Nat /\ due <= told /\ told <= now
      /\ r.tag <= token
  BY <1>1 DEF ListTypeOK, FreshInv, NewEnough
<1>3. new \in Asked /\ new.version = now /\ new.tag = r.tag
  BY <1>2 DEF Asked
<1>4. NewEnough(new)
  BY <1>2, <1>3 DEF NewEnough
<1>5. ListTypeOK'
  BY <1>1, <1>3 DEF ListTypeOK
<1>6. \A x : NewEnough(x) => NewEnough(x)'
  BY <1>1 DEF NewEnough
<1>7. FreshInv'
  BY <1>1, <1>4, <1>6 DEF FreshInv, Posts
<1>8. QED
  BY <1>5, <1>7

\* An answer posts its list as it was served.
LEMMA AnsweredKeeps ==
  ASSUME ListTypeOK, FreshInv, NEW r, Answered(r) PROVE ListTypeOK' /\ FreshInv'
<1> PICK p : p = Update(r)
  OBVIOUS
<1> PICK f : f = Finalize
  OBVIOUS
<1>1. /\ r \in requests /\ r.version # 0 /\ requests' = requests \ {r}
      /\ queue' = Append(queue, p) \/ queue' = queue \o <<p, f>>
      /\ UNCHANGED <<entry, token, waiting, versions, now, told, of, due>>
  BY DEF Answered, disk, world, history
<1>2. r \in Asked /\ NewEnough(r) /\ waiting \subseteq Callers /\ queue \in Seq(Posted)
  BY <1>1 DEF ListTypeOK, FreshInv
<1>3. /\ p \in Posted /\ p.version = r.version /\ p.tag = r.tag
      /\ f \in Posted /\ f.kind = "finalize"
  BY <1>2 DEF Asked, Posted, Update, Finalize
<1>4. NewEnough(p)
  BY <1>2, <1>3 DEF NewEnough
<1>5. queue' \in Seq(Posted) /\ \A q \in Posts' : q \in Posts \/ q = p \/ q = f
  <2>1. CASE queue' = Append(queue, p)
    BY <1>2, <1>3, <2>1 DEF Posts
  <2>2. CASE queue' = queue \o <<p, f>>
    <3>1. <<p, f>> \in Seq(Posted) /\ Len(<<p, f>>) = 2 /\ <<p, f>>[1] = p /\ <<p, f>>[2] = f
      BY <1>3
    <3>2. \A i \in DOMAIN queue' : i \in DOMAIN queue \/ i = Len(queue) + 1 \/ i = Len(queue) + 2
      BY <1>2, <2>2, <3>1
    <3>3. /\ \A i \in DOMAIN queue : queue'[i] = queue[i]
          /\ queue'[Len(queue) + 1] = p /\ queue'[Len(queue) + 2] = f
      BY <1>2, <2>2, <3>1
    <3>4. queue' \in Seq(Posted)
      BY <1>2, <2>2, <3>1
    <3>5. QED
      BY <3>2, <3>3, <3>4 DEF Posts
  <2>3. QED
    BY <1>1, <2>1, <2>2
<1>6. ListTypeOK'
  BY <1>1, <1>5 DEF ListTypeOK
<1>7. \A x : NewEnough(x) => NewEnough(x)'
  BY <1>1 DEF NewEnough
<1>8. FreshInv'
  BY <1>1, <1>3, <1>4, <1>5, <1>7 DEF FreshInv
<1>9. QED
  BY <1>6, <1>8

\* A caller's slot: what is posted is no list.
LEMMA FinalizedKeeps ==
  ASSUME ListTypeOK, FreshInv, Finalized PROVE ListTypeOK' /\ FreshInv'
<1> PICK d : d = Delete(Head(queue).to \cap waiting)
  OBVIOUS
<1>1. /\ queue # <<>> /\ queue' = Append(Tail(queue), d)
      /\ UNCHANGED <<entry, token, waiting, requests, versions, now, told, of, due>>
  BY DEF Finalized, Next1, disk, world
<1>2. d \in Posted /\ d.kind = "delete"
  BY DEF ListTypeOK, Delete, Posted
<1>3. queue' \in Seq(Posted) /\ \A p \in Posts' : p \in Posts \/ p = d
  BY <1>1, <1>2, HeadOfQueue DEF Posts
<1>4. QED
  BY <1>1, <1>2, <1>3, AsideKeeps DEF ListTypeOK

LEMMA DeletedKeeps ==
  ASSUME ListTypeOK, FreshInv, Deleted PROVE ListTypeOK' /\ FreshInv'
<1>1. /\ queue # <<>> /\ queue' = Tail(queue) /\ waiting' \subseteq waiting
      /\ UNCHANGED <<entry, token, requests, versions, now, told, of, due>>
  BY DEF Deleted, Next1, disk, world, history
<1>2. queue' \in Seq(Posted) /\ Posts' \subseteq Posts
  BY <1>1, HeadOfQueue DEF Posts
<1>3. QED
  BY <1>1, <1>2, AsideKeeps DEF ListTypeOK

\* What is posted holds numbers.
LEMMA PostedNumbers ==
  ASSUME ListTypeOK PROVE \A p \in Posts : p.tag \in Nat /\ p.version \in Nat
<1>1. SUFFICES ASSUME NEW p \in Posts PROVE p.tag \in Nat /\ p.version \in Nat
  OBVIOUS
<1>2. p \in Posted
  BY DEF Posts, ListTypeOK
<1>3. QED
  BY <1>2 DEF Posted

\* The server's list changes: what is known of it is as it was.
LEMMA ChangeKeeps ==
  ASSUME ListTypeOK, FreshInv, Change PROVE ListTypeOK' /\ FreshInv'
<1>1. /\ now < Len(versions) /\ now' = now + 1
      /\ UNCHANGED <<entry, token, requests, queue, waiting, versions, told, of, due>>
  BY DEF Change, disk, memory, history
<1>2. now \in Nat /\ told \in Nat /\ Len(versions) \in Nat
  BY DEF ListTypeOK
<1>3. ListTypeOK'
  BY <1>1, <1>2 DEF ListTypeOK
<1>4. ASSUME NEW x, x.version \in Nat, NewEnough(x) PROVE NewEnough(x)'
  BY <1>1, <1>2, <1>4 DEF NewEnough
<1>5. \A r \in requests : r.version \in Nat
  BY DEF ListTypeOK, Asked
<1>6. \A p \in Posts : p.version \in Nat
  BY PostedNumbers
<1>7. FreshInv'
  BY <1>1, <1>2, <1>4, <1>5, <1>6 DEF FreshInv, Posts
<1>8. QED
  BY <1>3, <1>7

------------------------------------------------------------------------------

\* saveState: the token moves, and the user is marked if its list changed.
LEMMA SyncKeeps ==
  ASSUME ListTypeOK, FreshInv, Sync PROVE ListTypeOK' /\ FreshInv'
<1>1. /\ token' = token + 1 /\ told' = now
      /\ UNCHANGED <<versions, now, of, queue, waiting>>
      /\ Mark(token', now, requests) \/ (told' = told /\ UNCHANGED <<entry, due, requests>>)
  <2>1. told' > told \/ told' = told
    BY DEF Sync, ListTypeOK, FreshInv
  <2>2. QED
    BY <2>1 DEF Sync
<1>2. CASE Mark(token', now, requests)
  BY <1>1, <1>2, MarkKeeps
<1>3. CASE told' = told /\ UNCHANGED <<entry, due, requests>>
  <2>1. token \in Nat \ {0} /\ told \in Nat /\ entry \in Entry /\ entry.updated <= token
        /\ entry.changed <= token
    BY DEF ListTypeOK, FreshInv
  <2>2. ListTypeOK'
    BY <1>1, <1>3, <2>1 DEF ListTypeOK
  <2>3. ASSUME NEW x, x.tag \in Nat, NewEnough(x) PROVE NewEnough(x)'
    BY <1>1, <1>3, <2>1, <2>3 DEF NewEnough
  <2>4. \A r \in requests : r.tag \in Nat
    BY DEF ListTypeOK, Asked
  <2>5. \A p \in Posts : p.tag \in Nat
    BY PostedNumbers
  <2>6. entry'.updated <= token' /\ entry'.changed <= token' /\ entry'.updated # token'
    BY <1>1, <1>3, <2>1 DEF Entry
  <2>7. FreshInv'
    BY <1>1, <1>3, <2>1, <2>3, <2>4, <2>5, <2>6 DEF FreshInv, Posts
  <2>8. QED
    BY <2>2, <2>7
<1>4. QED
  BY <1>1, <1>2, <1>3

LEMMA NextKeeps ==
  ASSUME ListTypeOK, FreshInv, ~May("send"), [Next]_vars PROVE ListTypeOK' /\ FreshInv'
<1> USE DEF disk, memory, world, history
<1>1. /\ queue \in Seq(Posted) /\ waiting \subseteq Callers /\ token \in Nat
      /\ entry.changed \in Nat /\ entry.changed <= token
      /\ \A r \in requests : r.kind # "send"
  BY DEF ListTypeOK, FreshInv, Entry, Asked
<1>2. CASE Refresh
  BY <1>2, MarkKeeps DEF Refresh
<1>3. CASE RoomStatus
  BY <1>1, <1>3, AskKeeps DEF RoomStatus
<1>4. ASSUME NEW c \in Callers, QueryKeys(c) PROVE ListTypeOK' /\ FreshInv'
  <2>1. CASE entry.exists /\ entry.updated = entry.changed
    BY <1>1, <1>4, <2>1, AsideKeeps DEF QueryKeys, Posts
  <2>2. CASE ~(entry.exists /\ entry.updated = entry.changed)
    BY <1>1, <1>4, <2>2, AskKeeps DEF QueryKeys
  <2>3. QED
    BY <2>1, <2>2
<1>5. CASE Erased
  BY <1>1, <1>5, AsideKeeps DEF Erased, Posts
<1>6. ASSUME NEW r, Failed(r) PROVE ListTypeOK' /\ FreshInv'
  BY <1>1, <1>6, AsideKeeps DEF Failed, Posts
<1>7. CASE Status
  BY <1>1, <1>7, AsideKeeps DEF Status, VerificationStatus, StatusBegin, StatusEnd, MarkVerified, Posts
<1>8. CASE UNCHANGED vars
  BY <1>1, <1>8, AsideKeeps DEF vars, Posts
<1>9. ~SendOlm /\ \A r \in requests : ~AnsweredSend(r)
  BY <1>1 DEF SendOlm, AnsweredSend
<1>10. QED
  BY <1>2, <1>3, <1>4, <1>5, <1>6, <1>7, <1>8, <1>9, SyncKeeps, ServeKeeps, AnsweredKeeps,
     UserKeysUpdateKeeps, FinalizedKeeps, DeletedKeeps, ChangeKeeps
     DEF Next, Asks, Network, Slots

\* The scenario stays what it was.
LEMMA EnvStays == [Next]_vars => env' = env
BY DEF Next, Asks, Network, Slots, Status, Sync, Refresh, RoomStatus, SendOlm, QueryKeys, Erased,
       Serve, Answered, AnsweredSend, Failed, UserKeysUpdate, Finalized, Deleted, MarkVerified,
       VerificationStatus, StatusBegin, StatusEnd, Change, vars, world

LEMMA NextIInv == ASSUME IInv, [Next]_vars PROVE IInv'
BY NextKeeps, EnvStays DEF IInv, May

\* The key cache: tokens say how old the lists on their way may be.
THEOREM ListsInvariance == Spec => []IInv
<1>1. Init => IInv
  BY InitIInv
<1>2. IInv /\ [Next]_vars => IInv'
  BY NextIInv
<1>3. QED
  BY <1>1, <1>2, PTL DEF Spec

\* updateUserKeys: an entry whose updated_at is its last_changed holds a list
\* at least as new as the last change that was announced.
THEOREM UpToDateIsNew == Spec => []UpToDateIsCurrent
<1>1. IInv => UpToDateIsCurrent
  BY DEF IInv, FreshInv, UpToDateIsCurrent
<1>2. QED
  BY <1>1, ListsInvariance, PTL

------------------------------------------------------------------------------
(* The verification status that is kept                                     *)

\* Where the list is stored on the main thread only, or its status erased
\* behind it, no status is under way while a list changes.
StatusInv ==
  /\ "list" \in DOMAIN entry
  /\ ~May("race") => reading = None
  /\ StatusIsCurrent

LEMMA InitStatus == Init => StatusInv
<1> SUFFICES ASSUME Init PROVE StatusInv
  OBVIOUS
<1>1. "list" \in DOMAIN Unknown
  BY DEF Unknown
<1>2. entry = Unknown \/ entry = [Unknown EXCEPT !.exists = TRUE, !.changed = 1]
  BY DEF Init
<1>3. "list" \in DOMAIN entry
  BY <1>1, <1>2
<1>4. QED
  BY <1>3 DEF Init, StatusInv, StatusIsCurrent

\* A step after which the entry, the devices the user verified and the status
\* are what they were, or the status is gone.
LEMMA StatusKeeps ==
  ASSUME StatusInv, UNCHANGED <<env, reading>>, "list" \in DOMAIN entry',
         \/ memo' = None
         \/ memo' = memo /\ UNCHANGED <<marked, erasing>> /\ entry'.list = entry.list
  PROVE  StatusInv'
BY DEF StatusInv, StatusIsCurrent, May

LEMMA MarkedList ==
  ASSUME StatusInv, NEW to, NEW version, NEW more, Mark(to, version, more)
  PROVE  "list" \in DOMAIN entry' /\ entry'.list = entry.list
BY DEF StatusInv, Mark

LEMMA StoredList ==
  ASSUME StatusInv, NEW version, NEW tag, Store(version, tag)
  PROVE  "list" \in DOMAIN entry'
<1>1. "list" \in DOMAIN entry /\ "list" \in DOMAIN Unknown
  BY DEF StatusInv, Unknown
<1>2. QED
  BY <1>1 DEF Store, Updated

LEMMA NextStatus == ASSUME StatusInv, [Next]_vars PROVE StatusInv'
<1> USE DEF disk, memory, world, history
<1>1. "list" \in DOMAIN entry
  BY DEF StatusInv
<1>2. CASE Sync
  BY <1>1, <1>2, MarkedList, StatusKeeps DEF Sync
<1>3. CASE Refresh
  BY <1>1, <1>3, MarkedList, StatusKeeps DEF Refresh
<1>4. CASE RoomStatus \/ SendOlm \/ Change
  BY <1>1, <1>4, StatusKeeps DEF RoomStatus, SendOlm, Change
<1>5. ASSUME NEW c \in Callers, QueryKeys(c) PROVE StatusInv'
  BY <1>1, <1>5, StatusKeeps DEF QueryKeys
<1>6. CASE Erased
  BY <1>1, <1>6, StatusKeeps DEF Erased
<1>7. ASSUME NEW r, Serve(r) \/ Answered(r) \/ Failed(r) PROVE StatusInv'
  BY <1>1, <1>7, StatusKeeps DEF Serve, Answered, Failed
<1>8. ASSUME NEW r, AnsweredSend(r) PROVE StatusInv'
  BY <1>8, StoredList DEF AnsweredSend, StatusInv, StatusIsCurrent, May
<1>9. CASE UserKeysUpdate
  BY <1>9, StoredList, StatusKeeps DEF UserKeysUpdate
<1>10. CASE Finalized \/ Deleted
  BY <1>1, <1>10, StatusKeeps DEF Finalized, Deleted
<1>11. ASSUME NEW d \in Devices, MarkVerified(d) PROVE StatusInv'
  BY <1>1, <1>11, StatusKeeps DEF MarkVerified
<1>12. CASE VerificationStatus
  BY <1>1, <1>12 DEF VerificationStatus, StatusInv, StatusIsCurrent, May
<1>13. CASE StatusBegin \/ StatusEnd
  BY <1>1, <1>13 DEF StatusBegin, StatusEnd, Idle, StatusInv, StatusIsCurrent, May
<1>14. CASE UNCHANGED vars
  BY <1>1, <1>14, StatusKeeps DEF vars
<1>15. QED
  BY <1>2, <1>3, <1>4, <1>5, <1>6, <1>7, <1>8, <1>9, <1>10, <1>11, <1>12, <1>13, <1>14
     DEF Next, Asks, Network, Slots, Status

\* verificationStatus: what it returns from memory is the status of the list
\* and of the devices on disk, but for a store between its snapshot and lock.
THEOREM StatusIsOfDisk == Spec => []StatusIsCurrent
<1>1. Init => StatusInv
  BY InitStatus
<1>2. StatusInv /\ [Next]_vars => StatusInv'
  BY NextStatus
<1>3. StatusInv => StatusIsCurrent
  BY DEF StatusInv
<1>4. QED
  BY <1>1, <1>2, <1>3, PTL DEF Spec
=============================================================================

---------------------------- MODULE LinkerProofs ----------------------------
(***************************************************************************)
(* Proofs about Linker, for every command line, however many files and     *)
(* members it has: the table of unresolved names is what it should be      *)
(* (LInv), nothing is linked twice or without need (OInv), and the image   *)
(* written by one walk over the files is the one that another walk, over   *)
(* the objects as they were linked, laid out (AInv).                       *)
(***************************************************************************)
EXTENDS Linker, NatLemmas, SequenceTheorems, TLAPS

(* An object's file and its number there.                                  *)
Id == Nat \X Nat

(* What link_files keeps, without the addresses.                           *)
Tables ==
  /\ files \in CommandLines
  /\ i \in 1 .. Len(files) + 1
  /\ contents \in [DOMAIN files -> Seq(Nat)]
  /\ linked \in Seq(Id)

(* An object file has its one object from the start, and it is linked when *)
(* the file is passed; a member is linked as soon as it is loaded.         *)
LoadedIsLinked ==
  \A f \in DOMAIN files :
    /\ ~ files[f].archive => contents[f] = <<1>> /\ (f < i => <<f, 1>> \in Linked)
    /\ files[f].archive => \A k \in DOMAIN contents[f] : <<f, contents[f][k]>> \in Linked

(* The first two conjuncts of LinkComplete.                                *)
MissingIsListed ==
  /\ \A o \in Linked : \A n \in Obj(o).undefs :
       Found(n, contents) \/ n \in unresolved
  /\ Found(Entry, contents) \/ Entry \in unresolved

AfterLink ==
  phase \notin {"link", "failed"} => unresolved = {} /\ i = Len(files) + 1

(* The first part of UnresolvedIsMissing.                                  *)
NotYetFound == \A n \in unresolved : n # Entry => ~ Found(n, contents)

(* The second part: an archive that was passed had the chance to define a  *)
(* name only before anything referred to it.                               *)
PassedInTime ==
  \A n \in unresolved : \A f \in 1 .. i - 1 :
    files[f].archive /\ n \in DOMAIN files[f].index =>
      n # Entry /\ \A o \in Linked : n \in Obj(o).undefs => o[1] > f

(* The entry is in the table until an object that defines it is linked.    *)
EntryAhead ==
  Entry \in unresolved => \A o \in Linked : Entry \notin DOMAIN Obj(o).defs

(* The inductive invariant.                                                *)
LInv ==
  /\ Tables /\ LoadedIsLinked /\ MissingIsListed /\ AfterLink
  /\ NotYetFound /\ PassedInTime /\ EntryAhead

(* Found with its pairs taken apart.                                       *)
Has(f, k, name, cont) == name \in DOMAIN files[f].members[cont[f][k]].defs

(* What find_symbol_from_all returning non-NULL means.                     *)
LEMMA FoundMeans ==
  ASSUME NEW name, NEW cont
  PROVE  Found(name, cont) <=>
           \E f \in DOMAIN files : \E k \in DOMAIN cont[f] : Has(f, k, name, cont)
<1>1. ASSUME NEW f \in DOMAIN files, NEW k \in DOMAIN cont[f], Has(f, k, name, cont)
      PROVE  Found(name, cont)
  <2>1. <<f, k>> \in UNION {{g} \X DOMAIN cont[g] : g \in DOMAIN files}
    OBVIOUS
  <2>2. <<f, k>> \in Definers(name, cont)
    BY <2>1, <1>1 DEF Definers, Has
  <2> QED BY <2>2 DEF Found
<1>2. ASSUME Found(name, cont)
      PROVE  \E f \in DOMAIN files : \E k \in DOMAIN cont[f] : Has(f, k, name, cont)
  <2>1. PICK p \in UNION {{g} \X DOMAIN cont[g] : g \in DOMAIN files} :
          name \in DOMAIN files[p[1]].members[cont[p[1]][p[2]]].defs
    BY <1>2 DEF Found, Definers
  <2>2. PICK g \in DOMAIN files : p \in {g} \X DOMAIN cont[g]
    BY <2>1
  <2>3. p[1] = g /\ p[2] \in DOMAIN cont[g]
    BY <2>2
  <2> QED BY <2>1, <2>3 DEF Has
<1> QED BY <1>1, <1>2

(* What the objects of the command line define is known from the start.    *)
LEMMA ObjectIsFound ==
  ASSUME Tables, LoadedIsLinked, NEW f \in DOMAIN files, ~ files[f].archive,
         NEW n \in DOMAIN Obj(<<f, 1>>).defs
  PROVE  Found(n, contents)
<1>1. contents[f] = <<1>>
  BY DEF LoadedIsLinked
<1>2. 1 \in DOMAIN contents[f] /\ Has(f, 1, n, contents)
  BY <1>1 DEF Has, Obj
<1> QED BY <1>2, FoundMeans

(* The object that link_elfobj pushes is linked, and no other one.         *)
LEMMA LinkedGrows ==
  ASSUME linked \in Seq(Id), NEW o \in Id, linked' = Append(linked, o)
  PROVE  linked' \in Seq(Id) /\ Linked' = Linked \cup {o}
<1>1. linked' \in Seq(Id) /\ DOMAIN linked' = 1 .. Len(linked) + 1
  OBVIOUS
<1>2. DOMAIN linked = 1 .. Len(linked) /\ Len(linked) \in Nat
  OBVIOUS
<1>3. linked'[Len(linked) + 1] = o /\ \A k \in DOMAIN linked : linked'[k] = linked[k]
  OBVIOUS
<1>4. Linked' \subseteq Linked \cup {o}
  <2>1. SUFFICES ASSUME NEW k \in DOMAIN linked' PROVE linked'[k] \in Linked \cup {o}
    BY DEF Linked
  <2>2. CASE k = Len(linked) + 1
    BY <2>2, <1>3
  <2>3. CASE k \in DOMAIN linked
    BY <2>3, <1>3 DEF Linked
  <2> QED BY <2>2, <2>3, <1>1, <1>2
<1>5. Linked \cup {o} \subseteq Linked'
  <2>1. o \in Linked'
    <3>1. Len(linked) + 1 \in DOMAIN linked'
      BY <1>1, <1>2
    <3> QED BY <3>1, <1>3 DEF Linked
  <2>2. ASSUME NEW k \in DOMAIN linked PROVE linked[k] \in Linked'
    <3>1. k \in DOMAIN linked' /\ linked'[k] = linked[k]
      BY <1>1, <1>2, <1>3
    <3> QED BY <3>1 DEF Linked
  <2> QED BY <2>1, <2>2 DEF Linked
<1> QED BY <1>1, <1>4, <1>5

(* A command line starts with nothing but the entry missing.               *)
LEMMA InitLInv == LdInit => LInv
<1> SUFFICES ASSUME LdInit PROVE LInv
  OBVIOUS
<1> USE DEF LdInit
<1>1. Tables
  BY FilesAssumption DEF Tables, Id
<1>2. LoadedIsLinked
  BY FilesAssumption DEF LoadedIsLinked
<1>3. Linked = {}
  BY DEF Linked
<1>4. MissingIsListed
  BY <1>3 DEF MissingIsListed
<1>5. NotYetFound /\ PassedInTime /\ EntryAhead
  BY <1>3 DEF NotYetFound, PassedInTime, EntryAhead
<1> QED BY <1>1, <1>2, <1>4, <1>5 DEF LInv, AfterLink

(* link_elfobj on an object that is new: if the invariant's parts held of  *)
(* the table and what is found includes the object, they hold afterwards.  *)
(* `cont' is what is loaded while the object is linked.                    *)
LEMMA ElfobjKeepsListed ==
  ASSUME Tables, MissingIsListed, files' = files,
         NEW o \in Id, linked' = Append(linked, o),
         NEW unres, unresolved' = Unresolved(o, unres, contents'),
         \A n \in unresolved : n \in unres \/ Found(n, contents'),
         \A n : Found(n, contents) => Found(n, contents'),
         \A n \in DOMAIN Obj(o).defs : Found(n, contents')
  PROVE  MissingIsListed'
<1>0. Linked' = Linked \cup {o}
  BY LinkedGrows DEF Tables
<1>1. \A n : Found(n, contents)' <=> Found(n, contents')
  BY DEF Found, Definers
<1>2. \A n \in unresolved : Found(n, contents') \/ n \in unresolved'
  BY DEF Unresolved
<1>3. ASSUME NEW p \in Linked', NEW n \in Obj(p)'.undefs
      PROVE  Found(n, contents)' \/ n \in unresolved'
  <2>0. Obj(p)' = Obj(p)
    BY DEF Obj
  <2>1. CASE p = o
    BY <2>0, <2>1, <1>1, <1>3 DEF Unresolved
  <2>2. CASE p \in Linked
    BY <2>0, <2>2, <1>1, <1>2, <1>3 DEF MissingIsListed
  <2> QED BY <2>1, <2>2, <1>0
<1>4. Found(Entry, contents)' \/ Entry \in unresolved'
  BY <1>1, <1>2 DEF MissingIsListed
<1> QED BY <1>3, <1>4 DEF MissingIsListed

(* link_elfobj takes the entry out of the table when it is defined here.   *)
LEMMA ElfobjKeepsEntry ==
  ASSUME Tables, MissingIsListed, EntryAhead, files' = files,
         NEW o \in Id, linked' = Append(linked, o),
         NEW unres \in SUBSET unresolved,
         unresolved' = Unresolved(o, unres, contents'),
         \A n : Found(n, contents) => Found(n, contents'),
         \A n \in DOMAIN Obj(o).defs : Found(n, contents')
  PROVE  EntryAhead'
<1>0. Linked' = Linked \cup {o} /\ \A p : Obj(p)' = Obj(p)
  BY LinkedGrows DEF Tables, Obj
<1> SUFFICES ASSUME Entry \in unresolved'
             PROVE  \A p \in Linked' : Entry \notin DOMAIN Obj(p).defs
  BY <1>0 DEF EntryAhead
<1>1. Entry \notin DOMAIN Obj(o).defs
  BY DEF Unresolved
<1>2. Entry \in unresolved
  BY DEF Unresolved, MissingIsListed
<1> QED BY <1>0, <1>1, <1>2 DEF EntryAhead

(* link_elfobj on an object of the file at hand does not make an archive   *)
(* that was passed guilty.                                                 *)
LEMMA ElfobjKeepsPassed ==
  ASSUME Tables, MissingIsListed, PassedInTime, files' = files,
         NEW m \in Nat, i \in Nat, linked' = Append(linked, <<i, m>>),
         NEW unres \in SUBSET unresolved,
         unresolved' = Unresolved(<<i, m>>, unres, contents'),
         \A n : Found(n, contents) => Found(n, contents')
  PROVE  \A n \in unresolved' : \A f \in 1 .. i - 1 :
           files[f].archive /\ n \in DOMAIN files[f].index =>
             n # Entry /\ \A o \in Linked' : n \in Obj(o).undefs => o[1] > f
<1>0. Linked' = Linked \cup {<<i, m>>}
  BY LinkedGrows DEF Tables, Id
<1> SUFFICES ASSUME NEW n \in unresolved', NEW f \in 1 .. i - 1,
                    files[f].archive, n \in DOMAIN files[f].index
             PROVE  n # Entry /\ \A o \in Linked' : n \in Obj(o).undefs => o[1] > f
  OBVIOUS
<1>1. i > f
  OBVIOUS
<1>2. CASE n \in unresolved
  <2>1. n # Entry /\ \A o \in Linked : n \in Obj(o).undefs => o[1] > f
    BY <1>2 DEF PassedInTime
  <2> QED BY <2>1, <1>0, <1>1
<1>3. CASE n \notin unresolved
  <2>1. ~ Found(n, contents)
    BY <1>3 DEF Unresolved
  <2>2. n # Entry /\ \A o \in Linked : n \notin Obj(o).undefs
    BY <2>1, <1>3 DEF MissingIsListed
  <2> QED BY <2>2, <1>0, <1>1
<1> QED BY <1>2, <1>3

(* An object file of the command line is linked.                           *)
LEMMA LinkObjectLInv == LInv /\ LinkObject => LInv'
<1> SUFFICES ASSUME LInv, LinkObject PROVE LInv'
  OBVIOUS
<1>0. /\ Tables /\ LoadedIsLinked /\ MissingIsListed /\ NotYetFound /\ PassedInTime
      /\ EntryAhead
      /\ i \in Nat /\ i \in DOMAIN files /\ ~ files[i].archive
      /\ files' = files /\ contents' = contents /\ phase' = phase /\ i' = i + 1
      /\ phase = "link"
  BY FilesAssumption DEF LInv, LinkObject, Tables
<1>1. /\ linked' = Append(linked, <<i, 1>>)
      /\ unresolved' = Unresolved(<<i, 1>>, unresolved, contents')
  BY <1>0 DEF LinkObject, link_elfobj
<1>2. linked' \in Seq(Id) /\ Linked' = Linked \cup {<<i, 1>>}
  BY <1>0, <1>1, LinkedGrows DEF Tables, Id
<1>3. Tables'
  BY <1>0, <1>2, FilesAssumption DEF Tables, LinkObject
<1>4. LoadedIsLinked'
  <2> SUFFICES ASSUME NEW f \in DOMAIN files
               PROVE  /\ ~ files[f].archive =>
                           contents[f] = <<1>> /\ (f < i + 1 => <<f, 1>> \in Linked')
                      /\ files[f].archive =>
                           \A k \in DOMAIN contents[f] : <<f, contents[f][k]>> \in Linked'
    BY <1>0 DEF LoadedIsLinked
  <2>1. f \in Nat
    BY <1>0, FilesAssumption DEF Tables
  <2> QED BY <2>1, <1>0, <1>2 DEF LoadedIsLinked
<1>5. MissingIsListed'
  <2>1. \A n \in DOMAIN Obj(<<i, 1>>).defs : Found(n, contents')
    BY <1>0, ObjectIsFound
  <2>2. <<i, 1>> \in Id
    BY <1>0 DEF Id
  <2> QED BY <1>0, <1>1, <2>1, <2>2, ElfobjKeepsListed
<1>6. NotYetFound'
  <2>1. \A n : Found(n, contents)' <=> Found(n, contents)
    BY <1>0 DEF Found, Definers
  <2>2. \A n \in unresolved' : n # Entry => ~ Found(n, contents)
    BY <1>0, <1>1 DEF NotYetFound, Unresolved
  <2> QED BY <2>1, <2>2 DEF NotYetFound
<1>7. PassedInTime'
  <2>1. \A n \in unresolved' : \A f \in 1 .. i - 1 :
          files[f].archive /\ n \in DOMAIN files[f].index =>
            n # Entry /\ \A o \in Linked' : n \in Obj(o).undefs => o[1] > f
    BY <1>0, <1>1, ElfobjKeepsPassed
  <2>2. \A f \in 1 .. i' - 1 : f \in 1 .. i - 1 \/ f = i
    BY <1>0
  <2>3. \A o : Obj(o)' = Obj(o)
    BY <1>0 DEF Obj
  <2> QED BY <2>1, <2>2, <2>3, <1>0 DEF PassedInTime
<1>8. EntryAhead'
  <2>1. \A n \in DOMAIN Obj(<<i, 1>>).defs : Found(n, contents')
    BY <1>0, ObjectIsFound
  <2>2. <<i, 1>> \in Id
    BY <1>0 DEF Id
  <2> QED BY <1>0, <1>1, <2>1, <2>2, ElfobjKeepsEntry
<1> QED BY <1>0, <1>3, <1>4, <1>5, <1>6, <1>7, <1>8 DEF LInv, AfterLink

(* Loading a member adds what it defines, and nothing that was found is    *)
(* lost.                                                                   *)
LEMMA LoadedFound ==
  ASSUME Tables, i \in DOMAIN files, NEW m \in Nat
  PROVE  /\ Loaded(m) \in [DOMAIN files -> Seq(Nat)]
         /\ \A f \in DOMAIN files : f # i => Loaded(m)[f] = contents[f]
         /\ \A k \in DOMAIN Loaded(m)[i] :
              \/ Loaded(m)[i][k] = m
              \/ k \in DOMAIN contents[i] /\ Loaded(m)[i][k] = contents[i][k]
         /\ \A n : Found(n, contents) => Found(n, Loaded(m))
         /\ \A n \in DOMAIN Obj(<<i, m>>).defs : Found(n, Loaded(m))
         /\ \A n : Found(n, Loaded(m)) =>
              Found(n, contents) \/ n \in DOMAIN Obj(<<i, m>>).defs
<1> DEFINE old == contents[i]
           new == Append(old, m)
<1>1. old \in Seq(Nat) /\ contents \in [DOMAIN files -> Seq(Nat)]
  BY DEF Tables
<1> HIDE DEF old
<1>2. /\ new \in Seq(Nat)
      /\ DOMAIN new = 1 .. Len(old) + 1 /\ DOMAIN old = 1 .. Len(old) /\ Len(old) \in Nat
      /\ new[Len(old) + 1] = m /\ \A k \in DOMAIN old : new[k] = old[k]
  BY <1>1
<1>3. Loaded(m) = [contents EXCEPT ![i] = new]
  BY DEF Loaded, old
<1> HIDE DEF new
<1>4. Loaded(m) \in [DOMAIN files -> Seq(Nat)] /\ Loaded(m)[i] = new
  BY <1>1, <1>2, <1>3
<1>5. \A f \in DOMAIN files : f # i => Loaded(m)[f] = contents[f]
  BY <1>1, <1>3
<1>6. \A k \in DOMAIN new : new[k] = m \/ (k \in DOMAIN old /\ new[k] = old[k])
  BY <1>2
<1>7. ASSUME NEW n, Found(n, contents) PROVE Found(n, Loaded(m))
  <2>1. PICK f \in DOMAIN files : \E k \in DOMAIN contents[f] : Has(f, k, n, contents)
    BY <1>7, FoundMeans
  <2>2. PICK k \in DOMAIN contents[f] : Has(f, k, n, contents)
    BY <2>1
  <2>3. CASE f # i
    BY <2>2, <2>3, <1>5, FoundMeans DEF Has
  <2>4. CASE f = i
    <3>1. k \in DOMAIN Loaded(m)[f] /\ Loaded(m)[f][k] = contents[f][k]
      BY <2>2, <2>4, <1>2, <1>4 DEF old
    <3> QED BY <2>2, <3>1, FoundMeans DEF Has
  <2> QED BY <2>3, <2>4
<1>8. ASSUME NEW n \in DOMAIN Obj(<<i, m>>).defs PROVE Found(n, Loaded(m))
  <2>1. Len(old) + 1 \in DOMAIN Loaded(m)[i] /\ Loaded(m)[i][Len(old) + 1] = m
    BY <1>2, <1>4
  <2>2. Has(i, Len(old) + 1, n, Loaded(m))
    BY <2>1 DEF Has, Obj
  <2> QED BY <2>1, <2>2, FoundMeans
<1>9. ASSUME NEW n, Found(n, Loaded(m))
      PROVE  Found(n, contents) \/ n \in DOMAIN Obj(<<i, m>>).defs
  <2>1. PICK f \in DOMAIN files : \E k \in DOMAIN Loaded(m)[f] : Has(f, k, n, Loaded(m))
    BY <1>9, FoundMeans
  <2>2. PICK k \in DOMAIN Loaded(m)[f] : Has(f, k, n, Loaded(m))
    BY <2>1
  <2>3. CASE f # i
    BY <2>2, <2>3, <1>5, FoundMeans DEF Has
  <2>4. CASE f = i
    <3>1. CASE new[k] = m
      BY <2>2, <2>4, <3>1, <1>4 DEF Has, Obj
    <3>2. CASE k \in DOMAIN old /\ new[k] = old[k]
      <4>1. k \in DOMAIN contents[f] /\ Has(f, k, n, contents)
        BY <2>2, <2>4, <3>2, <1>4 DEF Has, old
      <4> QED BY <4>1, FoundMeans
    <3> QED BY <3>1, <3>2, <2>2, <2>4, <1>4, <1>6
  <2> QED BY <2>3, <2>4
<1> QED BY <1>4, <1>5, <1>6, <1>7, <1>8, <1>9 DEF old

(* A name is taken from the table because its member is loaded already.    *)
LEMMA AlreadyLoadedLInv ==
  ASSUME LInv, NEW name, LinkMember(name), AlreadyLoaded(files[i].index[name])
  PROVE  LInv'
<1>0. /\ Tables /\ LoadedIsLinked /\ MissingIsListed /\ NotYetFound /\ PassedInTime
      /\ EntryAhead
      /\ i \in Nat /\ i \in DOMAIN files /\ files[i].archive
      /\ name \in DOMAIN files[i].index
      /\ phase = "link"
  BY FilesAssumption DEF LInv, LinkMember, Tables
<1>1. /\ files' = files /\ contents' = contents /\ linked' = linked /\ i' = i
      /\ phase' = phase /\ unresolved' = unresolved \ {name}
  BY DEF LinkMember, Taken
<1>2. Linked' = Linked /\ (\A o : Obj(o)' = Obj(o))
      /\ \A n : Found(n, contents)' <=> Found(n, contents)
  BY <1>1 DEF Linked, Obj, Found, Definers
<1>3. Found(name, contents)
  <2>1. PICK k \in DOMAIN contents[i] : contents[i][k] = files[i].index[name]
    BY DEF AlreadyLoaded, Members
  <2>2. Has(i, k, name, contents)
    BY <1>0, <2>1, FilesAssumption DEF Has, Tables
  <2> QED BY <1>0, <2>2, FoundMeans
<1>4. Tables' /\ LoadedIsLinked'
  BY <1>0, <1>1, <1>2 DEF Tables, LoadedIsLinked
<1>5. MissingIsListed'
  BY <1>0, <1>1, <1>2, <1>3 DEF MissingIsListed
<1>6. NotYetFound' /\ PassedInTime' /\ EntryAhead'
  BY <1>0, <1>1, <1>2 DEF NotYetFound, PassedInTime, EntryAhead
<1> QED BY <1>0, <1>1, <1>4, <1>5, <1>6 DEF LInv, AfterLink

(* A member is loaded and linked.                                          *)
LEMMA LoadMemberLInv ==
  ASSUME LInv, NEW name, LinkMember(name), ~ AlreadyLoaded(files[i].index[name])
  PROVE  LInv'
<1> DEFINE m == files[i].index[name]
<1>0. /\ Tables /\ LoadedIsLinked /\ MissingIsListed /\ NotYetFound /\ PassedInTime
      /\ EntryAhead
      /\ i \in Nat /\ i \in DOMAIN files /\ i <= Len(files) /\ files[i].archive
      /\ name \in unresolved /\ name \in DOMAIN files[i].index
      /\ phase = "link"
  BY FilesAssumption DEF LInv, LinkMember, Tables
<1>1. /\ files' = files /\ i' = i /\ phase' = phase /\ contents' = Loaded(m)
      /\ linked' = Append(linked, <<i, m>>)
      /\ unresolved' = Unresolved(<<i, m>>, Taken(name), contents')
  BY DEF LinkMember, link_elfobj
<1>2. /\ m \in Nat /\ m \in DOMAIN files[i].members
      /\ name \in DOMAIN Obj(<<i, m>>).defs
  BY <1>0, FilesAssumption DEF Tables, Obj
<1> HIDE DEF m
<1>3. <<i, m>> \in Id
  BY <1>0, <1>2 DEF Id
<1>4. linked' \in Seq(Id) /\ Linked' = Linked \cup {<<i, m>>}
  BY <1>0, <1>1, <1>3, LinkedGrows DEF Tables
<1>5. /\ contents' \in [DOMAIN files -> Seq(Nat)]
      /\ \A f \in DOMAIN files : f # i => contents'[f] = contents[f]
      /\ \A k \in DOMAIN contents'[i] :
           contents'[i][k] = m \/ (k \in DOMAIN contents[i] /\ contents'[i][k] = contents[i][k])
      /\ \A n : Found(n, contents) => Found(n, contents')
      /\ \A n \in DOMAIN Obj(<<i, m>>).defs : Found(n, contents')
      /\ \A n : Found(n, contents') => Found(n, contents) \/ n \in DOMAIN Obj(<<i, m>>).defs
  BY <1>0, <1>1, <1>2, LoadedFound
<1>6. Tables'
  BY <1>0, <1>1, <1>4, <1>5 DEF Tables
<1>7. LoadedIsLinked'
  <2> SUFFICES ASSUME NEW f \in DOMAIN files
               PROVE  /\ ~ files[f].archive =>
                           contents'[f] = <<1>> /\ (f < i => <<f, 1>> \in Linked')
                      /\ files[f].archive =>
                           \A k \in DOMAIN contents'[f] : <<f, contents'[f][k]>> \in Linked'
    BY <1>1 DEF LoadedIsLinked
  <2>1. CASE f # i
    BY <2>1, <1>0, <1>4, <1>5 DEF LoadedIsLinked
  <2>2. CASE f = i
    BY <2>2, <1>0, <1>4, <1>5 DEF LoadedIsLinked
  <2> QED BY <2>1, <2>2
<1>8. MissingIsListed'
  <2>1. \A n \in unresolved : n \in Taken(name) \/ Found(n, contents')
    BY <1>2, <1>5 DEF Taken
  <2> QED BY <1>0, <1>1, <1>3, <1>5, <2>1, ElfobjKeepsListed
<1>9. NotYetFound'
  <2>1. \A n : Found(n, contents)' <=> Found(n, contents')
    BY <1>1 DEF Found, Definers
  <2>2. \A n \in unresolved' : n # Entry => ~ Found(n, contents')
    BY <1>0, <1>1, <1>5 DEF NotYetFound, Unresolved, Taken
  <2> QED BY <2>1, <2>2 DEF NotYetFound
<1>10. PassedInTime'
  <2>1. Taken(name) \in SUBSET unresolved
    BY DEF Taken
  <2>2. \A n \in unresolved' : \A f \in 1 .. i - 1 :
          files[f].archive /\ n \in DOMAIN files[f].index =>
            n # Entry /\ \A o \in Linked' : n \in Obj(o).undefs => o[1] > f
    BY <1>0, <1>1, <1>2, <1>5, <2>1, ElfobjKeepsPassed
  <2>3. \A o : Obj(o)' = Obj(o)
    BY <1>1 DEF Obj
  <2> QED BY <2>2, <2>3, <1>1 DEF PassedInTime
<1>11. EntryAhead'
  <2>1. Taken(name) \in SUBSET unresolved
    BY DEF Taken
  <2> QED BY <1>0, <1>1, <1>3, <1>5, <2>1, ElfobjKeepsEntry
<1> QED BY <1>0, <1>1, <1>6, <1>7, <1>8, <1>9, <1>10, <1>11 DEF LInv, AfterLink

(* An archive is passed when no unresolved name is in its index.           *)
LEMMA LinkArchiveEndLInv == LInv /\ LinkArchiveEnd => LInv'
<1> SUFFICES ASSUME LInv, LinkArchiveEnd PROVE LInv'
  OBVIOUS
<1>0. /\ Tables /\ LoadedIsLinked /\ MissingIsListed /\ NotYetFound /\ PassedInTime
      /\ EntryAhead
      /\ i \in Nat /\ i \in DOMAIN files /\ files[i].archive
      /\ files' = files /\ contents' = contents /\ phase' = phase /\ i' = i + 1
      /\ linked' = linked /\ unresolved' = unresolved
      /\ phase = "link" /\ unresolved \cap DOMAIN files[i].index = {}
  BY FilesAssumption DEF LInv, LinkArchiveEnd, Tables, Passed
<1>1. Linked' = Linked /\ (\A o : Obj(o)' = Obj(o))
      /\ \A n : Found(n, contents)' <=> Found(n, contents)
  BY <1>0 DEF Linked, Obj, Found, Definers
<1>2. Tables'
  BY <1>0, FilesAssumption DEF Tables
<1>3. LoadedIsLinked'
  <2> SUFFICES ASSUME NEW f \in DOMAIN files
               PROVE  /\ ~ files[f].archive =>
                           contents[f] = <<1>> /\ (f < i + 1 => <<f, 1>> \in Linked)
                      /\ files[f].archive =>
                           \A k \in DOMAIN contents[f] : <<f, contents[f][k]>> \in Linked
    BY <1>0, <1>1 DEF LoadedIsLinked
  <2>1. f \in Nat
    BY <1>0, FilesAssumption DEF Tables
  <2> QED BY <2>1, <1>0 DEF LoadedIsLinked
<1>4. MissingIsListed'
  BY <1>0, <1>1 DEF MissingIsListed
<1>5. NotYetFound'
  BY <1>0, <1>1 DEF NotYetFound
<1>6. PassedInTime'
  <2>1. \A f \in 1 .. i' - 1 : f \in 1 .. i - 1 \/ f = i
    BY <1>0
  <2> QED BY <2>1, <1>0, <1>1 DEF PassedInTime
<1>7. EntryAhead'
  BY <1>0, <1>1 DEF EntryAhead
<1> QED BY <1>0, <1>2, <1>3, <1>4, <1>5, <1>6, <1>7 DEF LInv, AfterLink

(* The passes behind the linking leave the tables alone.                   *)
LEMMA OtherLInv ==
  LInv /\ (LinkEnd \/ Layout \/ resolve_relas \/ Gather \/ UNCHANGED vars) => LInv'
<1> SUFFICES ASSUME LInv, LinkEnd \/ Layout \/ resolve_relas \/ Gather \/ UNCHANGED vars
             PROVE  LInv'
  OBVIOUS
<1>1. /\ files' = files /\ contents' = contents /\ i' = i
      /\ linked' = linked /\ unresolved' = unresolved
  BY DEF LinkEnd, Layout, resolve_relas, Gather, vars
<1>2. AfterLink'
  <2>1. i > Len(files) => i = Len(files) + 1
    BY FilesAssumption DEF LInv, Tables
  <2> QED BY <1>1, <2>1 DEF LInv, AfterLink, LinkEnd, Layout, resolve_relas, Gather, vars
<1>3. Linked' = Linked /\ (\A o : Obj(o)' = Obj(o))
      /\ \A n : Found(n, contents)' <=> Found(n, contents)
  BY <1>1 DEF Linked, Obj, Found, Definers
<1>4. Tables' /\ LoadedIsLinked'
  BY <1>1, <1>3 DEF LInv, Tables, LoadedIsLinked
<1>5. MissingIsListed' /\ NotYetFound' /\ PassedInTime' /\ EntryAhead'
  BY <1>1, <1>3 DEF LInv, MissingIsListed, NotYetFound, PassedInTime, EntryAhead
<1> QED BY <1>2, <1>4, <1>5 DEF LInv

(* The invariant holds in every state of every link.                       *)
THEOREM TablesInvariant == LdSpec => []LInv
<1>1. LInv /\ [LdNext]_vars => LInv'
  <2> SUFFICES ASSUME LInv, [LdNext]_vars PROVE LInv'
    OBVIOUS
  <2>1. ASSUME NEW name \in unresolved, LinkMember(name) PROVE LInv'
    BY <2>1, AlreadyLoadedLInv, LoadMemberLInv
  <2> QED BY <2>1, LinkObjectLInv, LinkArchiveEndLInv, OtherLInv DEF LdNext
<1> QED BY <1>1, InitLInv, PTL DEF LdSpec

(* When the last file is passed, what is loaded is linked.                 *)
LEMMA AllLinked ==
  ASSUME LInv, i > Len(files), NEW f \in DOMAIN files, NEW k \in DOMAIN contents[f]
  PROVE  <<f, contents[f][k]>> \in Linked
<1>1. f < i
  BY FilesAssumption DEF LInv, Tables
<1>2. CASE files[f].archive
  BY <1>2 DEF LInv, LoadedIsLinked
<1>3. CASE ~ files[f].archive
  <2>1. contents[f] = <<1>> /\ <<f, 1>> \in Linked
    BY <1>1, <1>3 DEF LInv, LoadedIsLinked
  <2>2. contents[f][k] = 1
    BY <2>1
  <2> QED BY <2>1, <2>2
<1> QED BY <1>2, <1>3

(* When relocations are resolved, every name that a linked object refers   *)
(* to, and the entry, is defined by an object that is linked: what the     *)
(* assert of resolve_rela_elfobj needs.                                    *)
THEOREM LinkCompleteTheorem == LdSpec => []LinkComplete
<1>1. LInv => LinkComplete
  <2> SUFFICES ASSUME LInv PROVE LinkComplete
    OBVIOUS
  <2>1. ASSUME phase \in {"layout", "relocate", "gather", "done"}, NEW f \in DOMAIN files
        PROVE  Members(f) \subseteq Linked
    <3>1. i > Len(files)
      BY <2>1, FilesAssumption DEF LInv, AfterLink, Tables
    <3> QED BY <3>1, AllLinked DEF Members
  <2> QED BY <2>1 DEF LInv, LinkComplete, MissingIsListed, AfterLink
<1> QED BY <1>1, TablesInvariant, PTL

(* A name that is reported as unresolved is defined by nothing loaded, and *)
(* no archive that has it was passed after a reference to it.              *)
THEOREM UnresolvedTheorem == LdSpec => []UnresolvedIsMissing
<1>1. LInv => UnresolvedIsMissing
  <2> SUFFICES ASSUME LInv PROVE UnresolvedIsMissing
    OBVIOUS
  <2>1. ASSUME i > Len(files), Entry \in unresolved PROVE ~ Found(Entry, contents)
    <3>1. SUFFICES ASSUME NEW f \in DOMAIN files, NEW k \in DOMAIN contents[f],
                          Has(f, k, Entry, contents)
                   PROVE  FALSE
      BY FoundMeans
    <3>2. <<f, contents[f][k]>> \in Linked
      BY <2>1, AllLinked
    <3>3. Entry \in DOMAIN Obj(<<f, contents[f][k]>>).defs
      BY <3>1 DEF Has, Obj
    <3> QED BY <2>1, <3>2, <3>3 DEF LInv, EntryAhead
  <2> QED BY <2>1 DEF LInv, UnresolvedIsMissing, NotYetFound, PassedInTime
<1> QED BY <1>1, TablesInvariant, PTL
----------------------------------------------------------------------------
(***************************************************************************)
(* Every object once, and an archive's member only by need.                *)
(***************************************************************************)

(* What is linked is an object file that was passed, or a loaded member.   *)
LinkedIsLoaded ==
  \A o \in Linked :
    /\ o[1] \in DOMAIN files
    /\ IF files[o[1]].archive THEN o \in Members(o[1]) ELSE o[1] < i /\ o[2] = 1

(* A name is in the table because a linked object refers to it.            *)
UnresolvedWanted ==
  \A n \in unresolved : n = Entry \/ \E o \in Linked : n \in Obj(o).undefs

OInv == LInv /\ LinkedIsLoaded /\ UnresolvedWanted /\ LinkedOnceByNeed

(* find_symbol_from_all knows what a linked object defines.                *)
LEMMA LinkedIsFound ==
  ASSUME LInv, LinkedIsLoaded, NEW o \in Linked, NEW n \in DOMAIN Obj(o).defs
  PROVE  Found(n, contents)
<1>1. o[1] \in DOMAIN files /\ Tables /\ LoadedIsLinked
  BY DEF LinkedIsLoaded, LInv
<1>2. o \in Id
  BY DEF LInv, Tables, Linked
<1>3. o = <<o[1], o[2]>>
  BY <1>2 DEF Id
<1>4. CASE ~ files[o[1]].archive
  <2>1. o = <<o[1], 1>>
    BY <1>3, <1>4 DEF LinkedIsLoaded
  <2> QED
    BY <1>1, <1>4, <2>1, ObjectIsFound
<1>5. CASE files[o[1]].archive
  <2>1. PICK k \in DOMAIN contents[o[1]] : o = <<o[1], contents[o[1]][k]>>
    BY <1>5 DEF LinkedIsLoaded, Members
  <2>2. Has(o[1], k, n, contents)
    BY <2>1 DEF Has, Obj
  <2> QED
    BY <1>1, <2>1, <2>2, FoundMeans
<1> QED
  BY <1>4, <1>5

(* link_elfobj pushes an object that is new and needed.                    *)
LEMMA PushKeepsOnce ==
  ASSUME Tables, LinkedOnceByNeed, files' = files,
         NEW o \in Id, linked' = Append(linked, o), o \notin Linked,
         files[o[1]].archive =>
           \E n \in DOMAIN Obj(o).defs :
             \/ n = Entry
             \/ /\ \E p \in Linked : n \in Obj(p).undefs
                /\ \A p \in Linked : n \notin DOMAIN Obj(p).defs
  PROVE  LinkedOnceByNeed'
<1>1. /\ linked \in Seq(Id) /\ Len(linked) \in Nat
      /\ DOMAIN linked' = 1 .. Len(linked) + 1 /\ DOMAIN linked = 1 .. Len(linked)
      /\ linked'[Len(linked) + 1] = o /\ \A k \in DOMAIN linked : linked'[k] = linked[k]
  BY DEF Tables
<1>2. \A p : Obj(p)' = Obj(p)
  BY DEF Obj
<1> SUFFICES ASSUME NEW k \in DOMAIN linked'
             PROVE  /\ \A j \in 1 .. k - 1 : linked'[j] # linked'[k]
                    /\ files[linked'[k][1]].archive =>
                         \E n \in DOMAIN Obj(linked'[k]).defs :
                           \/ n = Entry
                           \/ /\ \E j \in 1 .. k - 1 : n \in Obj(linked'[j]).undefs
                              /\ \A j \in 1 .. k - 1 : n \notin DOMAIN Obj(linked'[j]).defs
  BY <1>2 DEF LinkedOnceByNeed
<1>3. \A j \in 1 .. k - 1 : j \in DOMAIN linked /\ linked'[j] = linked[j] /\ linked[j] \in Linked
  BY <1>1 DEF Linked
<1>4. CASE k \in DOMAIN linked
  <2>1. linked'[k] = linked[k]
    BY <1>1, <1>4
  <2> QED
    BY <1>3, <1>4, <2>1 DEF LinkedOnceByNeed
<1>5. CASE k = Len(linked) + 1
  <2>1. linked'[k] = o /\ \A j \in DOMAIN linked : j \in 1 .. k - 1
    BY <1>1, <1>5
  <2>2. \A p \in Linked : \E j \in 1 .. k - 1 : p = linked'[j]
    BY <1>1, <2>1 DEF Linked
  <2>3. ASSUME files[o[1]].archive
        PROVE  \E n \in DOMAIN Obj(o).defs :
                 \/ n = Entry
                 \/ /\ \E j \in 1 .. k - 1 : n \in Obj(linked'[j]).undefs
                    /\ \A j \in 1 .. k - 1 : n \notin DOMAIN Obj(linked'[j]).defs
    <3>1. PICK n \in DOMAIN Obj(o).defs :
             \/ n = Entry
             \/ /\ \E p \in Linked : n \in Obj(p).undefs
                /\ \A p \in Linked : n \notin DOMAIN Obj(p).defs
      BY <2>3
    <3> QED
      BY <1>3, <2>2, <3>1
  <2>4. \A j \in 1 .. k - 1 : linked'[j] # linked'[k]
    BY <1>3, <2>1
  <2>5. files[linked'[k][1]].archive => files[o[1]].archive
    BY <2>1
  <2>6. Obj(linked'[k]) = Obj(o)
    BY <2>1
  <2>7. ASSUME files[linked'[k][1]].archive
        PROVE  \E n \in DOMAIN Obj(linked'[k]).defs :
                 \/ n = Entry
                 \/ /\ \E j \in 1 .. k - 1 : n \in Obj(linked'[j]).undefs
                    /\ \A j \in 1 .. k - 1 : n \notin DOMAIN Obj(linked'[j]).defs
    <3>1. PICK n \in DOMAIN Obj(o).defs :
             \/ n = Entry
             \/ /\ \E j \in 1 .. k - 1 : n \in Obj(linked'[j]).undefs
                /\ \A j \in 1 .. k - 1 : n \notin DOMAIN Obj(linked'[j]).defs
      BY <2>3, <2>5, <2>7
    <3>2. n \in DOMAIN Obj(linked'[k]).defs
      BY <2>6, <3>1
    <3> QED
      BY <3>1, <3>2
  <2> QED
    BY <2>4, <2>7
<1>6. k \in DOMAIN linked \/ k = Len(linked) + 1
  BY <1>1
<1> QED
  BY <1>4, <1>5, <1>6

(* The names that link_elfobj leaves in the table are wanted.              *)
LEMMA ElfobjKeepsWanted ==
  ASSUME Tables, UnresolvedWanted, files' = files,
         NEW o \in Id, linked' = Append(linked, o),
         NEW unres \in SUBSET unresolved, unresolved' = Unresolved(o, unres, contents')
  PROVE  UnresolvedWanted'
<1>1. Linked' = Linked \cup {o} /\ \A p : Obj(p)' = Obj(p)
  BY LinkedGrows DEF Tables, Obj
<1>2. \A n \in unresolved' : n \in unresolved \/ n \in Obj(o).undefs
  BY DEF Unresolved
<1> QED
  BY <1>1, <1>2 DEF UnresolvedWanted

(* Before the first file nothing is linked.                                *)
LEMMA InitOInv == LdInit => OInv
<1> SUFFICES ASSUME LdInit PROVE OInv
  OBVIOUS
<1>1. LInv
  BY InitLInv
<1>2. linked = <<>> /\ Linked = {} /\ unresolved = {Entry}
  BY DEF LdInit, Linked
<1> QED
  BY <1>1, <1>2 DEF OInv, LinkedIsLoaded, UnresolvedWanted, LinkedOnceByNeed

(* link_files reaches each object file once.                               *)
LEMMA LinkObjectOInv ==
  ASSUME OInv, LinkObject
  PROVE  OInv'
<1>1. LInv' /\ LInv
  BY LinkObjectLInv DEF OInv
<1>2. /\ Tables /\ LinkedOnceByNeed /\ LinkedIsLoaded /\ UnresolvedWanted
      /\ i \in Nat /\ i \in DOMAIN files /\ ~ files[i].archive
      /\ files' = files /\ contents' = contents /\ i' = i + 1
      /\ linked' = Append(linked, <<i, 1>>)
      /\ unresolved' = Unresolved(<<i, 1>>, unresolved, contents')
  BY FilesAssumption DEF OInv, LInv, LinkObject, link_elfobj, Tables
<1>3. <<i, 1>> \in Id
  BY <1>2 DEF Id
<1>4. <<i, 1>> \notin Linked
  <2> SUFFICES ASSUME <<i, 1>> \in Linked PROVE FALSE
    OBVIOUS
  <2>1. <<i, 1>>[1] < i
    BY <1>2 DEF LinkedIsLoaded
  <2> QED
    BY <1>2, <2>1
<1>5. Linked' = Linked \cup {<<i, 1>>}
  BY <1>2, <1>3, LinkedGrows DEF Tables
<1>6. LinkedIsLoaded'
  <2> SUFFICES ASSUME NEW o \in Linked'
               PROVE  /\ o[1] \in DOMAIN files
                      /\ IF files[o[1]].archive THEN o \in Members(o[1])'
                         ELSE o[1] < i + 1 /\ o[2] = 1
    BY <1>2 DEF LinkedIsLoaded
  <2>1. Members(o[1])' = Members(o[1])
    BY <1>2 DEF Members
  <2>2. CASE o = <<i, 1>>
    BY <1>2, <2>2
  <2>3. CASE o \in Linked
    <3>1. /\ o[1] \in DOMAIN files /\ DOMAIN files \subseteq Nat
          /\ IF files[o[1]].archive THEN o \in Members(o[1]) ELSE o[1] < i /\ o[2] = 1
      BY <1>2, <2>3, FilesAssumption DEF LinkedIsLoaded, Tables
    <3> QED
      BY <1>2, <2>1, <3>1
  <2> QED
    BY <1>5, <2>2, <2>3
<1>7. LinkedOnceByNeed'
  <2>1. ~ files[<<i, 1>>[1]].archive
    BY <1>2
  <2> QED
    BY <1>2, <1>3, <1>4, <2>1, PushKeepsOnce
<1>8. UnresolvedWanted'
  BY <1>2, <1>3, ElfobjKeepsWanted
<1> QED
  BY <1>1, <1>6, <1>7, <1>8 DEF OInv

(* load_archive_elfobj loads a member once, and link_archive asks it only  *)
(* for a name that the table has.                                          *)
LEMMA LinkMemberOInv ==
  ASSUME OInv, NEW name \in unresolved, LinkMember(name)
  PROVE  OInv'
<1> DEFINE m == files[i].index[name]
<1>1. LInv' /\ LInv
  BY AlreadyLoadedLInv, LoadMemberLInv DEF OInv
<1>2. /\ Tables /\ LinkedOnceByNeed /\ LinkedIsLoaded /\ UnresolvedWanted /\ NotYetFound
      /\ i \in Nat /\ i \in DOMAIN files /\ files[i].archive
      /\ name \in DOMAIN files[i].index
      /\ files' = files /\ i' = i
  BY FilesAssumption DEF OInv, LInv, LinkMember, Tables
<1>3. CASE AlreadyLoaded(m)
  <2>1. contents' = contents /\ linked' = linked /\ unresolved' = unresolved \ {name}
    BY <1>3 DEF LinkMember, Taken
  <2>2. Linked' = Linked /\ (\A o : Obj(o)' = Obj(o)) /\ \A f : Members(f)' = Members(f)
    BY <1>2, <2>1 DEF Linked, Obj, Members
  <2>3. LinkedIsLoaded' /\ UnresolvedWanted'
    BY <1>2, <2>1, <2>2 DEF LinkedIsLoaded, UnresolvedWanted
  <2>4. LinkedOnceByNeed'
    BY <1>2, <2>1, <2>2 DEF LinkedOnceByNeed
  <2> QED
    BY <1>1, <2>3, <2>4 DEF OInv
<1>4. CASE ~ AlreadyLoaded(m)
  <2>1. /\ contents' = Loaded(m)
        /\ linked' = Append(linked, <<i, m>>)
        /\ unresolved' = Unresolved(<<i, m>>, Taken(name), contents')
    BY <1>4 DEF LinkMember, link_elfobj
  <2>2. m \in Nat /\ name \in DOMAIN Obj(<<i, m>>).defs
    BY <1>2, FilesAssumption DEF Tables, Obj
  <2>3. <<i, m>> \notin Members(i)
    BY <1>4 DEF AlreadyLoaded
  <2> HIDE DEF m
  <2>4. <<i, m>> \in Id /\ <<i, m>>[1] = i
    BY <1>2, <2>2 DEF Id
  <2>5. <<i, m>> \notin Linked
    BY <1>2, <2>3, <2>4 DEF LinkedIsLoaded
  <2>6. Linked' = Linked \cup {<<i, m>>}
    BY <2>1, <2>4, <1>2, LinkedGrows DEF Tables
  <2>7. LinkedIsLoaded'
    <3>1. contents[i] \in Seq(Nat) /\ contents \in [DOMAIN files -> Seq(Nat)]
      BY <1>2 DEF Tables
    <3>2. contents'[i] = Append(contents[i], m)
          /\ \A f \in DOMAIN files : f # i => contents'[f] = contents[f]
      BY <1>2, <2>1, <3>1 DEF Loaded
    <3>3. <<i, m>> \in Members(i)' /\ Members(i) \subseteq Members(i)'
      <4>1. /\ DOMAIN contents'[i] = 1 .. Len(contents[i]) + 1
            /\ DOMAIN contents[i] = 1 .. Len(contents[i])
            /\ Len(contents[i]) \in Nat
            /\ contents'[i][Len(contents[i]) + 1] = m
            /\ \A k \in DOMAIN contents[i] : contents'[i][k] = contents[i][k]
        BY <2>2, <3>1, <3>2
      <4>2. Len(contents[i]) + 1 \in DOMAIN contents'[i]
            /\ \A k \in DOMAIN contents[i] : k \in DOMAIN contents'[i]
        BY <4>1
      <4>3. Members(i)' = {<<i, contents'[i][k]>> : k \in DOMAIN contents'[i]}
        BY <1>2 DEF Members
      <4>4. <<i, m>> \in Members(i)'
        BY <4>1, <4>2, <4>3
      <4>5. ASSUME NEW x \in Members(i) PROVE x \in Members(i)'
        <5>1. PICK k \in DOMAIN contents[i] : x = <<i, contents[i][k]>>
          BY DEF Members
        <5>2. k \in DOMAIN contents'[i] /\ x = <<i, contents'[i][k]>>
          BY <5>1, <4>1, <4>2
        <5> QED
          BY <5>2, <4>3
      <4> QED
        BY <4>4, <4>5
    <3>4. \A f \in DOMAIN files : f # i => Members(f)' = Members(f)
      BY <3>2 DEF Members
    <3>5. ASSUME NEW f \in DOMAIN files PROVE Members(f) \subseteq Members(f)'
      <4>1. CASE f = i
        <5>1. Members(f) = Members(i) /\ Members(f)' = Members(i)'
          BY <4>1, <1>2 DEF Members
        <5> QED
          BY <3>3, <5>1
      <4> QED
        BY <3>4, <4>1
    <3> QED
      BY <1>2, <2>4, <2>6, <3>3, <3>5 DEF LinkedIsLoaded
  <2>8. LinkedOnceByNeed'
    <3>1. ASSUME name # Entry
          PROVE  /\ \E p \in Linked : name \in Obj(p).undefs
                 /\ \A p \in Linked : name \notin DOMAIN Obj(p).defs
      <4>1. ~ Found(name, contents)
        BY <1>2, <3>1 DEF NotYetFound
      <4> QED
        BY <1>1, <1>2, <3>1, <4>1, LinkedIsFound DEF UnresolvedWanted
    <3> QED
      BY <1>2, <2>1, <2>2, <2>4, <2>5, <3>1, PushKeepsOnce
  <2>9. UnresolvedWanted'
    <3>1. Taken(name) \in SUBSET unresolved
      BY DEF Taken
    <3> QED
      BY <1>2, <2>1, <2>4, <3>1, ElfobjKeepsWanted
  <2> QED
    BY <1>1, <2>7, <2>8, <2>9 DEF OInv
<1> QED
  BY <1>3, <1>4

(* Each step of link_files keeps what is linked apart and needed.          *)
LEMMA NextOInv == OInv /\ [LdNext]_vars => OInv'
<1> SUFFICES ASSUME OInv, [LdNext]_vars PROVE OInv'
  OBVIOUS
<1>1. ASSUME NEW name \in unresolved, LinkMember(name) PROVE OInv'
  BY <1>1, LinkMemberOInv
<1>2. ASSUME LInv', files' = files, contents' = contents, linked' = linked,
             unresolved' = unresolved, i' \in {i, i + 1}, i \in Nat
      PROVE  OInv'
  <2>1. Linked' = Linked /\ (\A o : Obj(o)' = Obj(o)) /\ \A f : Members(f)' = Members(f)
    BY <1>2 DEF Linked, Obj, Members
  <2>2. \A f \in DOMAIN files : f \in Nat
    BY FilesAssumption DEF OInv, LInv, Tables
  <2>3. LinkedIsLoaded' /\ UnresolvedWanted' /\ LinkedOnceByNeed'
    <3>1. LinkedIsLoaded'
      BY <1>2, <2>1, <2>2 DEF OInv, LinkedIsLoaded
    <3>2. UnresolvedWanted'
      BY <1>2, <2>1, <2>2 DEF OInv, UnresolvedWanted
    <3>3. LinkedOnceByNeed'
      BY <1>2, <2>1, <2>2 DEF OInv, LinkedOnceByNeed
    <3> QED
      BY <3>1, <3>2, <3>3
  <2> QED
    BY <1>2, <2>3 DEF OInv
<1>3. i \in Nat
  BY FilesAssumption DEF OInv, LInv, Tables
<1>4. CASE LinkArchiveEnd
  BY <1>2, <1>3, <1>4, LinkArchiveEndLInv DEF OInv, LinkArchiveEnd
<1>5. CASE LinkEnd \/ Layout \/ resolve_relas \/ Gather \/ UNCHANGED vars
  <2>1. LInv'
    BY <1>5, OtherLInv DEF OInv
  <2>2. /\ files' = files /\ contents' = contents /\ i' = i
        /\ linked' = linked /\ unresolved' = unresolved
    BY <1>5 DEF LinkEnd, Layout, resolve_relas, Gather, vars
  <2> QED
    BY <1>2, <1>3, <2>1, <2>2
<1> QED
  BY <1>1, <1>4, <1>5, LinkObjectOInv DEF LdNext

(* In every state of the linker the list of objects is what it should be.  *)
THEOREM OnceInvariant == LdSpec => []OInv
  BY InitOInv, NextOInv, PTL DEF LdSpec

(* No object is linked twice, and no member without need: for any command  *)
(* line and any archives, also those that refer to each other.             *)
THEOREM LinkedOnceTheorem == LdSpec => []LinkedOnceByNeed
<1>1. OInv => LinkedOnceByNeed
  BY DEF OInv
<1> QED
  BY <1>1, OnceInvariant, PTL

----------------------------------------------------------------------------
(***************************************************************************)
(* The image is what was laid out.                                         *)
(***************************************************************************)

(* What NatLemmas says of the next multiple holds for the linker's ALIGN.  *)
LEMMA AlignUp ==
  ASSUME NEW x \in Nat, NEW a \in Nat \ {0}
  PROVE  /\ ALIGN(x, a) \in Nat /\ x <= ALIGN(x, a) /\ ALIGN(x, a) < x + a
         /\ ALIGN(x, a) % a = 0
  BY NextMultipleIs DEF ALIGN, NextMultiple

(* It can be counted from any multiple,                                    *)
LEMMA AlignFrom ==
  ASSUME NEW a \in Nat \ {0}, NEW x \in Nat, NEW y \in Nat, x % a = 0
  PROVE  ALIGN(x + y, a) = x + ALIGN(y, a)
  BY NextMultipleFrom DEF ALIGN, NextMultiple

(* and does nothing to one.                                                *)
LEMMA AlignOfMultiple ==
  ASSUME NEW a \in Nat \ {0}, NEW x \in Nat, x % a = 0
  PROVE  ALIGN(x, a) = x
  BY NextOfMultiple DEF ALIGN, NextMultiple

(* What link_elfobj and add_elfobj_sections both do to the end of a        *)
(* section when they come to object o.                                     *)
EndAfter(s, o, end) ==
  IF s \notin Sized(o) THEN end ELSE ALIGN(end, Obj(o).sect[s].align) + Obj(o).sect[s].size

(* The ends of section s after each of the objects of an order.            *)
IsEnds(e, s, order) ==
  /\ e \in [0 .. Len(order) -> Nat]
  /\ e[0] = 0
  /\ \A n \in 1 .. Len(order) : e[n] = EndAfter(s, order[n], e[n - 1])

(* The addresses that were given out in section s, from a base on.         *)
Promised(e, s, base) ==
  /\ IsEnds(e, s, linked)
  /\ offsets[s] = e[Len(linked)]
  /\ \A k \in 1 .. Len(linked) :
       s \in Sized(linked[k]) =>
         addr[<<linked[k], s>>] = base + ALIGN(e[k - 1], Obj(linked[k]).sect[s].align)

IsObject(o) == o \in Id /\ o[1] \in DOMAIN files /\ o[2] \in DOMAIN files[o[1]].members

LinkedAreObjects == \A o \in Linked : IsObject(o)

(* section_aligns: every alignment of a linked section divides its own.    *)
AlignsRight ==
  /\ aligns \in [Section -> Alignments]
  /\ \A s \in Section : DATA_ALIGN % aligns[s] = 0
  /\ aligns[SEC_DATA] = DATA_ALIGN
  /\ START_ADDRESS % aligns[SEC_CODE] = 0
  /\ \A o \in Linked : \A s \in Sized(o) : aligns[s] % Obj(o).sect[s].align = 0

Addressed == {x \in Linked \X Section : x[2] \in Sized(x[1])}

Base(s) == IF phase \in {"link", "layout", "failed"} THEN 0 ELSE SectionBase[s]

Addresses ==
  /\ addr = [x \in Addressed |-> addr[x]]
  /\ offsets \in [Section -> Nat]
  /\ \A s \in Section : \E e : Promised(e, s, Base(s))

(* The members of an archive in the order of their loading.                *)
InFile(f, members) == [k \in DOMAIN members |-> <<f, members[k]>>]

Then(u, f) == u \o InFile(f, contents[f])

(* What is linked when the first n files were passed.                      *)
IsOrder(u, n) ==
  /\ u \in [0 .. n -> Seq(Id)]
  /\ u[0] = <<>>
  /\ \A f \in 1 .. n : u[f] = Then(u[f - 1], f)

OrderFrom(u) ==
  linked = IF i <= Len(files) /\ files[i].archive
           THEN Then(u[i - 1], i) ELSE u[i - 1]

InOrder ==
  /\ \A f \in DOMAIN files : f > i /\ files[f].archive => contents[f] = <<>>
  /\ \E u : IsOrder(u, i - 1) /\ OrderFrom(u)

(* What is stored for a reference is the address of a definition.          *)
RefsRight ==
  phase \in {"gather", "done"} =>
    \A r \in DOMAIN refs : \E d \in Linked :
      /\ r[2] \in DOMAIN Obj(d).defs
      /\ refs[r] = addr[<<d, Obj(d).defs[r[2]]>>]

(* The inductive invariant with the addresses.                             *)
AInv ==
  /\ OInv /\ LinkedAreObjects /\ AlignsRight /\ Addresses /\ InOrder /\ RefsRight
  /\ phase = "done" => pos = addr

(* The sections of an object on the command line.                          *)
LEMMA ObjectSections ==
  ASSUME Tables, NEW o, IsObject(o), NEW s \in Section
  PROVE  LET al == Obj(o).sect[s].align
         IN  /\ Obj(o).sect[s].size \in Nat
             /\ al \in Alignments /\ al \in Nat \ {0} /\ DATA_ALIGN % al = 0
             /\ s = SEC_CODE => START_ADDRESS % al = 0
<1>1. files \in CommandLines
  BY DEF Tables
<1>2. /\ o[1] \in DOMAIN files /\ o[2] \in DOMAIN files[o[1]].members
  BY DEF IsObject
<1>3. /\ Obj(o).sect[s].size \in Nat
      /\ Obj(o).sect[s].align \in Alignments /\ Obj(o).sect[s].align <= DATA_ALIGN
      /\ START_ADDRESS % Obj(o).sect[SEC_CODE].align = 0
  BY <1>1, <1>2, SectionsAssumption DEF Obj
<1> QED
  BY <1>3, AlignmentsAssumption

(* Every number is a multiple of 1.                                        *)
LEMMA MultipleOfOne == \A x \in Nat : x % 1 = 0
<1> SUFFICES ASSUME NEW x \in Nat PROVE x % 1 = 0
  OBVIOUS
<1>1. x = x * 1
  OBVIOUS
<1> QED
  BY <1>1, MultipleIff

(* The larger of two alignments is a multiple of both.                     *)
LEMMA LargerAlignment ==
  ASSUME NEW a \in Alignments, NEW b \in Alignments
  PROVE  LET m == MaxOf({a, b})
         IN  m \in {a, b} /\ m \in Alignments /\ m % a = 0 /\ m % b = 0 /\ a <= m /\ b <= m
<1>1. a \in Nat /\ b \in Nat
  BY AlignmentsAssumption
<1>2. \E x \in {a, b} : \A y \in {a, b} : y <= x
  <2>1. CASE a <= b
    BY <1>1, <2>1
  <2>2. CASE b <= a
    BY <1>1, <2>2
  <2> QED
    BY <1>1, <2>1, <2>2
<1>3. MaxOf({a, b}) \in {a, b} /\ a <= MaxOf({a, b}) /\ b <= MaxOf({a, b})
  BY <1>2 DEF MaxOf
<1> QED
  BY <1>3, AlignmentsAssumption

(* link_elfobj keeps the alignments of the sections.                       *)
LEMMA ElfobjKeepsAligns ==
  ASSUME Tables, AlignsRight, LinkedAreObjects, files' = files, NEW o, IsObject(o),
         NEW unres, NEW cont, link_elfobj(o, unres, cont)
  PROVE  AlignsRight'
<1>1. \A p : Obj(p)' = Obj(p) /\ Sized(p)' = Sized(p)
  BY DEF Obj, Sized
<1>2. o \in Id /\ Linked' = Linked \cup {o}
  BY LinkedGrows DEF Tables, IsObject, link_elfobj
<1>3. \A s \in Section : aligns[s] \in Alignments
  BY DEF AlignsRight
<1>4. \A s \in Section : aligns'[s] = IF s \in Sized(o) THEN MaxOf({aligns[s], Obj(o).sect[s].align})
                                      ELSE aligns[s]
  BY DEF link_elfobj
<1>5. ASSUME NEW s \in Section
      PROVE  /\ aligns'[s] \in Alignments /\ aligns'[s] % aligns[s] = 0
             /\ s \in Sized(o) => aligns'[s] % Obj(o).sect[s].align = 0
             /\ DATA_ALIGN % aligns'[s] = 0
             /\ s = SEC_CODE => START_ADDRESS % aligns'[s] = 0
             /\ s = SEC_DATA => aligns'[s] = DATA_ALIGN
  <2> DEFINE al == Obj(o).sect[s].align
  <2>1. /\ al \in Alignments /\ DATA_ALIGN % al = 0
        /\ s = SEC_CODE => START_ADDRESS % al = 0
    BY ObjectSections
  <2>2. /\ DATA_ALIGN % aligns[s] = 0
        /\ s = SEC_CODE => START_ADDRESS % aligns[s] = 0
        /\ s = SEC_DATA => aligns[s] = DATA_ALIGN
    BY DEF AlignsRight
  <2>3. al <= DATA_ALIGN
    <3>1. files \in CommandLines /\ o[1] \in DOMAIN files /\ o[2] \in DOMAIN files[o[1]].members
      BY DEF Tables, IsObject
    <3> QED
      BY <3>1, SectionsAssumption DEF Obj
  <2>4. CASE s \in Sized(o)
    <3>1. aligns'[s] = MaxOf({aligns[s], al})
      BY <1>4, <2>4
    <3> HIDE DEF al
    <3>2. /\ aligns'[s] \in {aligns[s], al} /\ aligns'[s] \in Alignments
          /\ aligns'[s] % aligns[s] = 0 /\ aligns'[s] % al = 0
          /\ aligns[s] <= aligns'[s]
      BY <1>3, <2>1, <3>1, LargerAlignment
    <3>3. s = SEC_DATA => aligns'[s] = DATA_ALIGN
      <4>1. al \in Nat /\ DATA_ALIGN \in Nat
        BY <2>1, AlignmentsAssumption
      <4> QED
        BY <2>2, <2>3, <3>2, <4>1
    <3>4. /\ DATA_ALIGN % aligns'[s] = 0
          /\ s = SEC_CODE => START_ADDRESS % aligns'[s] = 0
      BY <2>1, <2>2, <3>2
    <3> QED
      BY <3>2, <3>3, <3>4 DEF al
  <2>5. CASE s \notin Sized(o)
    <3>1. aligns'[s] = aligns[s]
      BY <1>4, <2>5
    <3>2. aligns[s] % aligns[s] = 0
      <4>1. aligns[s] \in Alignments /\ aligns[s] \in Nat
        BY <1>3, AlignmentsAssumption
      <4>2. aligns[s] <= aligns[s]
        BY <4>1
      <4> QED
        BY <4>1, <4>2, AlignmentsAssumption
    <3> QED
      BY <1>3, <2>2, <2>5, <3>1, <3>2
  <2> QED
    BY <2>4, <2>5
<1>6. aligns' \in [Section -> Alignments]
  BY <1>5 DEF link_elfobj
<1>7. ASSUME NEW p \in Linked, NEW s \in Sized(p) PROVE aligns'[s] % Obj(p).sect[s].align = 0
  <2>1. s \in Section /\ aligns[s] % Obj(p).sect[s].align = 0
    BY DEF AlignsRight, Sized
  <2>2. IsObject(p) /\ Obj(p).sect[s].align \in Nat \ {0}
    BY <2>1, ObjectSections DEF LinkedAreObjects
  <2>3. aligns'[s] \in Nat \ {0} /\ aligns[s] \in Nat \ {0} /\ aligns'[s] % aligns[s] = 0
    BY <1>3, <1>5, <2>1, AlignmentsAssumption
  <2> QED
    BY <2>1, <2>2, <2>3, MultipleOfMultiple
<1>8. \A p \in Linked' : \A s \in Sized(p) : aligns'[s] % Obj(p).sect[s].align = 0
  <2>1. \A s \in Sized(o) : s \in Section
    BY DEF Sized
  <2> QED
    BY <1>2, <1>5, <1>7, <2>1
<1> QED
  BY <1>1, <1>5, <1>6, <1>8 DEF AlignsRight, Section, SEC_CODE, SEC_DATA

(* The end of a section is a number whatever object comes next.            *)
LEMMA EndAfterNat ==
  ASSUME Tables, NEW o, IsObject(o), NEW s \in Section, NEW e \in Nat
  PROVE  EndAfter(s, o, e) \in Nat
<1>1. Obj(o).sect[s].size \in Nat /\ Obj(o).sect[s].align \in Nat \ {0}
  BY ObjectSections
<1>2. ALIGN(e, Obj(o).sect[s].align) \in Nat
  BY <1>1, AlignUp
<1> QED
  BY <1>1, <1>2 DEF EndAfter

(* link_elfobj gives each section of a new object the next address in its  *)
(* output section.                                                         *)
LEMMA ElfobjKeepsAddresses ==
  ASSUME Tables, LinkedAreObjects, Addresses, files' = files, NEW o, IsObject(o), o \notin Linked,
         NEW unres, NEW cont, link_elfobj(o, unres, cont), phase = "link", phase' = "link"
  PROVE  Addresses'
<1> DEFINE n == Len(linked)
           al(s) == Obj(o).sect[s].align
<1>1. \A p : Obj(p)' = Obj(p) /\ Sized(p)' = Sized(p)
  BY DEF Obj, Sized
<1>2. o \in Id /\ Linked' = Linked \cup {o} /\ linked' = Append(linked, o) /\ linked \in Seq(Id)
  BY LinkedGrows DEF Tables, IsObject, link_elfobj
<1>3. /\ n \in Nat /\ Len(linked') = n + 1 /\ linked'[n + 1] = o
      /\ \A k \in 1 .. n : linked'[k] = linked[k] /\ linked[k] \in Linked
  BY <1>2 DEF Linked
<1>4. DOMAIN addr = Addressed /\ offsets \in [Section -> Nat]
  BY DEF Addresses
<1>5. DOMAIN addr' = Addressed \cup ({o} \X Sized(o))
  BY <1>4 DEF link_elfobj
<1>6. \A s \in Sized(o) : addr'[<<o, s>>] = ALIGN(offsets[s], al(s))
  <2> SUFFICES ASSUME NEW s \in Sized(o) PROVE addr'[<<o, s>>] = ALIGN(offsets[s], al(s))
    OBVIOUS
  <2>1. s \in Section
    BY DEF Sized
  <2>2. <<o, s>> \in DOMAIN addr \cup ({o} \X Sized(o))
    OBVIOUS
  <2> QED
    BY <2>1, <2>2 DEF link_elfobj
<1>7. \A x \in DOMAIN addr : x[1] # o /\ addr'[x] = addr[x]
  <2>1. \A x \in DOMAIN addr : x[1] # o
    BY <1>4 DEF Addressed
  <2> QED
    BY <2>1 DEF link_elfobj
<1>8. \A s \in Section : offsets'[s] = EndAfter(s, o, offsets[s])
  BY DEF link_elfobj, EndAfter
<1>9. offsets' \in [Section -> Nat]
  <2>1. \A s \in Section : offsets'[s] \in Nat
    BY <1>4, <1>8, EndAfterNat
  <2>2. offsets' = [s \in Section |-> offsets'[s]]
    BY DEF link_elfobj
  <2> QED
    BY <2>1, <2>2
<1>10. addr' = [x \in Addressed' |-> addr'[x]]
  <2>1. Addressed' = {x \in (Linked \cup {o}) \X Section : x[2] \in Sized(x[1])}
    BY <1>1, <1>2 DEF Addressed
  <2>2. {o} \X Sized(o) = {x \in {o} \X Section : x[2] \in Sized(x[1])}
    BY DEF Sized
  <2>3. DOMAIN addr' = Addressed'
    BY <1>5, <2>1, <2>2 DEF Addressed
  <2>4. addr' = [x \in DOMAIN addr' |-> addr'[x]]
    BY DEF link_elfobj
  <2> HIDE DEF Addressed
  <2> QED
    BY <2>3, <2>4
<1>11. ASSUME NEW s \in Section PROVE \E e : Promised(e, s, 0)'
  <2>1. PICK e : Promised(e, s, 0)
    BY DEF Addresses, Base
  <2>0. PICK d : d = [k \in 0 .. n + 1 |-> IF k = n + 1 THEN EndAfter(s, o, e[n]) ELSE e[k]]
    OBVIOUS
  <2>2. /\ e \in [0 .. n -> Nat] /\ e[0] = 0 /\ offsets[s] = e[n]
        /\ \A k \in 1 .. n : e[k] = EndAfter(s, linked[k], e[k - 1])
        /\ \A k \in 1 .. n : s \in Sized(linked[k]) =>
             addr[<<linked[k], s>>] = 0 + ALIGN(e[k - 1], Obj(linked[k]).sect[s].align)
    BY <2>1 DEF Promised, IsEnds
  <2>3. EndAfter(s, o, e[n]) \in Nat
    BY <1>3, <2>2, EndAfterNat
  <2>4. d \in [0 .. n + 1 -> Nat]
    BY <1>3, <2>0, <2>2, <2>3
  <2>5. d[n + 1] = EndAfter(s, o, e[n]) /\ \A k \in 0 .. n : d[k] = e[k]
    BY <1>3, <2>0
  <2> HIDE DEF n
  <2>6. d[0] = 0 /\ d[n] = e[n] /\ 0 \in 0 .. n
    BY <1>3, <2>2, <2>5
  <2>7. \A k \in 1 .. n : k - 1 \in 0 .. n /\ k \in 0 .. n /\ d[k] = e[k] /\ d[k - 1] = e[k - 1]
    BY <1>3, <2>5
  <2>8. \A k \in 1 .. n + 1 : d[k] = EndAfter(s, linked'[k], d[k - 1])
    <3> SUFFICES ASSUME NEW k \in 1 .. n + 1 PROVE d[k] = EndAfter(s, linked'[k], d[k - 1])
      OBVIOUS
    <3>1. CASE k = n + 1
      <4>1. k - 1 = n /\ linked'[k] = o
        BY <1>3, <3>1
      <4> QED
        BY <2>5, <2>6, <3>1, <4>1
    <3>2. CASE k \in 1 .. n
      BY <1>3, <2>2, <2>7, <3>2
    <3> QED
      BY <1>3, <3>1, <3>2
  <2>9. \A q \in Section : \A p : \A x : EndAfter(q, p, x)' = EndAfter(q, p, x)
    BY <1>1 DEF EndAfter
  <2>10. \A k \in 1 .. n + 1 : s \in Sized(linked'[k]) =>
           addr'[<<linked'[k], s>>] = 0 + ALIGN(d[k - 1], Obj(linked'[k]).sect[s].align)
    <3> SUFFICES ASSUME NEW k \in 1 .. n + 1, s \in Sized(linked'[k])
                 PROVE  addr'[<<linked'[k], s>>] = 0 + ALIGN(d[k - 1], Obj(linked'[k]).sect[s].align)
      OBVIOUS
    <3>1. CASE k = n + 1
      <4>1. k - 1 = n /\ linked'[k] = o
        BY <1>3, <3>1
      <4>2. ALIGN(e[n], al(s)) \in Nat
        <5>1. al(s) \in Nat \ {0} /\ e[n] \in Nat
          BY <1>3, <2>2, ObjectSections
        <5> QED
          BY <5>1, AlignUp
      <4>3. addr'[<<o, s>>] = ALIGN(e[n], al(s))
        BY <1>6, <2>2, <4>1
      <4> QED
        BY <2>6, <4>1, <4>2, <4>3
    <3>2. CASE k \in 1 .. n
      <4>1. linked'[k] = linked[k] /\ linked[k] \in Linked
        BY <1>3, <3>2
      <4>2. <<linked[k], s>> \in DOMAIN addr
        BY <1>4, <4>1 DEF Addressed
      <4>3. addr'[<<linked[k], s>>] = addr[<<linked[k], s>>]
        BY <1>7, <4>2
      <4> QED
        BY <2>2, <2>7, <3>2, <4>1, <4>3
    <3> QED
      BY <1>3, <3>1, <3>2
  <2>11. offsets'[s] = d[n + 1]
    BY <1>8, <2>2, <2>5
  <2>12. IsEnds(d, s, linked)'
    BY <1>3, <2>4, <2>6, <2>8, <2>9 DEF IsEnds
  <2>13. Promised(d, s, 0)'
    BY <1>1, <1>3, <2>10, <2>11, <2>12 DEF Promised
  <2> QED
    BY <2>13
<1>12. \A s \in Section : Base(s)' = 0
  BY DEF Base
<1> QED
  BY <1>9, <1>10, <1>11, <1>12 DEF Addresses

(* The loaded members of a file are named one by one.                      *)
LEMMA InFileSeq ==
  ASSUME NEW f \in Nat, NEW c \in Seq(Nat)
  PROVE  InFile(f, c) \in Seq(Id) /\ Len(InFile(f, c)) = Len(c)
<1>1. DOMAIN c = 1 .. Len(c) /\ Len(c) \in Nat /\ \A k \in 1 .. Len(c) : c[k] \in Nat
  OBVIOUS
<1>2. \A k \in 1 .. Len(c) : <<f, c[k]>> \in Id
  BY <1>1 DEF Id
<1>3. InFile(f, c) \in [1 .. Len(c) -> Id]
  BY <1>1, <1>2 DEF InFile
<1> QED
  BY <1>1, <1>3

(* Nothing is loaded: nothing is added.                                    *)
LEMMA InFileNone ==
  ASSUME NEW f, NEW u \in Seq(Id)
  PROVE  u \o InFile(f, <<>>) = u
<1>1. InFile(f, <<>>) = <<>>
  BY DEF InFile
<1> QED
  BY <1>1

(* One more is loaded: one more is at the end.                             *)
LEMMA InFileAppend ==
  ASSUME NEW f \in Nat, NEW c \in Seq(Nat), NEW m \in Nat, NEW u \in Seq(Id)
  PROVE  Append(u \o InFile(f, c), <<f, m>>) = u \o InFile(f, Append(c, m))
<1> DEFINE v == InFile(f, c)
           w == InFile(f, Append(c, m))
<1>1. v \in Seq(Id) /\ Len(v) = Len(c) /\ <<f, m>> \in Id
  BY InFileSeq DEF Id
<1>1a. Len(c) \in Nat /\ \A k \in 1 .. Len(c) : Append(c, m)[k] = c[k]
  OBVIOUS
<1>2. Append(c, m) \in Seq(Nat) /\ Append(c, m)[Len(c) + 1] = m /\ Len(Append(c, m)) = Len(c) + 1
  OBVIOUS
<1>3. w \in Seq(Id) /\ Len(w) = Len(c) + 1
  BY <1>2, InFileSeq
<1>4. w = Append(v, <<f, m>>)
  <2>1. \A k \in 1 .. Len(c) + 1 : w[k] = <<f, Append(c, m)[k]>>
    BY <1>2 DEF InFile
  <2>2. \A k \in 1 .. Len(c) : v[k] = <<f, c[k]>>
    BY DEF InFile
  <2>3. \A k \in 1 .. Len(c) + 1 : w[k] = Append(v, <<f, m>>)[k]
    <3> HIDE DEF v, w
    <3> SUFFICES ASSUME NEW k \in 1 .. Len(c) + 1 PROVE w[k] = Append(v, <<f, m>>)[k]
      OBVIOUS
    <3>1. /\ Append(v, <<f, m>>)[Len(c) + 1] = <<f, m>>
          /\ \A j \in 1 .. Len(c) : Append(v, <<f, m>>)[j] = v[j]
      BY <1>1, AppendProperties
    <3>2. CASE k = Len(c) + 1
      BY <1>2, <2>1, <3>1, <3>2
    <3>3. CASE k \in 1 .. Len(c)
      BY <1>1a, <2>1, <2>2, <3>1, <3>3
    <3>4. k = Len(c) + 1 \/ k \in 1 .. Len(c)
      BY <1>1a
    <3> QED
      BY <3>2, <3>3, <3>4
  <2> HIDE DEF v, w
  <2>4. Append(v, <<f, m>>) \in Seq(Id) /\ Len(Append(v, <<f, m>>)) = Len(c) + 1
    BY <1>1
  <2> QED
    BY <1>3, <2>3, <2>4, SMTT(40)
<1> HIDE DEF v, w
<1>5. Append(u \o v, <<f, m>>) = u \o Append(v, <<f, m>>)
  <2>1. <<<<f, m>>>> \in Seq(Id) /\ u \o v \in Seq(Id)
    BY <1>1
  <2>2. Append(u \o v, <<f, m>>) = (u \o v) \o <<<<f, m>>>> /\ Append(v, <<f, m>>) = v \o <<<<f, m>>>>
    BY <1>1, <2>1, AppendIsConcat
  <2> QED
    BY <1>1, <2>1, <2>2, ConcatAssociative, SMTT(40)
<1> QED
  BY <1>4, <1>5 DEF v, w

(* The order of the files that were passed, with one file more.            *)
LEMMA OrderGrows ==
  ASSUME NEW n \in Nat, NEW u, IsOrder(u, n), n + 1 \in DOMAIN files, Tables
  PROVE  \E w : /\ IsOrder(w, n + 1) /\ w[n + 1] = Then(u[n], n + 1)
                /\ w[n + 1] \in Seq(Id)
<1>1. PICK w : w = [f \in 0 .. n + 1 |-> IF f = n + 1 THEN Then(u[n], n + 1)
                                         ELSE u[f]]
  OBVIOUS
<1>2. contents[n + 1] \in Seq(Nat)
  BY DEF Tables
<1>3. u \in [0 .. n -> Seq(Id)] /\ u[0] = <<>> /\ \A f \in 1 .. n : u[f] = Then(u[f - 1], f)
  BY DEF IsOrder
<1>4. Then(u[n], n + 1) \in Seq(Id)
  <2>1. InFile(n + 1, contents[n + 1]) \in Seq(Id)
    BY <1>2, InFileSeq
  <2> QED
    BY <1>3, <2>1 DEF Then
<1>5. w \in [0 .. n + 1 -> Seq(Id)]
  BY <1>1, <1>3, <1>4
<1>6. /\ w[n + 1] = Then(u[n], n + 1)
      /\ \A f \in 0 .. n : w[f] = u[f]
  BY <1>1
<1>7. \A f \in 1 .. n + 1 : w[f] = Then(w[f - 1], f)
  <2> SUFFICES ASSUME NEW f \in 1 .. n + 1 PROVE w[f] = Then(w[f - 1], f)
    OBVIOUS
  <2>1. f - 1 \in 0 .. n /\ w[f - 1] = u[f - 1]
    BY <1>6
  <2>2. CASE f = n + 1
    <3>1. f - 1 = n /\ n \in 0 .. n
      BY <2>2
    <3> QED
      BY <1>6, <2>2, <3>1
  <2>3. CASE f \in 1 .. n
    BY <1>3, <1>6, <2>1, <2>3
  <2> QED
    BY <2>2, <2>3
<1>8. w[0] = <<>>
  BY <1>3, <1>6
<1> QED
  BY <1>4, <1>5, <1>6, <1>7, <1>8 DEF IsOrder

(* An object file is passed when its object is linked.                     *)
LEMMA LinkObjectInOrder ==
  ASSUME LInv, InOrder, LinkObject
  PROVE  InOrder'
<1>1. /\ Tables /\ LoadedIsLinked /\ files' = files /\ contents' = contents /\ i' = i + 1
      /\ linked' = Append(linked, <<i, 1>>)
      /\ i <= Len(files) /\ ~ files[i].archive
  BY DEF LInv, LinkObject, link_elfobj
<1>2. /\ i \in Nat /\ i - 1 \in Nat /\ i \in DOMAIN files
      /\ Len(files) \in Nat /\ DOMAIN files = 1 .. Len(files)
  BY <1>1, FilesAssumption DEF Tables
<1>3. PICK u : IsOrder(u, i - 1) /\ OrderFrom(u)
  BY DEF InOrder
<1>4. linked = u[i - 1] /\ linked \in Seq(Id)
  BY <1>1, <1>3 DEF OrderFrom, Tables
<1>5. PICK w : IsOrder(w, i - 1 + 1) /\ w[i - 1 + 1] = Then(u[i - 1], i - 1 + 1)
               /\ w[i - 1 + 1] \in Seq(Id)
  <2>1. i - 1 + 1 = i
    BY <1>2
  <2> QED
    BY <1>1, <1>2, <1>3, <2>1, OrderGrows
<1>6. i - 1 + 1 = i
  BY <1>2
<1>7. IsOrder(w, i) /\ w[i] = Then(linked, i) /\ w[i] \in Seq(Id)
  BY <1>4, <1>5, <1>6
<1>8. InFile(i, contents[i]) = << <<i, 1>> >>
  <2>1. contents[i] = <<1>>
    BY <1>1, <1>2 DEF LoadedIsLinked
  <2> QED
    BY <2>1 DEF InFile
<1>9. linked' = w[i]
  <2>1. <<i, 1>> \in Id
    BY <1>2 DEF Id
  <2> QED
    BY <1>1, <1>4, <1>7, <1>8, <2>1, AppendIsConcat DEF Then
<1>10. IsOrder(w, i - 1)'
  <2>1. i' - 1 = i
    BY <1>1, <1>2
  <2>2. \A f \in 1 .. i : w[f] = w[f - 1] \o InFile(f, contents'[f])
    BY <1>1, <1>7 DEF IsOrder, Then
  <2> QED
    BY <1>7, <2>1, <2>2 DEF IsOrder, Then
<1>11. OrderFrom(w)'
  <2>1. i' = i + 1 /\ i' - 1 = i
    BY <1>1, <1>2
  <2>1a. OrderFrom(w)' <=> linked' = IF i + 1 <= Len(files) /\ files[i + 1].archive
                                   THEN Then(w[i], i + 1) ELSE w[i]
    <3>1. \A x : \A f : Then(x, f)' = Then(x, f)
      BY <1>1 DEF Then
    <3>2. OrderFrom(w)' <=> linked' = IF i' <= Len(files') /\ files'[i'].archive
                                     THEN w[i' - 1] \o InFile(i', contents'[i']) ELSE w[i' - 1]
      BY DEF OrderFrom, Then
    <3> QED
      BY <1>1, <2>1, <3>2 DEF Then
  <2>2. CASE i + 1 <= Len(files) /\ files[i + 1].archive
    <3>1. contents[i + 1] = <<>>
      BY <1>2, <2>2 DEF InOrder
    <3>2. Then(w[i], i + 1) = w[i]
      BY <1>7, <3>1, InFileNone DEF Then
    <3> QED
      BY <1>9, <2>2, <2>1a, <3>2
  <2>3. CASE ~ (i + 1 <= Len(files) /\ files[i + 1].archive)
    BY <1>9, <2>1a, <2>3
  <2> QED
    BY <2>2, <2>3
<1>12. \A f \in DOMAIN files : f > i + 1 /\ files[f].archive => contents[f] = <<>>
  BY <1>2 DEF InOrder
<1> QED
  BY <1>1, <1>10, <1>11, <1>12 DEF InOrder

(* An archive is passed with all that was loaded of it.                    *)
LEMMA LinkArchiveEndInOrder ==
  ASSUME LInv, InOrder, LinkArchiveEnd
  PROVE  InOrder'
<1>1. /\ Tables /\ files' = files /\ contents' = contents /\ i' = i + 1
      /\ linked' = linked
      /\ i <= Len(files) /\ files[i].archive
  BY DEF LInv, LinkArchiveEnd
<1>2. /\ i \in Nat /\ i - 1 \in Nat /\ i \in DOMAIN files
      /\ Len(files) \in Nat /\ DOMAIN files = 1 .. Len(files)
  BY <1>1, FilesAssumption DEF Tables
<1>3. PICK u : IsOrder(u, i - 1) /\ OrderFrom(u)
  BY DEF InOrder
<1>4. linked = Then(u[i - 1], i)
  BY <1>1, <1>3 DEF OrderFrom
<1>5. PICK w : IsOrder(w, i - 1 + 1) /\ w[i - 1 + 1] = Then(u[i - 1], i - 1 + 1)
               /\ w[i - 1 + 1] \in Seq(Id)
  <2>1. i - 1 + 1 = i
    BY <1>2
  <2> QED
    BY <1>1, <1>2, <1>3, <2>1, OrderGrows
<1>6. i - 1 + 1 = i
  BY <1>2
<1>7. IsOrder(w, i) /\ w[i] = linked /\ w[i] \in Seq(Id)
  BY <1>4, <1>5, <1>6
<1>8. IsOrder(w, i - 1)'
  <2>1. i' - 1 = i
    BY <1>1, <1>2
  <2>2. \A f \in 1 .. i : w[f] = w[f - 1] \o InFile(f, contents'[f])
    BY <1>1, <1>7 DEF IsOrder, Then
  <2> QED
    BY <1>7, <2>1, <2>2 DEF IsOrder, Then
<1>9. OrderFrom(w)'
  <2>1. i' = i + 1 /\ i' - 1 = i
    BY <1>1, <1>2
  <2>1a. OrderFrom(w)' <=> linked' = IF i + 1 <= Len(files) /\ files[i + 1].archive
                                   THEN Then(w[i], i + 1) ELSE w[i]
    <3>1. \A x : \A f : Then(x, f)' = Then(x, f)
      BY <1>1 DEF Then
    <3>2. OrderFrom(w)' <=> linked' = IF i' <= Len(files') /\ files'[i'].archive
                                     THEN w[i' - 1] \o InFile(i', contents'[i']) ELSE w[i' - 1]
      BY DEF OrderFrom, Then
    <3> QED
      BY <1>1, <2>1, <3>2 DEF Then
  <2>2. CASE i + 1 <= Len(files) /\ files[i + 1].archive
    <3>1. contents[i + 1] = <<>>
      BY <1>2, <2>2 DEF InOrder
    <3>2. Then(w[i], i + 1) = w[i]
      BY <1>7, <3>1, InFileNone DEF Then
    <3> QED
      BY <1>1, <1>7, <2>1a, <2>2, <3>2
  <2>3. CASE ~ (i + 1 <= Len(files) /\ files[i + 1].archive)
    BY <1>1, <1>7, <2>1a, <2>3
  <2> QED
    BY <2>2, <2>3
<1>10. \A f \in DOMAIN files : f > i + 1 /\ files[f].archive => contents[f] = <<>>
  BY <1>2 DEF InOrder
<1> QED
  BY <1>1, <1>8, <1>9, <1>10 DEF InOrder

(* A member is loaded and linked at the same time.                         *)
LEMMA LinkMemberInOrder ==
  ASSUME LInv, InOrder, NEW name \in unresolved, LinkMember(name)
  PROVE  InOrder'
<1> DEFINE m == files[i].index[name]
<1>1. /\ Tables /\ files' = files /\ i' = i /\ i <= Len(files) /\ files[i].archive
      /\ name \in DOMAIN files[i].index
  BY DEF LInv, LinkMember
<1>2. /\ i \in Nat /\ i - 1 \in Nat /\ i \in DOMAIN files
      /\ Len(files) \in Nat /\ DOMAIN files = 1 .. Len(files)
  BY <1>1, FilesAssumption DEF Tables
<1>3. PICK u : IsOrder(u, i - 1) /\ OrderFrom(u)
  BY DEF InOrder
<1>4. linked = Then(u[i - 1], i)
  BY <1>1, <1>3 DEF OrderFrom
<1>5. CASE AlreadyLoaded(m)
  <2>1. contents' = contents /\ linked' = linked
    BY <1>5 DEF LinkMember
  <2>2. IsOrder(u, i - 1)' /\ OrderFrom(u)'
    BY <1>1, <1>3, <2>1 DEF IsOrder, OrderFrom, Then
  <2> QED
    BY <1>1, <2>1, <2>2 DEF InOrder
<1>6. CASE ~ AlreadyLoaded(m)
  <2>1. contents' = Loaded(m) /\ linked' = Append(linked, <<i, m>>)
    BY <1>6 DEF LinkMember, link_elfobj
  <2>2. m \in Nat
    <3>1. files \in CommandLines
      BY <1>1 DEF Tables
    <3>2. /\ DOMAIN files[i].members \subseteq Nat
          /\ \A n \in DOMAIN files[i].index : files[i].index[n] \in DOMAIN files[i].members
      BY <1>2, <3>1, FilesAssumption
    <3> QED
      BY <1>1, <3>2
  <2> HIDE DEF m
  <2>3. contents[i] \in Seq(Nat) /\ contents \in [DOMAIN files -> Seq(Nat)]
    BY <1>1, <1>2 DEF Tables
  <2>4. /\ contents'[i] = Append(contents[i], m)
        /\ \A f \in DOMAIN files : f # i => contents'[f] = contents[f]
    BY <1>2, <2>1, <2>3 DEF Loaded
  <2>5. i - 1 \in 0 .. i - 1 /\ u[i - 1] \in Seq(Id)
    BY <1>2, <1>3 DEF IsOrder
  <2>6. linked' = u[i - 1] \o InFile(i, contents'[i])
    <3>1. Append(u[i - 1] \o InFile(i, contents[i]), <<i, m>>)
            = u[i - 1] \o InFile(i, Append(contents[i], m))
      BY <1>2, <2>2, <2>3, <2>5, InFileAppend
    <3> QED
      BY <1>4, <2>1, <2>4, <3>1 DEF Then
  <2>7. OrderFrom(u)'
    BY <1>1, <2>6 DEF OrderFrom, Then
  <2>8. \A f \in 1 .. i - 1 : contents'[f] = contents[f]
    BY <1>2, <2>4
  <2>9. IsOrder(u, i - 1)'
    BY <1>1, <1>3, <2>8 DEF IsOrder, Then
  <2>10. \A f \in DOMAIN files : f > i /\ files[f].archive => contents'[f] = <<>>
    BY <1>2, <2>4 DEF InOrder
  <2> QED
    BY <1>1, <2>7, <2>9, <2>10 DEF InOrder
<1> QED
  BY <1>5, <1>6

(* What the recursion of SectionBase says: each section follows the one    *)
(* before, at a multiple of its alignment.                                 *)
IsBase(f) ==
  f = [s \in Section |->
         ALIGN(IF s = 0 THEN START_ADDRESS ELSE f[s - 1] + offsets[s - 1], aligns[s])]

(* The recursion of SectionBase has one solution.                          *)
LEMMA SectionBaseIs ==
  /\ SectionBase[0] = ALIGN(START_ADDRESS, aligns[0])
  /\ SectionBase[1] = ALIGN(SectionBase[0] + offsets[0], aligns[1])
  /\ SectionBase[2] = ALIGN(SectionBase[1] + offsets[1], aligns[2])
  /\ SectionBase[3] = ALIGN(SectionBase[2] + offsets[2], aligns[3])
<1>1. SectionBase = CHOOSE f : IsBase(f)
  BY DEF SectionBase, IsBase
<1>2. \E f : IsBase(f)
  <2> DEFINE b0 == ALIGN(START_ADDRESS, aligns[0])
             b1 == ALIGN(b0 + offsets[0], aligns[1])
             b2 == ALIGN(b1 + offsets[1], aligns[2])
             b3 == ALIGN(b2 + offsets[2], aligns[3])
  <2>3. /\ b1 = ALIGN(b0 + offsets[0], aligns[1])
        /\ b2 = ALIGN(b1 + offsets[1], aligns[2])
        /\ b3 = ALIGN(b2 + offsets[2], aligns[3])
        /\ b0 = ALIGN(START_ADDRESS, aligns[0])
    OBVIOUS
  <2> HIDE DEF b0, b1, b2, b3
  <2> DEFINE f == [s \in Section |-> IF s = 0 THEN b0 ELSE IF s = 1 THEN b1
                                     ELSE IF s = 2 THEN b2 ELSE b3]
  <2>1. f[0] = b0 /\ f[1] = b1 /\ f[2] = b2 /\ f[3] = b3
    <3>1. 0 \in Section /\ 1 \in Section /\ 2 \in Section /\ 3 \in Section
      BY DEF Section
    <3> QED
      BY <3>1
  <2>2. f = [s \in Section |-> f[s]]
    OBVIOUS
  <2> HIDE DEF f
  <2>4. ASSUME NEW s \in Section
        PROVE  f[s] = ALIGN(IF s = 0 THEN START_ADDRESS ELSE f[s - 1] + offsets[s - 1], aligns[s])
    <3>1. CASE s = 0
      BY <2>1, <2>3, <3>1
    <3>2. CASE s = 1
      BY <2>1, <2>3, <3>2
    <3>3. CASE s = 2
      BY <2>1, <2>3, <3>3
    <3>4. CASE s = 3
      BY <2>1, <2>3, <3>4
    <3> QED
      BY <3>1, <3>2, <3>3, <3>4 DEF Section
  <2>5. IsBase(f)
    BY <2>2, <2>4 DEF IsBase
  <2> QED
    BY <2>5
<1>3. IsBase(SectionBase)
  BY <1>1, <1>2
<1>4. \A s \in Section : SectionBase[s] =
        ALIGN(IF s = 0 THEN START_ADDRESS ELSE SectionBase[s - 1] + offsets[s - 1], aligns[s])
  <2> DEFINE b == SectionBase
  <2>1. IsBase(b)
    BY <1>3
  <2> HIDE DEF b
  <2>2. \A s \in Section : b[s] =
          ALIGN(IF s = 0 THEN START_ADDRESS ELSE b[s - 1] + offsets[s - 1], aligns[s])
    BY <2>1 DEF IsBase
  <2> QED
    BY <2>2 DEF b
<1>5. 0 \in Section /\ 1 \in Section /\ 2 \in Section /\ 3 \in Section
      /\ 1 - 1 = 0 /\ 2 - 1 = 1 /\ 3 - 1 = 2
  BY DEF Section
<1> HIDE DEF SectionBase
<1>6. SectionBase[0] = ALIGN(START_ADDRESS, aligns[0])
  BY <1>4, <1>5
<1>7. SectionBase[1] = ALIGN(SectionBase[0] + offsets[0], aligns[1])
  BY <1>4, <1>5
<1>8. SectionBase[2] = ALIGN(SectionBase[1] + offsets[1], aligns[2])
  BY <1>4, <1>5
<1>9. SectionBase[3] = ALIGN(SectionBase[2] + offsets[2], aligns[3])
  BY <1>4, <1>5
<1> QED
  BY <1>6, <1>7, <1>8, <1>9

(* The sections are at multiples of their alignments, one after the other. *)
LEMMA SectionsApart ==
  ASSUME AlignsRight, offsets \in [Section -> Nat]
  PROVE  /\ \A s \in Section : SectionBase[s] \in Nat /\ SectionBase[s] % aligns[s] = 0
         /\ \A s, t \in Section : s < t => SectionBase[s] + offsets[s] <= SectionBase[t]
<1> DEFINE b == SectionBase
<1>1. \A s \in Section : aligns[s] \in Nat \ {0} /\ offsets[s] \in Nat
  BY AlignmentsAssumption DEF AlignsRight
<1>2. 0 \in Section /\ 1 \in Section /\ 2 \in Section /\ 3 \in Section
  BY DEF Section
<1>3. START_ADDRESS \in Nat
  BY SectionsAssumption
<1>4. /\ b[0] = ALIGN(START_ADDRESS, aligns[0])
      /\ b[1] = ALIGN(b[0] + offsets[0], aligns[1])
      /\ b[2] = ALIGN(b[1] + offsets[1], aligns[2])
      /\ b[3] = ALIGN(b[2] + offsets[2], aligns[3])
  BY SectionBaseIs
<1> HIDE DEF b
<1>5. b[0] \in Nat /\ b[0] % aligns[0] = 0
  <2>1. aligns[0] \in Nat \ {0}
    BY <1>1, <1>2
  <2> QED
    BY <1>3, <1>4, <2>1, AlignUp
<1>6. b[1] \in Nat /\ b[1] % aligns[1] = 0 /\ b[0] + offsets[0] <= b[1]
  <2>1. b[0] + offsets[0] \in Nat /\ aligns[1] \in Nat \ {0}
    BY <1>1, <1>2, <1>5
  <2> QED
    BY <1>4, <2>1, AlignUp, ZenonT(40)
<1>7. b[2] \in Nat /\ b[2] % aligns[2] = 0 /\ b[1] + offsets[1] <= b[2]
  <2>1. b[1] + offsets[1] \in Nat /\ aligns[2] \in Nat \ {0}
    BY <1>1, <1>2, <1>6
  <2>2. b[2] = ALIGN(b[1] + offsets[1], aligns[2])
    BY <1>4
  <2> QED
    BY <2>1, <2>2, AlignUp
<1>8. b[3] \in Nat /\ b[3] % aligns[3] = 0 /\ b[2] + offsets[2] <= b[3]
  <2>1. b[2] + offsets[2] \in Nat /\ aligns[3] \in Nat \ {0}
    BY <1>1, <1>2, <1>7
  <2>2. b[3] = ALIGN(b[2] + offsets[2], aligns[3])
    BY <1>4
  <2> QED
    BY <2>1, <2>2, AlignUp
<1>9. offsets[0] \in Nat /\ offsets[1] \in Nat /\ offsets[2] \in Nat
  BY <1>1, <1>2
<1>10. \A s \in Section : b[s] \in Nat /\ b[s] % aligns[s] = 0
  BY <1>5, <1>6, <1>7, <1>8 DEF Section
<1>11. \A s, t \in Section : s < t => b[s] + offsets[s] <= b[t]
  <2> SUFFICES ASSUME NEW s \in Section, NEW t \in Section, s < t
               PROVE  b[s] + offsets[s] <= b[t]
    OBVIOUS
  <2>1. b[1] <= b[2] /\ b[2] <= b[3]
    BY <1>5, <1>6, <1>7, <1>8, <1>9
  <2>2. CASE s = 0
    BY <1>5, <1>6, <1>7, <1>8, <1>9, <2>1, <2>2 DEF Section
  <2>3. CASE s = 1
    BY <1>5, <1>6, <1>7, <1>8, <1>9, <2>1, <2>3 DEF Section
  <2>4. CASE s = 2
    BY <1>5, <1>6, <1>7, <1>8, <1>9, <2>1, <2>4 DEF Section
  <2> QED
    BY <2>2, <2>3, <2>4 DEF Section
<1> QED
  BY <1>10, <1>11 DEF b

(* fix_section_size: the second time the sections get their addresses.     *)
LEMMA SameLoad ==
  ASSUME AlignsRight, offsets \in [Section -> Nat], NEW s \in Section
  PROVE  fix_section_size(offsets)[s] = SectionBase[s]
<1> DEFINE b == SectionBase
           rodata == ALIGN(START_ADDRESS + offsets[0], aligns[1])
           data == ALIGN(rodata + offsets[1], aligns[2])
<1>1. /\ b[0] = ALIGN(START_ADDRESS, aligns[0])
      /\ b[1] = ALIGN(b[0] + offsets[0], aligns[1])
      /\ b[2] = ALIGN(b[1] + offsets[1], aligns[2])
      /\ b[3] = ALIGN(b[2] + offsets[2], aligns[3])
  BY SectionBaseIs
<1>2. b[2] \in Nat /\ b[2] % aligns[2] = 0 /\ offsets[2] \in Nat
  BY SectionsApart DEF Section
<1>3. aligns[0] \in Nat \ {0} /\ aligns[2] \in Nat \ {0} /\ aligns[3] \in Nat \ {0}
  <2>1. \A t \in Section : aligns[t] \in Nat \ {0}
    BY AlignmentsAssumption DEF AlignsRight
  <2> QED
    BY <2>1 DEF Section
<1> HIDE DEF b
<1>4. b[0] = START_ADDRESS
  <2>1. START_ADDRESS % aligns[0] = 0 /\ START_ADDRESS \in Nat
    BY SectionsAssumption DEF AlignsRight, SEC_CODE
  <2> QED
    BY <1>1, <1>3, <2>1, AlignOfMultiple
<1>5. b[1] = rodata /\ b[2] = data
  BY <1>1, <1>4
<1>6. b[3] = b[2] + ALIGN(offsets[2], aligns[3])
  <2>1. aligns[2] % aligns[3] = 0
    BY DEF AlignsRight, SEC_DATA, Section
  <2>2. b[2] % aligns[3] = 0
    BY <1>2, <1>3, <2>1, MultipleOfMultiple
  <2> QED
    BY <1>1, <1>2, <1>3, <2>2, AlignFrom
<1> DEFINE bss == data + ALIGN(offsets[2], aligns[3])
<1>7. fix_section_size(offsets)[s] = b[s]
  <2>1. fix_section_size(offsets) = [t \in Section |-> CASE t = 0 -> START_ADDRESS [] t = 1 -> rodata
                                                         [] t = 2 -> data [] t = 3 -> bss]
    BY DEF fix_section_size
  <2> HIDE DEF rodata, data, bss
  <2>2. fix_section_size(offsets)[s] = CASE s = 0 -> START_ADDRESS [] s = 1 -> rodata
                                         [] s = 2 -> data [] s = 3 -> bss
    BY <2>1, Zenon
  <2>3. CASE s = 0
    <3>1. fix_section_size(offsets)[s] = START_ADDRESS
      BY <2>2, <2>3
    <3> QED
      BY <1>4, <2>3, <3>1
  <2>4. CASE s = 1
    <3>1. fix_section_size(offsets)[s] = rodata
      BY <2>2, <2>4
    <3> QED
      BY <1>5, <2>4, <3>1
  <2>5. CASE s = 2
    <3>1. fix_section_size(offsets)[s] = data
      BY <2>2, <2>5
    <3> QED
      BY <1>5, <2>5, <3>1
  <2>6. CASE s = 3
    <3>1. fix_section_size(offsets)[s] = bss
      BY <2>2, <2>6
    <3>2. bss = b[2] + ALIGN(offsets[2], aligns[3])
      BY <1>5 DEF bss
    <3> QED
      BY <1>6, <2>6, <3>1, <3>2
  <2> QED
    BY <2>3, <2>4, <2>5, <2>6 DEF Section
<1> QED
  BY <1>7 DEF b

(* What is laid out stays as long as link_files does not touch it.         *)
LEMMA AddressesKept ==
  ASSUME Addresses, files' = files, linked' = linked, offsets' = offsets, addr' = addr,
         aligns' = aligns, \A s \in Section : Base(s)' = Base(s)
  PROVE  Addresses'
<1>1. Linked' = Linked /\ \A o : Obj(o)' = Obj(o) /\ Sized(o)' = Sized(o)
  BY DEF Linked, Obj, Sized
<1>2. Addressed' = Addressed
  BY <1>1 DEF Addressed
<1>3. \A s, o, e : EndAfter(s, o, e)' = EndAfter(s, o, e)
  BY <1>1 DEF EndAfter
<1>4. \A e, s : IsEnds(e, s, linked)' = IsEnds(e, s, linked)
  BY <1>3 DEF IsEnds
<1>5. \A e, s, b : Promised(e, s, b)' = Promised(e, s, b)
  BY <1>1, <1>4 DEF Promised
<1>6. ASSUME NEW s \in Section PROVE (\E e : Promised(e, s, Base(s)))'
  <2>1. PICK e : Promised(e, s, Base(s))
    BY DEF Addresses
  <2>2. PICK b : b = Base(s) /\ Base(s)' = b
    OBVIOUS
  <2>3. Promised(e, s, b)'
    BY <1>5, <2>1, <2>2
  <2> QED
    BY <2>2, <2>3
<1> QED
  BY <1>2, <1>6 DEF Addresses

(* link_files starts without an address.                                   *)
LEMMA InitAInv == LdInit => AInv
<1> SUFFICES ASSUME LdInit PROVE AInv
  OBVIOUS
<1>1. OInv /\ Tables
  BY InitOInv DEF OInv, LInv
<1>2. linked = <<>> /\ Linked = {} /\ phase = "link" /\ i = 1
  BY DEF LdInit, Linked
<1>3. LinkedAreObjects
  BY <1>2 DEF LinkedAreObjects
<1>4. AlignsRight
  <2>1. \A s \in Section : aligns[s] = IF s = SEC_DATA THEN DATA_ALIGN ELSE 1
    BY DEF LdInit
  <2>2. DATA_ALIGN \in Nat /\ DATA_ALIGN <= DATA_ALIGN /\ START_ADDRESS \in Nat
    <3>1. DATA_ALIGN \in Nat
      BY AlignmentsAssumption
    <3>2. START_ADDRESS \in Nat
      BY SectionsAssumption
    <3> QED
      BY <3>1, <3>2
  <2>3. DATA_ALIGN % DATA_ALIGN = 0 /\ DATA_ALIGN % 1 = 0 /\ START_ADDRESS % 1 = 0
    BY <2>2, AlignmentsAssumption, MultipleOfOne
  <2>4. aligns \in [Section -> Alignments]
    BY AlignmentsAssumption DEF LdInit
  <2>5. aligns[SEC_CODE] = 1 /\ aligns[SEC_DATA] = DATA_ALIGN
    BY <2>1 DEF Section, SEC_CODE, SEC_DATA
  <2>6. \A s \in Section : DATA_ALIGN % aligns[s] = 0
    BY <2>1, <2>3
  <2> QED
    BY <1>2, <2>3, <2>4, <2>5, <2>6 DEF AlignsRight
<1>5. Addresses
  <2>1. addr = [x \in Addressed |-> addr[x]]
    <3>1. Addressed = {} /\ addr = <<>>
      BY <1>2 DEF LdInit, Addressed
    <3> QED
      BY <3>1
  <2>2. offsets \in [Section -> Nat] /\ \A s \in Section : offsets[s] = 0 /\ Base(s) = 0
    BY <1>2 DEF LdInit, Base
  <2>3. ASSUME NEW s \in Section PROVE \E e : Promised(e, s, 0)
    <3>1. PICK e : e = [k \in 0 .. 0 |-> 0]
      OBVIOUS
    <3>2. e \in [0 .. 0 -> Nat] /\ e[0] = 0 /\ Len(linked) = 0 /\ 1 .. 0 = {}
      BY <1>2, <3>1
    <3> QED
      BY <2>2, <3>2 DEF Promised, IsEnds
  <2> QED
    BY <2>1, <2>2, <2>3 DEF Addresses
<1>6. InOrder
  <2>1. \A f \in DOMAIN files : f > i /\ files[f].archive => contents[f] = <<>>
    BY DEF LdInit
  <2>2. PICK u : u = [f \in 0 .. 0 |-> <<>>]
    OBVIOUS
  <2>3. <<>> \in Seq(Id) /\ i - 1 = 0 /\ 1 .. 0 = {} /\ u[0] = <<>>
    BY <1>2, <2>2
  <2>4. IsOrder(u, i - 1)
    BY <2>2, <2>3 DEF IsOrder
  <2>5. OrderFrom(u)
    <3>1. CASE i <= Len(files) /\ files[i].archive
      <4>1. i \in DOMAIN files
        BY <1>1, <1>2, <3>1, FilesAssumption DEF Tables
      <4>2. contents[i] = <<>>
        BY <3>1, <4>1 DEF LdInit
      <4>3. Then(u[i - 1], i) = <<>>
        BY <2>3, <4>2, InFileNone DEF Then
      <4> QED
        BY <1>2, <3>1, <4>3 DEF OrderFrom
    <3>2. CASE ~ (i <= Len(files) /\ files[i].archive)
      BY <1>2, <2>3, <3>2 DEF OrderFrom
    <3> QED
      BY <3>1, <3>2
  <2> QED
    BY <2>1, <2>4, <2>5 DEF InOrder
<1>7. RefsRight
  BY <1>2 DEF RefsRight
<1> QED
  BY <1>1, <1>2, <1>3, <1>4, <1>5, <1>6, <1>7 DEF AInv

(* The objects that are linked, and one more.                              *)
LEMMA PushKeepsObjects ==
  ASSUME Tables, LinkedAreObjects, files' = files, NEW o, IsObject(o), linked' = Append(linked, o)
  PROVE  LinkedAreObjects'
<1>1. Linked' = Linked \cup {o}
  BY LinkedGrows DEF Tables, IsObject
<1>2. \A p : IsObject(p)' = IsObject(p)
  BY DEF IsObject
<1> QED
  BY <1>1, <1>2 DEF LinkedAreObjects

(* An object file is one object, and it was not linked before.             *)
LEMMA LinkObjectAInv == AInv /\ LinkObject => AInv'
<1> SUFFICES ASSUME AInv, LinkObject PROVE AInv'
  OBVIOUS
<1>1. /\ OInv /\ LInv /\ Tables /\ LinkedIsLoaded /\ LinkedAreObjects /\ AlignsRight
      /\ Addresses /\ InOrder
  BY DEF AInv, OInv, LInv
<1>2. /\ files' = files /\ phase = "link" /\ phase' = "link"
      /\ link_elfobj(<<i, 1>>, unresolved, contents)
      /\ i <= Len(files) /\ ~ files[i].archive
  BY DEF LinkObject
<1>3. i \in Nat /\ i \in DOMAIN files /\ DOMAIN files[i].members = {1}
  BY <1>1, <1>2, FilesAssumption DEF Tables
<1>4. IsObject(<<i, 1>>)
  BY <1>3 DEF IsObject, Id
<1>5. <<i, 1>> \notin Linked
  <2> SUFFICES ASSUME <<i, 1>> \in Linked PROVE FALSE
    OBVIOUS
  <2>1. <<i, 1>>[1] < i
    BY <1>1, <1>2 DEF LinkedIsLoaded
  <2> QED
    BY <1>3, <2>1
<1>6. LinkedAreObjects'
  BY <1>1, <1>2, <1>4, PushKeepsObjects DEF link_elfobj
<1>7. AlignsRight'
  BY <1>1, <1>2, <1>4, ElfobjKeepsAligns
<1>8. Addresses'
  BY <1>1, <1>2, <1>4, <1>5, ElfobjKeepsAddresses
<1>9. OInv' /\ InOrder'
  BY <1>1, LinkObjectOInv, LinkObjectInOrder
<1> QED
  BY <1>2, <1>6, <1>7, <1>8, <1>9 DEF AInv, RefsRight

(* A member that is loaded was not linked before.                          *)
LEMMA LinkMemberAInv == \A name \in unresolved : AInv /\ LinkMember(name) => AInv'
<1> SUFFICES ASSUME NEW name \in unresolved, AInv, LinkMember(name) PROVE AInv'
  OBVIOUS
<1> DEFINE m == files[i].index[name]
<1>1. /\ OInv /\ LInv /\ Tables /\ LinkedIsLoaded /\ LinkedAreObjects /\ AlignsRight
      /\ Addresses /\ InOrder
  BY DEF AInv, OInv, LInv
<1>2. /\ files' = files /\ phase = "link" /\ phase' = "link"
      /\ i <= Len(files) /\ files[i].archive /\ name \in DOMAIN files[i].index
  BY DEF LinkMember
<1>3. i \in Nat /\ i \in DOMAIN files
  BY <1>1, <1>2, FilesAssumption DEF Tables
<1>4. m \in DOMAIN files[i].members /\ m \in Nat
  BY <1>1, <1>2, <1>3, FilesAssumption DEF Tables
<1>5. OInv' /\ InOrder'
  BY <1>1, LinkMemberOInv, LinkMemberInOrder
<1>6. CASE AlreadyLoaded(m)
  <2>1. linked' = linked /\ offsets' = offsets /\ aligns' = aligns /\ addr' = addr
    BY <1>6 DEF LinkMember
  <2>2. /\ Linked' = Linked /\ (\A o : IsObject(o)' = IsObject(o) /\ Obj(o)' = Obj(o))
        /\ \A o : Sized(o)' = Sized(o)
    BY <1>2, <2>1 DEF Linked, IsObject, Obj, Sized
  <2>3. LinkedAreObjects' /\ AlignsRight'
    BY <1>1, <2>1, <2>2 DEF LinkedAreObjects, AlignsRight
  <2>4. Addresses'
    <3>1. \A s \in Section : Base(s)' = Base(s)
      BY <1>2 DEF Base
    <3> QED
      BY <1>1, <1>2, <2>1, <3>1, AddressesKept
  <2> QED
    BY <1>2, <1>5, <2>3, <2>4 DEF AInv, RefsRight
<1>7. CASE ~ AlreadyLoaded(m)
  <2>1. link_elfobj(<<i, m>>, Taken(name), Loaded(m))
    BY <1>7 DEF LinkMember
  <2>2. <<i, m>> \notin Members(i)
    BY <1>7 DEF AlreadyLoaded
  <2> HIDE DEF m
  <2>3. IsObject(<<i, m>>) /\ <<i, m>>[1] = i
    BY <1>3, <1>4 DEF IsObject, Id
  <2>4. <<i, m>> \notin Linked
    BY <1>1, <1>2, <2>2, <2>3 DEF LinkedIsLoaded
  <2>5. LinkedAreObjects'
    BY <1>1, <1>2, <2>1, <2>3, PushKeepsObjects DEF link_elfobj
  <2>6. AlignsRight'
    BY <1>1, <1>2, <2>1, <2>3, ElfobjKeepsAligns
  <2>7. Addresses'
    BY <1>1, <1>2, <2>1, <2>3, <2>4, ElfobjKeepsAddresses
  <2> QED
    BY <1>2, <1>5, <2>5, <2>6, <2>7 DEF AInv, RefsRight
<1> QED
  BY <1>6, <1>7

(* Only Layout, resolve_relas and Gather change what is laid out once the  *)
(* last object is linked.                                                  *)
LEMMA OtherAInv ==
  ASSUME AInv, OInv', InOrder', files' = files, linked' = linked, offsets' = offsets,
         aligns' = aligns, addr' = addr, refs' = refs, pos' = pos,
         \/ phase' = phase
         \/ phase = "link" /\ phase' \in {"layout", "failed"}
  PROVE  AInv'
<1>1. /\ Linked' = Linked
      /\ \A o : IsObject(o)' = IsObject(o) /\ Obj(o)' = Obj(o) /\ Sized(o)' = Sized(o)
  BY DEF Linked, IsObject, Obj, Sized
<1>2. LinkedAreObjects' /\ AlignsRight'
  BY <1>1 DEF AInv, LinkedAreObjects, AlignsRight
<1>3. \A s \in Section : Base(s)' = Base(s)
  <2>1. SectionBase' = SectionBase
    BY DEF SectionBase
  <2> HIDE DEF SectionBase
  <2> QED
    BY <2>1 DEF Base
<1>4. Addresses'
  BY <1>3, AddressesKept DEF AInv
<1>5. RefsRight'
  BY <1>1 DEF AInv, RefsRight
<1> QED
  BY <1>2, <1>4, <1>5 DEF AInv

(* Without a step of link_archive or link_elfobj the order is the same.    *)
LEMMA OrderKept ==
  ASSUME InOrder, files' = files, contents' = contents, linked' = linked, i' = i
  PROVE  InOrder'
<1>1. \A u, n : IsOrder(u, n)' = IsOrder(u, n)
  BY DEF IsOrder, Then
<1>2. PICK u : IsOrder(u, i - 1) /\ OrderFrom(u)
  BY DEF InOrder
<1>3. IsOrder(u, i - 1)'
  BY <1>2 DEF IsOrder, Then
<1>4. OrderFrom(u)'
  BY <1>2 DEF OrderFrom, Then
<1> QED
  BY <1>3, <1>4 DEF InOrder

(* link_files adds the base of its section to every address.               *)
LEMMA LayoutAInv ==
  ASSUME AInv, Layout, OInv'
  PROVE  AInv'
<1>1. /\ OInv /\ LInv /\ Tables /\ LinkedAreObjects /\ AlignsRight /\ Addresses /\ InOrder
      /\ offsets \in [Section -> Nat]
  BY DEF AInv, OInv, LInv, Addresses
<1>2. /\ phase = "layout" /\ phase' = "relocate"
      /\ UNCHANGED <<files, i, unresolved, contents, linked, offsets, aligns, refs, pos, size>>
  BY DEF Layout
<1>3. /\ Linked' = Linked
      /\ \A o : IsObject(o)' = IsObject(o) /\ Obj(o)' = Obj(o) /\ Sized(o)' = Sized(o)
  BY <1>2 DEF Linked, IsObject, Obj, Sized
<1>4. LinkedAreObjects' /\ AlignsRight' /\ InOrder'
  BY <1>1, <1>2, <1>3, OrderKept DEF LinkedAreObjects, AlignsRight
<1>5. DOMAIN addr = Addressed /\ Addressed' = Addressed
  BY <1>1, <1>3 DEF Addresses, Addressed
<1>6. /\ addr' = [x \in Addressed |-> addr'[x]]
      /\ \A x \in Addressed : addr'[x] = addr[x] + SectionBase[x[2]]
  BY <1>5 DEF Layout
<1>7. SectionBase' = SectionBase
  BY <1>2 DEF SectionBase
<1>8. \A s \in Section : SectionBase[s] \in Nat
  BY <1>1, SectionsApart
<1> HIDE DEF SectionBase
<1>9. ASSUME NEW s \in Section PROVE (\E e : Promised(e, s, Base(s)))'
  <2>1. PICK e : Promised(e, s, 0)
    BY <1>1, <1>2 DEF Addresses, Base
  <2>2. PICK b : b = SectionBase[s]
    OBVIOUS
  <2>3. Base(s)' = b
    BY <1>2, <1>7, <2>2 DEF Base
  <2>4. IsEnds(e, s, linked)'
    <3>1. IsEnds(e, s, linked)
      BY <2>1 DEF Promised
    <3>2. \A q, o, x : EndAfter(q, o, x)' = EndAfter(q, o, x)
      BY <1>3 DEF EndAfter
    <3> QED
      BY <1>2, <3>1, <3>2 DEF IsEnds
  <2>5. ASSUME NEW k \in 1 .. Len(linked), s \in Sized(linked[k])
        PROVE  addr'[<<linked[k], s>>] = b + ALIGN(e[k - 1], Obj(linked[k]).sect[s].align)
    <3> DEFINE al == ALIGN(e[k - 1], Obj(linked[k]).sect[s].align)
    <3>1. linked[k] \in Linked /\ IsObject(linked[k])
      BY <1>1 DEF Linked, LinkedAreObjects, Tables
    <3>2. <<linked[k], s>> \in Addressed
      BY <2>5, <3>1 DEF Addressed
    <3>3. e[k - 1] \in Nat
      <4>1. e \in [0 .. Len(linked) -> Nat] /\ Len(linked) \in Nat
        BY <1>1, <2>1 DEF Promised, IsEnds, Tables
      <4> QED
        BY <4>1
    <3>4. Obj(linked[k]).sect[s].align \in Nat \ {0}
      BY <1>1, <3>1, ObjectSections
    <3>5. al \in Nat
      BY <3>3, <3>4, AlignUp
    <3>6. addr[<<linked[k], s>>] = 0 + al
      BY <2>1, <2>5 DEF Promised
    <3>7. addr'[<<linked[k], s>>] = addr[<<linked[k], s>>] + b
      BY <1>6, <2>2, <3>2
    <3>8. b \in Nat
      BY <1>8, <2>2
    <3> HIDE DEF al
    <3> QED
      BY <3>5, <3>6, <3>7, <3>8 DEF al
  <2>6. Promised(e, s, b)'
    <3>1. offsets[s] = e[Len(linked)]
      BY <2>1 DEF Promised
    <3> QED
      BY <1>2, <1>3, <2>4, <2>5, <3>1 DEF Promised
  <2> QED
    BY <2>3, <2>6
<1>10. Addresses'
  BY <1>1, <1>2, <1>5, <1>6, <1>9 DEF Addresses
<1>11. RefsRight'
  BY <1>2 DEF RefsRight
<1> QED
  BY <1>2, <1>4, <1>10, <1>11 DEF AInv

(* find_symbol_from_all returns the first definition there is.             *)
LEMMA FirstDefiner ==
  ASSUME Tables, NEW n, Found(n, contents)
  PROVE  \E f \in DOMAIN files : \E k \in DOMAIN contents[f] :
           find_symbol_from_all(n) = <<f, contents[f][k]>> /\ Has(f, k, n, contents)
<1> DEFINE D == Definers(n, contents)
           F == {f \in DOMAIN files : \E k \in DOMAIN contents[f] : <<f, k>> \in D}
<1>1. \A p \in D : /\ p[1] \in DOMAIN files /\ p[2] \in DOMAIN contents[p[1]]
                   /\ p = <<p[1], p[2]>> /\ Has(p[1], p[2], n, contents)
  <2> SUFFICES ASSUME NEW p \in D
               PROVE  /\ p[1] \in DOMAIN files /\ p[2] \in DOMAIN contents[p[1]]
                      /\ p = <<p[1], p[2]>> /\ Has(p[1], p[2], n, contents)
    OBVIOUS
  <2>1. PICK f \in DOMAIN files : p \in {f} \X DOMAIN contents[f]
    BY DEF Definers
  <2>2. n \in DOMAIN files[p[1]].members[contents[p[1]][p[2]]].defs
    BY DEF Definers
  <2> QED
    BY <2>1, <2>2 DEF Has
<1>2. F \in SUBSET Nat /\ \A f \in DOMAIN files : DOMAIN contents[f] \in SUBSET Nat
  BY FilesAssumption DEF Tables
<1>3. D # {}
  BY DEF Found
<1> HIDE DEF D
<1>4. F # {}
  BY <1>1, <1>3
<1>5. PICK f \in F : \A g \in F : f <= g
  BY <1>2, <1>4, LeastNat
<1> DEFINE K == {k \in DOMAIN contents[f] : <<f, k>> \in D}
<1>6. K # {} /\ K \in SUBSET Nat
  BY <1>2, <1>5
<1>7. PICK k \in K : \A l \in K : k <= l
  <2> HIDE DEF K
  <2> QED
    BY <1>6, LeastNat
<1> DEFINE IsFirst(p) == \A q \in D : p[1] < q[1] \/ (p[1] = q[1] /\ p[2] <= q[2])
<1>8. <<f, k>> \in D /\ IsFirst(<<f, k>>)
  <2>1. <<f, k>> \in D
    BY <1>7
  <2>2. ASSUME NEW q \in D PROVE f < q[1] \/ (f = q[1] /\ k <= q[2])
    <3>1. q[1] \in F /\ q = <<q[1], q[2]>> /\ q[2] \in DOMAIN contents[q[1]]
      BY <1>1
    <3>2. f <= q[1] /\ f \in Nat /\ q[1] \in Nat
      BY <1>2, <1>5, <3>1
    <3>3. CASE f = q[1]
      <4>1. q[2] \in K
        BY <3>1, <3>3
      <4> QED
        BY <1>7, <3>3, <4>1
    <3> QED
      BY <3>2, <3>3
  <2> QED
    BY <2>1, <2>2
<1> DEFINE p == CHOOSE p \in D : IsFirst(p)
<1>9. p \in D
  BY <1>8
<1>10. find_symbol_from_all(n) = <<p[1], contents[p[1]][p[2]]>>
  BY DEF find_symbol_from_all, D
<1> HIDE DEF p
<1> QED
  BY <1>1, <1>9, <1>10

(* resolve_relas stores the address of a definition that is linked.        *)
LEMMA ResolveAInv ==
  ASSUME AInv, resolve_relas, OInv'
  PROVE  AInv'
<1>1. /\ OInv /\ LInv /\ Tables /\ LinkedAreObjects /\ AlignsRight /\ Addresses /\ InOrder
      /\ MissingIsListed /\ AfterLink
  BY DEF AInv, OInv, LInv
<1>2. /\ phase = "relocate" /\ phase' = "gather"
      /\ UNCHANGED <<files, i, unresolved, contents, linked, offsets, aligns, addr, pos, size>>
  BY DEF resolve_relas
<1>3. /\ Linked' = Linked
      /\ \A o : IsObject(o)' = IsObject(o) /\ Obj(o)' = Obj(o) /\ Sized(o)' = Sized(o)
  BY <1>2 DEF Linked, IsObject, Obj, Sized
<1>4. LinkedAreObjects' /\ AlignsRight' /\ InOrder'
  BY <1>1, <1>2, <1>3, OrderKept DEF LinkedAreObjects, AlignsRight
<1>5. Addresses'
  <2>1. SectionBase' = SectionBase
    BY <1>2 DEF SectionBase
  <2> HIDE DEF SectionBase
  <2>2. \A s \in Section : Base(s)' = Base(s)
    BY <1>2, <2>1 DEF Base
  <2> QED
    BY <1>1, <1>2, <2>2, AddressesKept
<1>6. ASSUME NEW r \in DOMAIN refs'
      PROVE  \E d \in Linked : r[2] \in DOMAIN Obj(d).defs /\ refs'[r] = addr[<<d, Obj(d).defs[r[2]]>>]
  <2> DEFINE d == find_symbol_from_all(r[2])
  <2>1. r \in UNION {{linked[k]} \X Obj(linked[k]).undefs : k \in DOMAIN linked}
    BY DEF resolve_relas
  <2>2. refs'[r] = addr[<<d, Obj(d).defs[r[2]]>>]
    BY <2>1 DEF resolve_relas
  <2>3. PICK k \in DOMAIN linked : r[2] \in Obj(linked[k]).undefs
    BY <2>1
  <2>4. unresolved = {} /\ i = Len(files) + 1
    BY <1>1, <1>2 DEF AfterLink
  <2>5. Found(r[2], contents)
    BY <1>1, <2>3, <2>4 DEF MissingIsListed, Linked
  <2>6. PICK f \in DOMAIN files : \E l \in DOMAIN contents[f] :
           d = <<f, contents[f][l]>> /\ Has(f, l, r[2], contents)
    BY <1>1, <2>5, FirstDefiner
  <2>7. PICK l \in DOMAIN contents[f] : d = <<f, contents[f][l]>> /\ Has(f, l, r[2], contents)
    BY <2>6
  <2>8. i > Len(files)
    BY <1>1, <2>4, FilesAssumption DEF Tables
  <2>9. d \in Linked
    BY <1>1, <2>7, <2>8, AllLinked
  <2>10. r[2] \in DOMAIN Obj(d).defs
    BY <2>7 DEF Has, Obj
  <2> HIDE DEF d
  <2> QED
    BY <2>2, <2>9, <2>10
<1>7. RefsRight'
  BY <1>2, <1>3, <1>6 DEF RefsRight
<1> QED
  BY <1>2, <1>4, <1>5, <1>7 DEF AInv

(* The recursions of Gathered and GatherOrder have one solution: what      *)
(* link_elfobj went through.                                               *)
IsGathered(e, s, order) ==
  e = [n \in 0 .. Len(order) |->
         IF n = 0 THEN 0
         ELSE IF s \notin Sized(order[n]) THEN e[n - 1]
         ELSE ALIGN(e[n - 1], Obj(order[n]).sect[s].align) + Obj(order[n]).sect[s].size]

(* Gathered is the list of ends that link_elfobj went through.             *)
LEMMA GatheredIs ==
  ASSUME Len(linked) \in Nat, NEW s \in Section, NEW e, IsEnds(e, s, linked)
  PROVE  \A n \in 0 .. Len(linked) : Gathered(s, linked)[n] = e[n]
<1> DEFINE g == Gathered(s, linked)
           N == Len(linked)
<1>1. g = CHOOSE f : IsGathered(f, s, linked)
  BY DEF Gathered, IsGathered
<1>2. /\ e \in [0 .. N -> Nat] /\ e[0] = 0
      /\ \A n \in 1 .. N : e[n] = EndAfter(s, linked[n], e[n - 1])
  BY DEF IsEnds
<1>3. \A f : IsGathered(f, s, linked) <=>
        f = [n \in 0 .. N |-> IF n = 0 THEN 0 ELSE EndAfter(s, linked[n], f[n - 1])]
  BY DEF IsGathered, EndAfter
<1>4. e = [n \in 0 .. N |-> IF n = 0 THEN 0 ELSE EndAfter(s, linked[n], e[n - 1])]
  <2>1. e = [n \in 0 .. N |-> e[n]]
    BY <1>2
  <2>2. \A n \in 0 .. N : e[n] = IF n = 0 THEN 0 ELSE EndAfter(s, linked[n], e[n - 1])
    BY <1>2
  <2> HIDE DEF N
  <2> QED
    BY <2>1, <2>2
<1>5. IsGathered(g, s, linked)
  BY <1>1, <1>3, <1>4
<1> HIDE DEF g
<1>6. g = [n \in 0 .. N |-> IF n = 0 THEN 0 ELSE EndAfter(s, linked[n], g[n - 1])]
  BY <1>3, <1>5
<1>7. g[0] = 0 /\ \A n \in 1 .. N : g[n] = EndAfter(s, linked[n], g[n - 1])
  <2> DEFINE F(h, n) == IF n = 0 THEN 0 ELSE EndAfter(s, linked[n], h[n - 1])
  <2>1. g = [n \in 0 .. N |-> F(g, n)]
    BY <1>6
  <2> HIDE DEF F, N
  <2>2. \A n \in 0 .. N : g[n] = F(g, n)
    BY <2>1
  <2>3. 0 \in 0 .. N /\ \A n \in 1 .. N : n \in 0 .. N /\ n # 0
    BY DEF N
  <2> QED
    BY <2>2, <2>3 DEF F
<1> DEFINE T == {n \in 0 .. N : g[n] = e[n]}
<1>8. 0 \in T
  BY <1>2, <1>7
<1>9. ASSUME NEW n \in 1 .. N, n - 1 \in T PROVE n \in T
  BY <1>2, <1>7, <1>9
<1> HIDE DEF T
<1>10. 0 .. N \subseteq T
  BY <1>8, <1>9, UpTo
<1> QED
  BY <1>10 DEF T, g

IsUpTo(w) ==
  w = [f \in 0 .. Len(files) |->
         IF f = 0 THEN <<>> ELSE w[f - 1] \o [k \in DOMAIN contents[f] |-> <<f, contents[f][k]>>]]

(* add_elfobj_sections goes through the objects in the order in which      *)
(* link_files linked them.                                                 *)
LEMMA GatherOrderIs ==
  ASSUME Tables, InOrder, i = Len(files) + 1
  PROVE  GatherOrder = linked
<1> DEFINE n == Len(files)
           w == CHOOSE w : IsUpTo(w)
<1>1. n \in Nat /\ i - 1 = n
  BY FilesAssumption DEF Tables
<1>2. PICK u : IsOrder(u, n) /\ linked = u[n]
  <2>1. PICK u : IsOrder(u, i - 1) /\ OrderFrom(u)
    BY DEF InOrder
  <2> QED
    BY <1>1, <2>1 DEF OrderFrom
<1>3. GatherOrder = w[n]
  BY DEF GatherOrder, IsUpTo
<1>4. \A f : IsUpTo(f) <=> f = [k \in 0 .. n |-> IF k = 0 THEN <<>> ELSE Then(f[k - 1], k)]
  BY DEF IsUpTo, Then, InFile
<1>5. u \in [0 .. n -> Seq(Id)] /\ u[0] = <<>> /\ \A f \in 1 .. n : u[f] = Then(u[f - 1], f)
  BY <1>2 DEF IsOrder
<1>6. u = [k \in 0 .. n |-> IF k = 0 THEN <<>> ELSE Then(u[k - 1], k)]
  <2>1. u = [k \in 0 .. n |-> u[k]]
    BY <1>5
  <2>2. \A k \in 0 .. n : u[k] = IF k = 0 THEN <<>> ELSE Then(u[k - 1], k)
    BY <1>1, <1>5
  <2> HIDE DEF n
  <2> QED
    BY <2>1, <2>2
<1>7. IsUpTo(w)
  BY <1>4, <1>6
<1> HIDE DEF w
<1>8. w = [k \in 0 .. n |-> IF k = 0 THEN <<>> ELSE Then(w[k - 1], k)]
  BY <1>4, <1>7
<1>9. w[0] = <<>> /\ \A k \in 1 .. n : w[k] = Then(w[k - 1], k)
  <2> DEFINE F(h, k) == IF k = 0 THEN <<>> ELSE Then(h[k - 1], k)
  <2>1. w = [k \in 0 .. n |-> F(w, k)]
    BY <1>8
  <2>2. 0 \in 0 .. n /\ \A k \in 1 .. n : k \in 0 .. n /\ k # 0
    BY <1>1
  <2> HIDE DEF F, n
  <2>3. \A k \in 0 .. n : w[k] = F(w, k)
    BY <2>1
  <2> QED
    BY <2>2, <2>3 DEF F
<1> DEFINE T == {k \in 0 .. n : w[k] = u[k]}
<1>10. 0 \in T
  BY <1>1, <1>5, <1>9
<1>11. ASSUME NEW k \in 1 .. n, k - 1 \in T PROVE k \in T
  BY <1>1, <1>5, <1>9, <1>11
<1> HIDE DEF T
<1>12. 0 .. n \subseteq T
  BY <1>1, <1>10, <1>11, UpTo
<1>13. n \in T
  BY <1>1, <1>12
<1> QED
  BY <1>2, <1>3, <1>13 DEF T

(* Each section's contents come to the address that was given out: what    *)
(* add_elfobj_sections fills up to is what link_elfobj counted, and        *)
(* fix_section_size finds the bases of link_files again.                   *)
LEMMA GatherAInv ==
  ASSUME AInv, Gather, OInv'
  PROVE  AInv'
<1>1. /\ OInv /\ LInv /\ Tables /\ LinkedAreObjects /\ AlignsRight /\ Addresses /\ InOrder
      /\ AfterLink /\ offsets \in [Section -> Nat] /\ linked \in Seq(Id) /\ Len(linked) \in Nat
      /\ RefsRight
  BY DEF AInv, OInv, LInv, Addresses, Tables
<1>2. /\ phase = "gather" /\ phase' = "done"
      /\ UNCHANGED <<files, i, unresolved, contents, linked, offsets, aligns, addr, refs>>
  BY DEF Gather
<1>3. GatherOrder = linked
  <2>1. i = Len(files) + 1
    BY <1>1, <1>2 DEF AfterLink
  <2> QED
    BY <1>1, <2>1, GatherOrderIs
<1>4. \A s \in Section : \E e : Promised(e, s, SectionBase[s])
  BY <1>1, <1>2 DEF Addresses, Base
<1> DEFINE sz == [s \in Section |-> Gathered(s, linked)[Len(linked)]]
           at(x) == CHOOSE k \in DOMAIN linked : linked[k] = x[1]
<1>5. sz = offsets
  <2>1. ASSUME NEW s \in Section PROVE Gathered(s, linked)[Len(linked)] = offsets[s]
    <3>1. PICK e : Promised(e, s, SectionBase[s])
      BY <1>4
    <3>2. IsEnds(e, s, linked) /\ offsets[s] = e[Len(linked)] /\ Len(linked) \in 0 .. Len(linked)
      BY <1>1, <3>1 DEF Promised
    <3> QED
      BY <1>1, <3>2, GatheredIs
  <2>2. offsets = [s \in Section |-> offsets[s]]
    BY <1>1
  <2> QED
    BY <2>1, <2>2
<1>6. pos' = [x \in DOMAIN addr |->
                fix_section_size(offsets)[x[2]] + Gathered(x[2], linked)[at(x)]
                  - Obj(x[1]).sect[x[2]].size]
  BY <1>3, <1>5 DEF Gather
<1>7. DOMAIN addr = Addressed /\ addr = [x \in DOMAIN addr |-> addr[x]]
  BY <1>1 DEF Addresses
<1>8. ASSUME NEW x \in DOMAIN addr
      PROVE  fix_section_size(offsets)[x[2]] + Gathered(x[2], linked)[at(x)]
               - Obj(x[1]).sect[x[2]].size = addr[x]
  <2> DEFINE o == x[1]
             s == x[2]
             k == at(x)
             al == ALIGN(Gathered(s, linked)[k - 1], Obj(o).sect[s].align)
  <2>1. o \in Linked /\ s \in Section /\ s \in Sized(o) /\ x = <<o, s>>
    BY <1>7 DEF Addressed
  <2>2. k \in DOMAIN linked /\ linked[k] = o
    BY <2>1 DEF Linked
  <2> HIDE DEF at, k
  <2>3. k \in 1 .. Len(linked) /\ k \in 0 .. Len(linked) /\ k - 1 \in 0 .. Len(linked)
    BY <1>1, <2>2
  <2>4. PICK e : Promised(e, s, SectionBase[s])
    BY <1>4, <2>1
  <2>5. IsEnds(e, s, linked)
    BY <2>4 DEF Promised
  <2>6. Gathered(s, linked)[k] = e[k]
    BY <1>1, <2>1, <2>3, <2>5, GatheredIs
  <2>7. e[k] = EndAfter(s, o, e[k - 1]) /\ e[k - 1] \in Nat
    BY <2>2, <2>3, <2>5 DEF IsEnds
  <2> DEFINE a == ALIGN(e[k - 1], Obj(o).sect[s].align)
  <2>8. e[k] = a + Obj(o).sect[s].size
    BY <2>1, <2>7 DEF EndAfter
  <2>9. addr[<<o, s>>] = SectionBase[s] + a
    BY <2>1, <2>2, <2>3, <2>4 DEF Promised
  <2>10. Obj(o).sect[s].align \in Nat \ {0} /\ Obj(o).sect[s].size \in Nat
    BY <1>1, <2>1, ObjectSections DEF LinkedAreObjects
  <2>11. a \in Nat
    BY <2>7, <2>10, AlignUp
  <2>12. fix_section_size(offsets)[s] = SectionBase[s]
    BY <1>1, <2>1, SameLoad
  <2>13. SectionBase[s] \in Nat
    BY <1>1, <2>1, SectionsApart
  <2> HIDE DEF a
  <2>14. SectionBase[s] + e[k] - Obj(o).sect[s].size = SectionBase[s] + a
    BY <2>8, <2>10, <2>11, <2>13
  <2> QED
    BY <2>1, <2>6, <2>9, <2>12, <2>14 DEF k
<1>9. pos' = addr
  <2> DEFINE p(x) == fix_section_size(offsets)[x[2]] + Gathered(x[2], linked)[at(x)]
                       - Obj(x[1]).sect[x[2]].size
  <2>1. pos' = [x \in DOMAIN addr |-> p(x)]
    BY <1>6
  <2>2. \A x \in DOMAIN addr : p(x) = addr[x]
    BY <1>8
  <2> HIDE DEF p
  <2> QED
    BY <1>7, <2>1, <2>2
<1>10. /\ Linked' = Linked
       /\ \A o : IsObject(o)' = IsObject(o) /\ Obj(o)' = Obj(o) /\ Sized(o)' = Sized(o)
  BY <1>2 DEF Linked, IsObject, Obj, Sized
<1>11. LinkedAreObjects' /\ AlignsRight' /\ InOrder'
  BY <1>1, <1>2, <1>10, OrderKept DEF LinkedAreObjects, AlignsRight
<1>12. Addresses'
  <2>1. SectionBase' = SectionBase
    BY <1>2 DEF SectionBase
  <2> HIDE DEF SectionBase
  <2>2. \A s \in Section : Base(s)' = Base(s)
    BY <1>2, <2>1 DEF Base
  <2> QED
    BY <1>1, <1>2, <2>2, AddressesKept
<1>13. RefsRight'
  BY <1>1, <1>2, <1>10 DEF RefsRight
<1> QED
  BY <1>2, <1>9, <1>11, <1>12, <1>13 DEF AInv

(* Every step of the linker keeps the layout right.                        *)
LEMMA NextAInv == AInv /\ [LdNext]_vars => AInv'
<1> SUFFICES ASSUME AInv, [LdNext]_vars PROVE AInv'
  OBVIOUS
<1>1. OInv' /\ OInv /\ LInv /\ InOrder
  BY NextOInv DEF AInv, OInv
<1>2. CASE LinkObject
  BY <1>2, LinkObjectAInv
<1>3. ASSUME NEW name \in unresolved, LinkMember(name) PROVE AInv'
  BY <1>3, LinkMemberAInv
<1>4. CASE LinkArchiveEnd
  <2>1. InOrder'
    BY <1>1, <1>4, LinkArchiveEndInOrder
  <2> QED
    BY <1>1, <1>4, <2>1, OtherAInv DEF LinkArchiveEnd
<1>5. CASE LinkEnd
  <2>1. InOrder'
    BY <1>1, <1>5, OrderKept DEF LinkEnd
  <2> QED
    BY <1>1, <1>5, <2>1, OtherAInv DEF LinkEnd
<1>6. CASE UNCHANGED vars
  <2>1. InOrder'
    BY <1>1, <1>6, OrderKept DEF vars
  <2> QED
    BY <1>1, <1>6, <2>1, OtherAInv DEF vars
<1> QED
  BY <1>1, <1>2, <1>3, <1>4, <1>5, <1>6, LayoutAInv, ResolveAInv, GatherAInv DEF LdNext

(* The ends of a section only grow from object to object.                  *)
LEMMA EndsGrow ==
  ASSUME Tables, LinkedAreObjects, NEW s \in Section, NEW e, IsEnds(e, s, linked),
         NEW j \in 0 .. Len(linked), NEW k \in j .. Len(linked)
  PROVE  e[j] \in Nat /\ e[k] \in Nat /\ e[j] <= e[k]
<1> DEFINE N == Len(linked)
           T == {n \in 0 .. N - j : e[j] <= e[j + n]}
<1>1. N \in Nat /\ linked \in Seq(Id) /\ N - j \in Nat
  BY DEF Tables
<1>2. e \in [0 .. N -> Nat] /\ \A n \in 1 .. N : e[n] = EndAfter(s, linked[n], e[n - 1])
  BY DEF IsEnds
<1>3. \A n \in 0 .. N : e[n] \in Nat
  BY <1>2
<1> HIDE DEF N
<1>4. 0 \in T
  BY <1>1, <1>3 DEF N
<1>5. ASSUME NEW n \in 1 .. N - j, n - 1 \in T PROVE n \in T
  <2>1. j + n \in 1 .. N /\ j + n - 1 \in 0 .. N /\ j + (n - 1) = j + n - 1
    BY <1>1 DEF N
  <2>2. e[j + n] = EndAfter(s, linked[j + n], e[j + n - 1])
    BY <1>2, <2>1
  <2>3. IsObject(linked[j + n])
    BY <1>1, <2>1 DEF LinkedAreObjects, Linked, N
  <2>4. /\ Obj(linked[j + n]).sect[s].size \in Nat
        /\ Obj(linked[j + n]).sect[s].align \in Nat \ {0}
    BY <2>3, ObjectSections
  <2> DEFINE a == ALIGN(e[j + n - 1], Obj(linked[j + n]).sect[s].align)
             y == e[j + n - 1]
  <2>5. y \in Nat
    BY <1>3, <2>1
  <2>6. a \in Nat /\ y <= a
    BY <2>4, <2>5, AlignUp
  <2>7. e[j + n] = y \/ e[j + n] = a + Obj(linked[j + n]).sect[s].size
    BY <2>2 DEF EndAfter
  <2> HIDE DEF a
  <2>8. y <= e[j + n]
    BY <2>4, <2>5, <2>6, <2>7
  <2>9. e[j] <= y
    BY <1>5, <2>1
  <2>10. e[j] \in Nat /\ e[j + n] \in Nat
    BY <1>1, <1>3, <2>1 DEF N
  <2> QED
    BY <2>5, <2>8, <2>9, <2>10
<1> HIDE DEF T
<1>6. 0 .. N - j \subseteq T
  BY <1>1, <1>4, <1>5, UpTo
<1>7. k - j \in 0 .. N - j /\ j + (k - j) = k /\ j \in 0 .. N /\ k \in 0 .. N
  BY <1>1 DEF N
<1>8. k - j \in T
  BY <1>6, <1>7
<1> QED
  BY <1>3, <1>7, <1>8 DEF T

(* A section that was laid out is between the start and the end of its     *)
(* output section, at a multiple of its alignment; of two in the same      *)
(* output section, the one that was linked first comes first.              *)
LEMMA LaidOut ==
  ASSUME AInv, phase = "done", NEW x \in DOMAIN addr
  PROVE  /\ x[2] \in Section /\ addr[x] \in Nat /\ Obj(x[1]).sect[x[2]].size \in Nat
         /\ SectionBase[x[2]] <= addr[x]
         /\ addr[x] + Obj(x[1]).sect[x[2]].size <= SectionBase[x[2]] + offsets[x[2]]
         /\ addr[x] % Obj(x[1]).sect[x[2]].align = 0
         /\ \A y \in DOMAIN addr : \A j, k \in DOMAIN linked :
              x[1] = linked[j] /\ y[1] = linked[k] /\ x[2] = y[2] /\ j < k =>
                addr[x] + Obj(x[1]).sect[x[2]].size <= addr[y]
<1> DEFINE s == x[2]
           al(z) == Obj(z[1]).sect[s].align
           sz(z) == Obj(z[1]).sect[s].size
           b == SectionBase[s]
<1>1. /\ Tables /\ LinkedAreObjects /\ AlignsRight /\ Addresses
      /\ offsets \in [Section -> Nat] /\ linked \in Seq(Id) /\ Len(linked) \in Nat
      /\ DOMAIN linked = 1 .. Len(linked)
  BY DEF AInv, OInv, LInv, Addresses, Tables
<1>2. \A z \in DOMAIN addr : z[1] \in Linked /\ z[2] \in Section /\ z[2] \in Sized(z[1]) /\ z = <<z[1], z[2]>>
  BY <1>1 DEF Addresses, Addressed
<1>3. s \in Section
  BY <1>2
<1>4. PICK e : Promised(e, s, b)
  BY <1>1, <1>3 DEF Addresses, Base
<1>5. IsEnds(e, s, linked) /\ e \in [0 .. Len(linked) -> Nat] /\ offsets[s] = e[Len(linked)]
  BY <1>4 DEF Promised, IsEnds
<1>6. b \in Nat /\ b % aligns[s] = 0
  BY <1>1, <1>3, SectionsApart
<1>7. ASSUME NEW z \in DOMAIN addr, z[2] = s, NEW k \in DOMAIN linked, z[1] = linked[k]
      PROVE  /\ al(z) \in Nat \ {0} /\ sz(z) \in Nat
             /\ addr[z] = b + ALIGN(e[k - 1], al(z)) /\ ALIGN(e[k - 1], al(z)) \in Nat
             /\ e[k - 1] \in Nat /\ e[k - 1] <= ALIGN(e[k - 1], al(z))
             /\ ALIGN(e[k - 1], al(z)) % al(z) = 0
             /\ e[k] = ALIGN(e[k - 1], al(z)) + sz(z)
  <2>1. al(z) \in Nat \ {0} /\ sz(z) \in Nat
    BY <1>1, <1>2, <1>3, ObjectSections DEF LinkedAreObjects
  <2>2. k \in 1 .. Len(linked) /\ k - 1 \in 0 .. Len(linked)
    BY <1>1
  <2>3. e[k - 1] \in Nat
    BY <1>5, <2>2
  <2>4. s \in Sized(linked[k]) /\ z = <<linked[k], s>>
    BY <1>2, <1>7
  <2>5. addr[z] = b + ALIGN(e[k - 1], al(z))
    BY <1>4, <1>7, <2>2, <2>4 DEF Promised
  <2>6. e[k] = ALIGN(e[k - 1], al(z)) + sz(z)
    <3>1. e[k] = EndAfter(s, linked[k], e[k - 1])
      BY <1>5, <2>2 DEF IsEnds
    <3> QED
      BY <1>7, <2>4, <3>1 DEF EndAfter
  <2>7. /\ ALIGN(e[k - 1], al(z)) \in Nat /\ e[k - 1] <= ALIGN(e[k - 1], al(z))
        /\ ALIGN(e[k - 1], al(z)) % al(z) = 0
    BY <2>1, <2>3, AlignUp
  <2> QED
    BY <2>1, <2>3, <2>5, <2>6, <2>7
<1>8. PICK j \in DOMAIN linked : x[1] = linked[j]
  BY <1>2 DEF Linked
<1> DEFINE a == ALIGN(e[j - 1], al(x))
<1>9. /\ al(x) \in Nat \ {0} /\ sz(x) \in Nat /\ addr[x] = b + a /\ a \in Nat
      /\ a % al(x) = 0 /\ e[j] = a + sz(x)
  BY <1>7, <1>8
<1>10. addr[x] % al(x) = 0
  <2>1. aligns[s] % al(x) = 0 /\ aligns[s] \in Nat \ {0}
    <3>1. aligns[s] \in Alignments
      BY <1>1, <1>3 DEF AlignsRight
    <3>2. aligns[s] % al(x) = 0
      BY <1>1, <1>2 DEF AlignsRight
    <3> QED
      BY <3>1, <3>2, AlignmentsAssumption
  <2>2. b % al(x) = 0
    BY <1>6, <1>9, <2>1, MultipleOfMultiple
  <2>3. /\ al(x) \in Nat \ {0} /\ a \in Nat /\ b \in Nat
        /\ a % al(x) = 0 /\ addr[x] = b + a
    BY <1>6, <1>9
  <2> HIDE DEF a, b, al
  <2>4. (b + a) % al(x) = 0
    BY <2>2, <2>3, SumOfMultiples
  <2> QED
    BY <2>3, <2>4
<1>11. e[j] <= offsets[s] /\ offsets[s] \in Nat
  <2>1. j \in 0 .. Len(linked) /\ Len(linked) \in j .. Len(linked)
    BY <1>1, <1>8
  <2>2. e[j] <= e[Len(linked)] /\ e[Len(linked)] \in Nat
    BY <1>1, <1>3, <1>5, <2>1, EndsGrow
  <2> QED
    BY <1>5, <2>2
<1>12. ASSUME NEW y \in DOMAIN addr, NEW l \in DOMAIN linked, NEW k \in DOMAIN linked,
              x[1] = linked[l], y[1] = linked[k], x[2] = y[2], l < k
       PROVE  addr[x] + sz(x) <= addr[y]
  <2> DEFINE c == ALIGN(e[l - 1], al(x))
             d == ALIGN(e[k - 1], al(y))
  <2>1. addr[x] = b + c /\ c \in Nat /\ sz(x) \in Nat /\ e[l] = c + sz(x)
    BY <1>7, <1>12
  <2>2. addr[y] = b + d /\ d \in Nat /\ e[k - 1] \in Nat /\ e[k - 1] <= d
    BY <1>7, <1>12
  <2>3. e[l] <= e[k - 1]
    <3>1. l \in 0 .. Len(linked) /\ k - 1 \in l .. Len(linked)
      BY <1>1, <1>12
    <3> QED
      BY <1>1, <1>3, <1>5, <3>1, EndsGrow
  <2> HIDE DEF c, d, b, sz
  <2> QED
    BY <1>6, <2>1, <2>2, <2>3
<1> HIDE DEF a
<1>13. b <= addr[x] /\ addr[x] \in Nat /\ addr[x] + sz(x) <= b + offsets[s]
  <2> HIDE DEF b, sz
  <2> QED
    BY <1>6, <1>9, <1>11
<1> QED
  BY <1>3, <1>9, <1>10, <1>12, <1>13

(* In a finished image every section of every object is where link_elfobj  *)
(* and link_files promised, at a multiple of its alignment and apart from  *)
(* all others, and what resolve_relas stored is where a definition is.     *)
THEOREM ImageTheorem == LdSpec => []ImageAsLaidOut
<1>1. AInv => ImageAsLaidOut
  <2> SUFFICES ASSUME AInv, phase = "done"
               PROVE  /\ pos = addr
                      /\ \A x, y \in DOMAIN pos : x # y =>
                           \/ pos[x] + Obj(x[1]).sect[x[2]].size <= pos[y]
                           \/ pos[y] + Obj(y[1]).sect[y[2]].size <= pos[x]
                      /\ \A x \in DOMAIN pos : pos[x] % Obj(x[1]).sect[x[2]].align = 0
                      /\ \A r \in DOMAIN refs : \E d \in Linked :
                           /\ r[2] \in DOMAIN Obj(d).defs
                           /\ refs[r] = pos[<<d, Obj(d).defs[r[2]]>>]
    BY DEF ImageAsLaidOut
  <2>1. pos = addr
    BY DEF AInv
  <2>2. \A r \in DOMAIN refs : \E d \in Linked :
          r[2] \in DOMAIN Obj(d).defs /\ refs[r] = pos[<<d, Obj(d).defs[r[2]]>>]
    BY <2>1 DEF AInv, RefsRight
  <2>3. \A x \in DOMAIN addr : addr[x] % Obj(x[1]).sect[x[2]].align = 0
    BY LaidOut
  <2>4. AlignsRight /\ offsets \in [Section -> Nat] /\ Tables /\ DOMAIN addr = Addressed
    BY DEF AInv, OInv, LInv, Addresses
  <2>5. ASSUME NEW x \in DOMAIN addr, NEW y \in DOMAIN addr, x # y
        PROVE  \/ addr[x] + Obj(x[1]).sect[x[2]].size <= addr[y]
               \/ addr[y] + Obj(y[1]).sect[y[2]].size <= addr[x]
    <3>1. /\ x[1] \in Linked /\ y[1] \in Linked /\ x[2] \in Section /\ y[2] \in Section
          /\ x = <<x[1], x[2]>> /\ y = <<y[1], y[2]>>
      BY <2>4 DEF Addressed
    <3>2. ASSUME NEW v \in DOMAIN addr, NEW w \in DOMAIN addr, v[2] < w[2]
          PROVE  addr[v] + Obj(v[1]).sect[v[2]].size <= addr[w]
      <4>1. v[2] \in Section /\ w[2] \in Section
        BY LaidOut
      <4>2. /\ addr[v] \in Nat /\ Obj(v[1]).sect[v[2]].size \in Nat /\ addr[w] \in Nat
            /\ addr[v] + Obj(v[1]).sect[v[2]].size <= SectionBase[v[2]] + offsets[v[2]]
            /\ SectionBase[w[2]] <= addr[w]
        BY LaidOut
      <4>3. SectionBase[v[2]] + offsets[v[2]] <= SectionBase[w[2]]
        BY <2>4, <3>2, <4>1, SectionsApart
      <4>4. SectionBase[v[2]] \in Nat /\ SectionBase[w[2]] \in Nat /\ offsets[v[2]] \in Nat
        BY <2>4, <4>1, SectionsApart
      <4> HIDE DEF SectionBase
      <4> QED
        BY <4>2, <4>3, <4>4
    <3>3. CASE x[2] # y[2]
      <4>1. x[2] < y[2] \/ y[2] < x[2]
        BY <3>1, <3>3 DEF Section
      <4> QED
        BY <3>2, <4>1
    <3>4. CASE x[2] = y[2]
      <4>1. x[1] # y[1]
        BY <2>5, <3>1, <3>4
      <4>2. PICK j \in DOMAIN linked : x[1] = linked[j]
        BY <3>1 DEF Linked
      <4>3. PICK k \in DOMAIN linked : y[1] = linked[k]
        BY <3>1 DEF Linked
      <4>4. j < k \/ k < j
        <5>1. j \in Nat /\ k \in Nat /\ j # k
          BY <2>4, <4>1, <4>2, <4>3 DEF Tables
        <5> QED
          BY <5>1
      <4>5. CASE j < k
        BY <3>4, <4>2, <4>3, <4>5, LaidOut
      <4>6. CASE k < j
        BY <3>4, <4>2, <4>3, <4>6, LaidOut
      <4> QED
        BY <4>4, <4>5, <4>6
    <3> QED
      BY <3>3, <3>4
  <2> QED
    BY <2>1, <2>2, <2>3, <2>5
<1> QED
  BY <1>1, InitAInv, NextAInv, PTL DEF LdSpec
=============================================================================

---------------------------- MODULE MCStoreCache ----------------------------
(* Two jobs, one of which yields an item of the other; two directories or  *)
(* two chats; names of one's own, shared and empty.                        *)
EXTENDS StoreCache, TLC

CONSTANTS j1, j2, i1, i2, n1, n2, a1, a2, s1, s2, w1, w2

BothStores == <<s1, s2>>
OneStore   == <<s1>>

Resubmitted == (j1 :> {i1}) @@ (j2 :> {i1, i2})
Separate    == (j1 :> {i1}) @@ (j2 :> {i2})

Accounts == (i1 :> a1) @@ (i2 :> a2)

OwnNames   == (i1 :> n1) @@ (i2 :> n2)
SharedName == (i1 :> n1) @@ (i2 :> n1)
EmptyName  == (i1 :> n1) @@ (i2 :> NoName)

Both == {s1, s2}

AllSetups ==
    { [NameOf |-> SharedName, FileStores |-> Both, Clean |-> {}, workers |-> {w1, w2},
       timed |-> FALSE],
      [NameOf |-> OwnNames, FileStores |-> Both, Clean |-> {}, workers |-> {w1, w2},
       timed |-> FALSE],
      [NameOf |-> OwnNames, FileStores |-> Both, Clean |-> {}, workers |-> {w1},
       timed |-> TRUE],
      [NameOf |-> EmptyName, FileStores |-> Both, Clean |-> {s1}, workers |-> {w1},
       timed |-> FALSE],
      [NameOf |-> OwnNames, FileStores |-> {}, Clean |-> {}, workers |-> {w1},
       timed |-> FALSE],
      [NameOf |-> OwnNames, FileStores |-> {}, Clean |-> {}, workers |-> {w1, w2},
       timed |-> FALSE] }

Nameless == { [NameOf |-> EmptyName, FileStores |-> {s1}, Clean |-> {}, workers |-> {w1},
               timed |-> FALSE] }
=============================================================================

----------------------------- MODULE FilesProofs -----------------------------
(***************************************************************************)
(* What the program keeps on disk, and in the rows that lead to it.        *)
(* WorktreeLease: a worktree directory has its row or a creation that is   *)
(* about to write it, and a clean-up that reports no error has left        *)
(* nothing, for any number of creations and clean-ups of either kind.      *)
(* ProjectSecrets: a listed name has a value wherever its command fails,   *)
(* and no command changes another name's, for commands that come one       *)
(* after the other.                                                        *)
(***************************************************************************)
EXTENDS WorktreeLease, ProjectSecrets, TLAPS

(* The places of a call, a creation's and a clean-up's apart.              *)
CreateStages == {"reserved", "rooted", "branched", "added", "undoing", "held"}
CleanStages == {"found", "forgotten", "removed", "checking", "checked"}
Stages == Ended \cup CreateStages \cup CleanStages
Work == [stage : Stages, task : Task \cup {Nil}, slug : Slug \cup {Nil}, err : BOOLEAN]
TreeFields ==
    /\ leases \in [Task -> {"none", "placeholder", "lease"}]
    /\ disk \in [Task -> Slug \cup {Nil}] /\ known \in [Task -> Slug \cup {Nil}]
    /\ branches \in [Task -> SUBSET Slug] /\ rows \in [Task -> SUBSET Slug]
    /\ call \in [Worker -> Work]

(* Who creates, who cleans up, and on what.                                *)
Creates(c) == call[c].stage \in CreateStages
Cleans(c) == call[c].stage \in CleanStages
CallsApart ==
    \A c \in Worker :
        /\ call[c].stage # "idle" => T(c) \in Task /\ S(c) \in Slug
        /\ Creates(c) => c \in Creator
        /\ Cleans(c) => c \in Cleaning
        /\ Stands(c, "removed") => c \in Eraser

(* Tasks on which a creation meets a clean-up.                             *)
RacesSeen == \A c, d \in Worker : Creates(c) /\ Cleans(d) /\ T(c) = T(d) => T(c) \in raced

(* A placeholder is that of a creation on its way to the lease.            *)
Reserves(c) == Creates(c) /\ ~Stands(c, "held")
PlaceholderHeld ==
    \A t \in Task \ cut :
        leases[t] = "placeholder" => \E c \in Worker : Reserves(c) /\ T(c) = t

(* A directory has its row, or the creation that is to write it.           *)
TreeFound ==
    \A t \in Task \ (cut \cup raced) : disk[t] # Nil =>
        rows[t] # {} \/ \E c \in Worker : call[c].stage \in {"added", "held"} /\ T(c) = t

(* What a clean-up without an error has behind it.                         *)
CleanedSoFar ==
    \A c \in Worker :
        T(c) \notin raced /\ ~call[c].err =>
            /\ call[c].stage \in {"removed", "checking", "checked"} =>
                disk[T(c)] = Nil /\ known[T(c)] = Nil
            /\ Stands(c, "checked") /\ c \in Eraser => S(c) \notin branches[T(c)]

TreeIInv ==
    TreeFields /\ CallsApart /\ RacesSeen /\ PlaceholderHeld /\ TreeFound /\ CleanedSoFar

-----------------------------------------------------------------------------
(* A call goes on, alone.                                                  *)
Moves(c, stage, err) ==
    /\ call' \in [Worker -> Work] /\ \A d \in Worker \ {c} : call'[d] = call[d]
    /\ call'[c].stage = stage /\ call'[c].err = err
    /\ call'[c].task = call[c].task /\ call'[c].slug = call[c].slug
LEMMA Moving ==
    ASSUME call \in [Worker -> Work], NEW c \in Worker, NEW stage \in Stages
    PROVE  /\ Advance(c, stage) => Moves(c, stage, call[c].err)
           /\ Err(c, stage) => Moves(c, stage, TRUE)
<1>1. ASSUME Advance(c, stage) PROVE Moves(c, stage, call[c].err)
    <2> DEFINE r == [call[c] EXCEPT !.stage = stage]
    <2>1. /\ r \in Work /\ r.stage = stage /\ r.err = call[c].err
          /\ r.task = call[c].task /\ r.slug = call[c].slug
        BY DEF Work
    <2>2. call' = [call EXCEPT ![c] = r]
        BY <1>1 DEF Advance
    <2> HIDE DEF r
    <2>3. QED
        BY <2>1, <2>2 DEF Moves
<1>2. ASSUME Err(c, stage) PROVE Moves(c, stage, TRUE)
    <2> DEFINE r == [call[c] EXCEPT !.stage = stage, !.err = TRUE]
    <2>1. /\ r \in Work /\ r.stage = stage /\ r.err = TRUE
          /\ r.task = call[c].task /\ r.slug = call[c].slug
        BY DEF Work
    <2>2. call' = [call EXCEPT ![c] = r]
        BY <1>2 DEF Err, Work
    <2> HIDE DEF r
    <2>3. QED
        BY <2>1, <2>2 DEF Moves
<1>3. QED
    BY <1>1, <1>2

(* What keeps each part of the invariant when one call goes on.            *)
SameKind(c, stage) ==
    /\ call[c].stage # "idle" /\ stage # "idle"
    /\ stage \in CreateStages => Creates(c)
    /\ stage \in CleanStages => Cleans(c)
    /\ stage = "removed" => c \in Eraser
PlaceholderStays(c, stage) ==
    \A t \in Task : leases'[t] = "placeholder" =>
        /\ leases[t] = "placeholder"
        /\ t = T(c) /\ Reserves(c) => stage \in CreateStages \ {"held"} \/ t \in cut'
TreeStays(c, stage) ==
    /\ \A t \in Task : disk'[t] # Nil => disk[t] # Nil \/ (t = T(c) /\ stage = "added")
    /\ \A t \in Task : rows'[t] = {} /\ rows[t] # {} => t \in cut' \cup raced \/ disk'[t] = Nil
    /\ call[c].stage \in {"added", "held"} =>
        \/ stage \in {"added", "held"} \/ disk'[T(c)] = Nil \/ rows'[T(c)] # {} \/ T(c) \in cut'
CleanStays(c, stage, err) ==
    /\ \A t \in Task :
        \/ t = T(c) /\ Creates(c)
        \/ /\ disk[t] = Nil => disk'[t] = Nil
           /\ disk[t] = Nil /\ known[t] = Nil => known'[t] = Nil
           /\ branches'[t] \subseteq branches[t]
    /\ T(c) \notin raced /\ ~err =>
        /\ stage \in {"removed", "checking", "checked"} => disk'[T(c)] = Nil /\ known'[T(c)] = Nil
        /\ stage = "checked" /\ c \in Eraser => S(c) \notin branches'[T(c)]

GoesOnTo(c, stage, err) ==
    /\ Moves(c, stage, err) /\ TreeFields' /\ raced' = raced /\ cut \subseteq cut'
    /\ SameKind(c, stage) /\ PlaceholderStays(c, stage) /\ TreeStays(c, stage)
    /\ CleanStays(c, stage, err)

LEMMA CallKeepsTrees ==
    ASSUME TreeIInv, NEW c \in Worker, NEW stage \in Stages, NEW err \in BOOLEAN,
           GoesOnTo(c, stage, err)
    PROVE  TreeIInv'
<1> USE DEF GoesOnTo
<1>1. CallsApart'
    BY DEF TreeIInv, CallsApart, Moves, SameKind, Creates, Cleans, Stands, T, S
<1>2. \A d \in Worker :
        /\ call'[d].stage \in CreateStages => Creates(d)
        /\ call'[d].stage \in CleanStages => Cleans(d)
        /\ call'[d].task = T(d) /\ call'[d].slug = S(d)
    BY DEF Moves, SameKind, Creates, Cleans, T, S
<1>3. RacesSeen'
    BY <1>2 DEF TreeIInv, RacesSeen, Creates, Cleans, T
<1>4. PlaceholderHeld'
    <2> SUFFICES ASSUME NEW t \in Task \ cut', leases'[t] = "placeholder"
                 PROVE  \E d \in Worker : Reserves(d)' /\ call'[d].task = t
        BY DEF PlaceholderHeld, T
    <2>1. PICK d \in Worker : Reserves(d) /\ T(d) = t
        BY DEF TreeIInv, PlaceholderHeld, PlaceholderStays
    <2>2. Reserves(d)'
        BY <2>1 DEF PlaceholderStays, Moves, Reserves, Creates, Stands
    <2>3. QED
        BY <1>2, <2>1, <2>2
<1>5. TreeFound'
    <2> SUFFICES ASSUME NEW t \in Task \ (cut' \cup raced), disk'[t] # Nil, rows'[t] = {}
                 PROVE  \E d \in Worker : call'[d].stage \in {"added", "held"} /\ call'[d].task = t
        BY DEF TreeFound, T
    <2>1. CASE t = T(c) /\ stage = "added"
        BY <1>2, <2>1 DEF Moves
    <2>2. CASE ~(t = T(c) /\ stage = "added")
        <3>1. disk[t] # Nil /\ rows[t] = {}
            BY <2>2 DEF TreeStays
        <3>2. PICK d \in Worker : call[d].stage \in {"added", "held"} /\ T(d) = t
            BY <3>1 DEF TreeIInv, TreeFound
        <3>3. call'[d].stage \in {"added", "held"}
            BY <3>2 DEF Moves, TreeStays
        <3>4. QED
            BY <1>2, <3>2, <3>3
    <2>3. QED
        BY <2>1, <2>2
<1>6. CleanedSoFar'
    <2> SUFFICES ASSUME NEW d \in Worker, T(d) \notin raced, ~call'[d].err
                 PROVE  /\ call'[d].stage \in {"removed", "checking", "checked"} =>
                            disk'[T(d)] = Nil /\ known'[T(d)] = Nil
                        /\ call'[d].stage = "checked" /\ d \in Eraser => S(d) \notin branches'[T(d)]
        BY <1>2 DEF CleanedSoFar, Stands, T, S
    <2>1. CASE d = c
        BY <2>1 DEF Moves, CleanStays
    <2>2. CASE d # c
        <3>1. call'[d] = call[d]
            BY <2>2 DEF Moves
        <3>2. call[d].stage \in {"removed", "checking", "checked"} =>
                Cleans(d) /\ T(d) \in Task /\ ~(T(d) = T(c) /\ Creates(c))
            BY DEF TreeIInv, CallsApart, RacesSeen, Cleans, CleanStages
        <3>3. QED
            BY <3>1, <3>2 DEF TreeIInv, CleanedSoFar, CleanStays, Stands
    <2>3. QED
        BY <2>1, <2>2
<1>7. QED
    BY <1>1, <1>3, <1>4, <1>5, <1>6 DEF TreeIInv


-----------------------------------------------------------------------------
(* The steps of a creation and of a clean-up that has begun.               *)
LEMMA StageNames ==
    {"rooted", "branched", "added", "undoing", "held", "refused", "done", "forgotten", "removed",
     "checking", "checked"} \subseteq Stages
BY DEF Stages, Ended, CreateStages, CleanStages

LEMMA Creating ==
    ASSUME TreeIInv, NEW c \in Worker
    PROVE  /\ MakeRoot(c) => GoesOnTo(c, "rooted", call[c].err)
           /\ RootFails(c) => GoesOnTo(c, "refused", call[c].err)
           /\ AddBranch(c) => GoesOnTo(c, "branched", call[c].err)
           /\ AddTree(c) => GoesOnTo(c, "added", call[c].err)
           /\ GiveUp(c) => GoesOnTo(c, "undoing", call[c].err)
           /\ Undo(c) => GoesOnTo(c, "refused", call[c].err)
           /\ Hold(c) => GoesOnTo(c, "held", call[c].err)
           /\ StoreRow(c) => GoesOnTo(c, "done", call[c].err)
           /\ RowFails(c) => GoesOnTo(c, "refused", call[c].err)
<1>0. /\ TreeFields /\ call \in [Worker -> Work] /\ CallsApart /\ CleanedSoFar
      /\ call[c].stage # "idle" => T(c) \in Task /\ S(c) \in Slug
    BY DEF TreeIInv, TreeFields, CallsApart
<1>1. ASSUME MakeRoot(c) PROVE GoesOnTo(c, "rooted", call[c].err)
    <2>1. Moves(c, "rooted", call[c].err)
        BY <1>0, <1>1, StageNames, Moving DEF MakeRoot
    <2>2. QED
        BY <1>0, <1>1, <2>1 DEF MakeRoot, files, Stands, GoesOnTo, TreeFields, Moves, SameKind,
           PlaceholderStays, TreeStays, CleanStays, CleanedSoFar, CallsApart, Reserves, Creates,
           Cleans, CreateStages, CleanStages, T, S
<1>2. ASSUME RootFails(c) PROVE GoesOnTo(c, "refused", call[c].err)
    <2>1. Moves(c, "refused", call[c].err)
        BY <1>0, <1>2, StageNames, Moving DEF RootFails
    <2>2. QED
        BY <1>0, <1>2, <2>1 DEF RootFails, files, Stands, GoesOnTo, TreeFields, Moves, SameKind,
           PlaceholderStays, TreeStays, CleanStays, CleanedSoFar, CallsApart, Reserves, Creates,
           Cleans, CreateStages, CleanStages, T, S
<1>3. ASSUME AddBranch(c) PROVE GoesOnTo(c, "branched", call[c].err)
    <2>1. Moves(c, "branched", call[c].err)
        BY <1>0, <1>3, StageNames, Moving DEF AddBranch
    <2>2. QED
        BY <1>0, <1>3, <2>1 DEF AddBranch, files, Stands, GoesOnTo, TreeFields, Moves, SameKind,
           PlaceholderStays, TreeStays, CleanStays, CleanedSoFar, CallsApart, Reserves, Creates,
           Cleans, CreateStages, CleanStages, T, S
<1>4. ASSUME AddTree(c) PROVE GoesOnTo(c, "added", call[c].err)
    <2>1. Moves(c, "added", call[c].err)
        BY <1>0, <1>4, StageNames, Moving DEF AddTree
    <2>2. QED
        BY <1>0, <1>4, <2>1 DEF AddTree, files, Stands, GoesOnTo, TreeFields, Moves, SameKind,
           PlaceholderStays, TreeStays, CleanStays, CleanedSoFar, CallsApart, Reserves, Creates,
           Cleans, CreateStages, CleanStages, T, S
<1>5. ASSUME GiveUp(c) PROVE GoesOnTo(c, "undoing", call[c].err)
    <2>1. Moves(c, "undoing", call[c].err)
        BY <1>0, <1>5, StageNames, Moving DEF GiveUp
    <2>2. QED
        BY <1>0, <1>5, <2>1 DEF GiveUp, files, Stands, GoesOnTo, TreeFields, Moves, SameKind,
           PlaceholderStays, TreeStays, CleanStays, CleanedSoFar, CallsApart, Reserves, Creates,
           Cleans, CreateStages, CleanStages, T, S
<1>6. ASSUME Undo(c) PROVE GoesOnTo(c, "refused", call[c].err)
    <2>1. Moves(c, "refused", call[c].err)
        BY <1>0, <1>6, StageNames, Moving DEF Undo
    <2>2. QED
        BY <1>0, <1>6, <2>1 DEF Undo, files, Stands, GoesOnTo, TreeFields, Moves, SameKind,
           PlaceholderStays, TreeStays, CleanStays, CleanedSoFar, CallsApart, Reserves, Creates,
           Cleans, CreateStages, CleanStages, T, S
<1>7. ASSUME Hold(c) PROVE GoesOnTo(c, "held", call[c].err)
    <2>1. Moves(c, "held", call[c].err)
        BY <1>0, <1>7, StageNames, Moving DEF Hold
    <2>2. QED
        BY <1>0, <1>7, <2>1 DEF Hold, files, Stands, GoesOnTo, TreeFields, Moves, SameKind,
           PlaceholderStays, TreeStays, CleanStays, CleanedSoFar, CallsApart, Reserves, Creates,
           Cleans, CreateStages, CleanStages, T, S
<1>8. ASSUME StoreRow(c) PROVE GoesOnTo(c, "done", call[c].err)
    <2>1. Moves(c, "done", call[c].err)
        BY <1>0, <1>8, StageNames, Moving DEF StoreRow
    <2>2. QED
        BY <1>0, <1>8, <2>1 DEF StoreRow, files, Stands, GoesOnTo, TreeFields, Moves, SameKind,
           PlaceholderStays, TreeStays, CleanStays, CleanedSoFar, CallsApart, Reserves, Creates,
           Cleans, CreateStages, CleanStages, T, S
<1>9. ASSUME RowFails(c) PROVE GoesOnTo(c, "refused", call[c].err)
    <2>1. Moves(c, "refused", call[c].err)
        BY <1>0, <1>9, StageNames, Moving DEF RowFails
    <2>2. QED
        BY <1>0, <1>9, <2>1 DEF RowFails, files, Stands, GoesOnTo, TreeFields, Moves, SameKind,
           PlaceholderStays, TreeStays, CleanStays, CleanedSoFar, CallsApart, Reserves, Creates,
           Cleans, CreateStages, CleanStages, T, S
<1>10. QED
    BY <1>1, <1>2, <1>3, <1>4, <1>5, <1>6, <1>7, <1>8, <1>9

LEMMA CleaningUp ==
    ASSUME TreeIInv, NEW c \in Worker
    PROVE  /\ Forget(c) => GoesOnTo(c, "forgotten", call[c].err)
           /\ PathGone(c) => GoesOnTo(c, "checking", TRUE)
           /\ RemoveFails(c) => GoesOnTo(c, "checking", TRUE)
           /\ EraseBranch(c) => GoesOnTo(c, "checking", call[c].err)
           /\ EraseFails(c) => GoesOnTo(c, "checking", TRUE)
           /\ Recheck(c) => GoesOnTo(c, "checked", call[c].err)
           /\ RecheckFails(c) => GoesOnTo(c, "checked", TRUE)
           /\ DropRows(c) => GoesOnTo(c, "done", call[c].err)
<1>0. /\ TreeFields /\ call \in [Worker -> Work] /\ CallsApart /\ CleanedSoFar
      /\ call[c].stage # "idle" => T(c) \in Task /\ S(c) \in Slug
    BY DEF TreeIInv, TreeFields, CallsApart
<1>1. ASSUME Forget(c) PROVE GoesOnTo(c, "forgotten", call[c].err)
    <2>1. Moves(c, "forgotten", call[c].err)
        BY <1>0, <1>1, StageNames, Moving DEF Forget
    <2>2. QED
        BY <1>0, <1>1, <2>1 DEF Forget, files, Stands, GoesOnTo, TreeFields, Moves, SameKind,
           PlaceholderStays, TreeStays, CleanStays, CleanedSoFar, CallsApart, Reserves, Creates,
           Cleans, CreateStages, CleanStages, T, S
<1>2. ASSUME PathGone(c) PROVE GoesOnTo(c, "checking", TRUE)
    <2>1. Moves(c, "checking", TRUE)
        BY <1>0, <1>2, StageNames, Moving DEF PathGone
    <2>2. QED
        BY <1>0, <1>2, <2>1 DEF PathGone, files, Stands, GoesOnTo, TreeFields, Moves, SameKind,
           PlaceholderStays, TreeStays, CleanStays, CleanedSoFar, CallsApart, Reserves, Creates,
           Cleans, CreateStages, CleanStages, T, S
<1>3. ASSUME RemoveFails(c) PROVE GoesOnTo(c, "checking", TRUE)
    <2>1. Moves(c, "checking", TRUE)
        BY <1>0, <1>3, StageNames, Moving DEF RemoveFails
    <2>2. QED
        BY <1>0, <1>3, <2>1 DEF RemoveFails, files, Stands, GoesOnTo, TreeFields, Moves, SameKind,
           PlaceholderStays, TreeStays, CleanStays, CleanedSoFar, CallsApart, Reserves, Creates,
           Cleans, CreateStages, CleanStages, T, S
<1>4. ASSUME EraseBranch(c) PROVE GoesOnTo(c, "checking", call[c].err)
    <2>1. Moves(c, "checking", call[c].err)
        BY <1>0, <1>4, StageNames, Moving DEF EraseBranch
    <2>2. QED
        BY <1>0, <1>4, <2>1 DEF EraseBranch, files, Stands, GoesOnTo, TreeFields, Moves, SameKind,
           PlaceholderStays, TreeStays, CleanStays, CleanedSoFar, CallsApart, Reserves, Creates,
           Cleans, CreateStages, CleanStages, T, S
<1>5. ASSUME EraseFails(c) PROVE GoesOnTo(c, "checking", TRUE)
    <2>1. Moves(c, "checking", TRUE)
        BY <1>0, <1>5, StageNames, Moving DEF EraseFails
    <2>2. QED
        BY <1>0, <1>5, <2>1 DEF EraseFails, files, Stands, GoesOnTo, TreeFields, Moves, SameKind,
           PlaceholderStays, TreeStays, CleanStays, CleanedSoFar, CallsApart, Reserves, Creates,
           Cleans, CreateStages, CleanStages, T, S
<1>6. ASSUME Recheck(c) PROVE GoesOnTo(c, "checked", call[c].err)
    <2>1. Moves(c, "checked", call[c].err)
        BY <1>0, <1>6, StageNames, Moving DEF Recheck
    <2>2. QED
        BY <1>0, <1>6, <2>1 DEF Recheck, files, Stands, GoesOnTo, TreeFields, Moves, SameKind,
           PlaceholderStays, TreeStays, CleanStays, CleanedSoFar, CallsApart, Reserves, Creates,
           Cleans, CreateStages, CleanStages, T, S
<1>7. ASSUME RecheckFails(c) PROVE GoesOnTo(c, "checked", TRUE)
    <2>1. Moves(c, "checked", TRUE)
        BY <1>0, <1>7, StageNames, Moving DEF RecheckFails
    <2>2. QED
        BY <1>0, <1>7, <2>1 DEF RecheckFails, files, Stands, GoesOnTo, TreeFields, Moves, SameKind,
           PlaceholderStays, TreeStays, CleanStays, CleanedSoFar, CallsApart, Reserves, Creates,
           Cleans, CreateStages, CleanStages, T, S
<1>8. ASSUME DropRows(c) PROVE GoesOnTo(c, "done", call[c].err)
    <2>1. Moves(c, "done", call[c].err)
        BY <1>0, <1>8, StageNames, Moving DEF DropRows
    <2>2. QED
        BY <1>0, <1>8, <2>1 DEF DropRows, files, Stands, GoesOnTo, TreeFields, Moves, SameKind,
           PlaceholderStays, TreeStays, CleanStays, CleanedSoFar, CallsApart, Reserves, Creates,
           Cleans, CreateStages, CleanStages, T, S
<1>9. QED
    BY <1>1, <1>2, <1>3, <1>4, <1>5, <1>6, <1>7, <1>8

LEMMA RemoveTreeKeeps ==
    ASSUME TreeIInv, NEW c \in Worker, RemoveTree(c)
    PROVE  TreeIInv'
<1>0. /\ TreeFields /\ call \in [Worker -> Work] /\ CallsApart /\ CleanedSoFar
      /\ T(c) \in Task /\ S(c) \in Slug /\ call[c].err \in BOOLEAN
    BY DEF TreeIInv, TreeFields, CallsApart, RemoveTree, Stands, Work
<1>1. PICK stage \in {"removed", "checking"} :
        Advance(c, stage) /\ (stage = "removed" => c \in Eraser)
    BY DEF RemoveTree
<1>2. stage \in Stages /\ Moves(c, stage, call[c].err)
    BY <1>0, <1>1, StageNames, Moving
<1>3. GoesOnTo(c, stage, call[c].err)
    BY <1>0, <1>1, <1>2 DEF RemoveTree, files, Stands, GoesOnTo, TreeFields, Moves, SameKind,
       PlaceholderStays, TreeStays, CleanStays, CleanedSoFar, CallsApart, Reserves, Creates,
       Cleans, CreateStages, CleanStages, T, S
<1>4. QED
    BY <1>0, <1>2, <1>3, CallKeepsTrees

(* A call begins: its task has calls of the other kind, and races them, or *)
(* has none.                                                               *)
Begins(c, stage, t, s) ==
    /\ Stands(c, "idle") /\ call' \in [Worker -> Work]
    /\ \A d \in Worker \ {c} : call'[d] = call[d]
    /\ call'[c].stage = stage /\ call'[c].task = t /\ call'[c].slug = s
LEMMA Beginning ==
    ASSUME call \in [Worker -> Work], NEW c \in Worker, NEW stage \in Stages,
           NEW t \in Task, NEW s \in Slug, Stands(c, "idle"),
           call' = [call EXCEPT ![c] = [@ EXCEPT !.task = t, !.slug = s, !.stage = stage]]
    PROVE  Begins(c, stage, t, s)
<1> DEFINE r == [call[c] EXCEPT !.task = t, !.slug = s, !.stage = stage]
<1>1. r \in Work /\ r.stage = stage /\ r.task = t /\ r.slug = s
    BY DEF Work
<1>2. call' = [call EXCEPT ![c] = r]
    OBVIOUS
<1> HIDE DEF r
<1>3. QED
    BY <1>1, <1>2 DEF Begins

LEMMA ReserveKeeps ==
    ASSUME TreeIInv, NEW c \in Worker, NEW t \in Task, NEW s \in Slug, Reserve(c, t, s)
    PROVE  TreeIInv'
<1>0. /\ TreeFields /\ CallsApart /\ RacesSeen /\ PlaceholderHeld /\ TreeFound /\ CleanedSoFar
      /\ c \in Creator /\ call[c].stage = "idle" /\ disk' = disk /\ known' = known
      /\ branches' = branches /\ rows' = rows /\ cut' = cut
      /\ raced \subseteq raced' /\ (On(t) \cap Cleaning # {} => t \in raced')
      /\ \A d \in Worker : call[d].stage \in Stages
    BY DEF TreeIInv, Reserve, Stands, files, TreeFields, Work
<1>1. PICK stage \in {"reserved", "refused"} :
        /\ Begins(c, stage, t, s)
        /\ IF stage = "reserved" THEN leases' = [leases EXCEPT ![t] = "placeholder"]
                                 ELSE leases' = leases
    <2>1. "reserved" \in Stages /\ "refused" \in Stages
        BY DEF Stages, CreateStages, Ended
    <2>2. QED
        BY <1>0, <2>1, Beginning DEF Reserve, TreeFields
<1>2. TreeFields'
    BY <1>0, <1>1 DEF TreeFields, Begins
<1>3. CallsApart'
    BY <1>0, <1>1 DEF CallsApart, Begins, Creates, Cleans, CreateStages, CleanStages, Stands, T, S
<1>4. RacesSeen'
    <2> SUFFICES ASSUME NEW a \in Worker, NEW d \in Worker, Creates(a)', Cleans(d)',
                        call'[a].task = call'[d].task
                 PROVE  call'[a].task \in raced'
        BY DEF RacesSeen, T
    <2>1. d # c /\ call'[d] = call[d] /\ Cleans(d)
        BY <1>1 DEF Begins, Cleans, CleanStages
    <2>2. CASE a = c
        <3>1. d \in Cleaning /\ d \in On(t)
            BY <1>0, <1>1, <2>1, <2>2 DEF Begins, CallsApart, On, Ended, Cleans, CleanStages, T
        <3>2. QED
            BY <1>0, <1>1, <2>2, <3>1 DEF Begins
    <2>3. CASE a # c
        BY <1>0, <1>1, <2>1, <2>3 DEF Begins, RacesSeen, Creates, T
    <2>4. QED
        BY <2>2, <2>3
<1>5. PlaceholderHeld'
    <2> SUFFICES ASSUME NEW u \in Task \ cut, leases'[u] = "placeholder"
                 PROVE  \E d \in Worker : Reserves(d)' /\ call'[d].task = u
        BY <1>0 DEF PlaceholderHeld, T
    <2>1. CASE u = t /\ stage = "reserved"
        <3>1. Reserves(c)' /\ call'[c].task = u
            BY <1>1, <2>1 DEF Begins, Reserves, Creates, CreateStages, Stands
        <3>2. QED
            BY <3>1
    <2>2. CASE ~(u = t /\ stage = "reserved")
        <3>1. leases[u] = "placeholder"
            BY <1>0, <1>1, <2>2 DEF TreeFields
        <3>2. PICK d \in Worker : Reserves(d) /\ T(d) = u
            BY <1>0, <3>1 DEF PlaceholderHeld
        <3>3. d # c
            BY <1>0, <3>2 DEF Reserves, Creates, CreateStages
        <3>4. Reserves(d)' /\ call'[d].task = u
            BY <1>1, <3>2, <3>3 DEF Begins, Reserves, Creates, Stands, T
        <3>5. QED
            BY <3>4
    <2>3. QED
        BY <2>1, <2>2
<1>6. TreeFound'
    <2> SUFFICES ASSUME NEW u \in Task \ (cut \cup raced), disk[u] # Nil, rows[u] = {}
                 PROVE  \E d \in Worker : call'[d].stage \in {"added", "held"} /\ call'[d].task = u
        BY <1>0 DEF TreeFound, T
    <2>1. PICK d \in Worker : call[d].stage \in {"added", "held"} /\ T(d) = u
        BY <1>0 DEF TreeFound
    <2>2. d # c
        BY <1>0, <2>1
    <2>3. QED
        BY <1>1, <2>1, <2>2 DEF Begins, T
<1>7. CleanedSoFar'
    BY <1>0, <1>1 DEF CleanedSoFar, Begins, Stands, T, S
<1>8. QED
    BY <1>2, <1>3, <1>4, <1>5, <1>6, <1>7 DEF TreeIInv

LEMMA FindKeeps ==
    ASSUME TreeIInv, NEW c \in Worker, NEW t \in Task, Find(c, t)
    PROVE  TreeIInv'
<1>0. /\ TreeFields /\ CallsApart /\ RacesSeen /\ PlaceholderHeld /\ TreeFound /\ CleanedSoFar
      /\ c \in Cleaning /\ call[c].stage = "idle" /\ disk' = disk /\ known' = known
      /\ branches' = branches /\ rows' = rows /\ cut' = cut /\ leases' = leases
      /\ raced \subseteq raced' /\ (On(t) \cap Creator # {} => t \in raced')
    BY DEF TreeIInv, Find, Stands, files
<1>1. PICK s \in Slug : Begins(c, "found", t, s)
    <2>1. "found" \in Stages /\ rows[t] \subseteq Slug
        BY <1>0 DEF Stages, CleanStages, TreeFields
    <2>2. QED
        BY <1>0, <2>1, Beginning DEF Find, TreeFields
<1>2. TreeFields'
    BY <1>0, <1>1 DEF TreeFields, Begins
<1>3. CallsApart'
    BY <1>0, <1>1 DEF CallsApart, Begins, Creates, Cleans, CreateStages, CleanStages, Stands, T, S
<1>4. RacesSeen'
    <2> SUFFICES ASSUME NEW a \in Worker, NEW d \in Worker, Creates(a)', Cleans(d)',
                        call'[a].task = call'[d].task
                 PROVE  call'[a].task \in raced'
        BY DEF RacesSeen, T
    <2>1. a # c /\ call'[a] = call[a] /\ Creates(a)
        BY <1>1 DEF Begins, Creates, CreateStages
    <2>2. CASE d = c
        <3>1. a \in Creator /\ a \in On(t)
            BY <1>0, <1>1, <2>1, <2>2 DEF Begins, CallsApart, On, Ended, Creates, CreateStages, T
        <3>2. QED
            BY <1>0, <1>1, <2>1, <2>2, <3>1 DEF Begins
    <2>3. CASE d # c
        BY <1>0, <1>1, <2>1, <2>3 DEF Begins, RacesSeen, Cleans, T
    <2>4. QED
        BY <2>2, <2>3
<1>5. PlaceholderHeld'
    <2> SUFFICES ASSUME NEW u \in Task \ cut, leases[u] = "placeholder"
                 PROVE  \E d \in Worker : Reserves(d)' /\ call'[d].task = u
        BY <1>0 DEF PlaceholderHeld, T
    <2>1. PICK d \in Worker : Reserves(d) /\ T(d) = u
        BY <1>0 DEF PlaceholderHeld
    <2>2. d # c
        BY <1>0, <2>1 DEF Reserves, Creates, CreateStages
    <2>3. Reserves(d)' /\ call'[d].task = u
        BY <1>1, <2>1, <2>2 DEF Begins, Reserves, Creates, Stands, T
    <2>4. QED
        BY <2>3
<1>6. TreeFound'
    <2> SUFFICES ASSUME NEW u \in Task \ (cut \cup raced), disk[u] # Nil, rows[u] = {}
                 PROVE  \E d \in Worker : call'[d].stage \in {"added", "held"} /\ call'[d].task = u
        BY <1>0 DEF TreeFound, T
    <2>1. PICK d \in Worker : call[d].stage \in {"added", "held"} /\ T(d) = u
        BY <1>0 DEF TreeFound
    <2>2. d # c
        BY <1>0, <2>1
    <2>3. QED
        BY <1>1, <2>1, <2>2 DEF Begins, T
<1>7. CleanedSoFar'
    BY <1>0, <1>1 DEF CleanedSoFar, Begins, Stands, T, S
<1>8. QED
    BY <1>2, <1>3, <1>4, <1>5, <1>6, <1>7 DEF TreeIInv

(* The user deletes a directory; the process starts again.                 *)
LEMMA TidyKeeps ==
    ASSUME TreeIInv, NEW t \in Task, Tidy(t)
    PROVE  TreeIInv'
<1>1. /\ TreeFields /\ disk' = [disk EXCEPT ![t] = Nil]
      /\ UNCHANGED <<leases, known, branches, rows, call, cut, raced, restarts>>
    BY DEF TreeIInv, Tidy
<1>2. TreeFields' /\ \A u \in Task : disk'[u] # Nil => disk[u] # Nil
    BY <1>1 DEF TreeFields
<1>3. TreeFound'
    BY <1>1, <1>2 DEF TreeIInv, TreeFound, T
<1>4. CleanedSoFar'
    <2>1. \A c \in Worker :
            call[c].stage \in {"removed", "checking", "checked"} => T(c) \in Task
        BY DEF TreeIInv, CallsApart
    <2>2. QED
        BY <1>1, <1>2, <2>1 DEF TreeIInv, CleanedSoFar, Stands, T, S
<1>5. QED
    BY <1>1, <1>2, <1>3, <1>4 DEF TreeIInv, CallsApart, RacesSeen, PlaceholderHeld, Creates,
       Cleans, Reserves, Stands, T, S

LEMMA RestartKeeps ==
    ASSUME TreeIInv, Restart
    PROVE  TreeIInv'
<1>0. /\ TreeFields /\ CallsApart /\ TreeFound
      /\ leases' = [t \in Task |-> "none"] /\ disk' = disk /\ known' = known
      /\ branches' = branches /\ rows' = rows /\ raced' = raced
      /\ cut' = cut \cup {T(c) : c \in {d \in Worker : call[d].stage \notin Ended}}
    BY DEF TreeIInv, Restart, files
<1>1. call' \in [Worker -> Work] /\ \A c \in Worker :
        /\ call'[c].task = call[c].task /\ call'[c].slug = call[c].slug
        /\ call'[c].stage \in Ended /\ (call[c].stage = "idle" => call'[c].stage = "idle")
    <2> DEFINE Stopped(r) == [r EXCEPT !.stage = "refused"]
    <2>1. \A r \in Work : /\ Stopped(r) \in Work /\ Stopped(r).task = r.task
                          /\ Stopped(r).slug = r.slug /\ Stopped(r).stage = "refused"
        BY DEF Work, Stages, Ended
    <2>2. call' = [c \in Worker |-> IF call[c].stage \in Ended THEN call[c] ELSE Stopped(call[c])]
        BY DEF Restart
    <2> HIDE DEF Stopped
    <2>3. QED
        BY <1>0, <2>1, <2>2 DEF TreeFields, Ended
<1>2. TreeFields'
    BY <1>0, <1>1 DEF TreeFields
<1>3. CallsApart' /\ RacesSeen' /\ PlaceholderHeld' /\ CleanedSoFar'
    <2>1. \A c \in Worker : call'[c].stage \notin CreateStages \cup CleanStages
        BY <1>1 DEF CreateStages, CleanStages, Ended
    <2>2. CallsApart' /\ RacesSeen'
        BY <1>0, <1>1, <2>1 DEF CallsApart, RacesSeen, Creates, Cleans, CleanStages, Stands, T, S
    <2>3. PlaceholderHeld'
        BY <1>0 DEF PlaceholderHeld
    <2>4. CleanedSoFar'
        BY <2>1 DEF CleanedSoFar, CleanStages, Stands
    <2>5. QED
        BY <2>2, <2>3, <2>4
<1>4. TreeFound'
    <2> SUFFICES ASSUME NEW t \in Task \ (cut' \cup raced), disk[t] # Nil, rows[t] = {}
                 PROVE  FALSE
        BY <1>0 DEF TreeFound
    <2>1. PICK c \in Worker : call[c].stage \in {"added", "held"} /\ T(c) = t
        BY <1>0 DEF TreeFound
    <2>2. QED
        BY <1>0, <2>1 DEF Ended
<1>5. QED
    BY <1>2, <1>3, <1>4 DEF TreeIInv

-----------------------------------------------------------------------------
LEMMA TreeStarts == TreeInit => TreeIInv
<1> SUFFICES ASSUME TreeInit PROVE TreeIInv
    OBVIOUS
<1>1. NoWork \in Work /\ NoWork.stage = "idle"
    BY DEF NoWork, Work, Stages, Ended
<1>2. TreeFields /\ \A c \in Worker : call[c].stage = "idle"
    BY <1>1 DEF TreeInit, TreeFields
<1>3. QED
    BY <1>2 DEF TreeInit, TreeIInv, CallsApart, RacesSeen, PlaceholderHeld, TreeFound, CleanedSoFar,
       Creates, Cleans, CreateStages, CleanStages, Stands, T, S

LEMMA TreeKeeps ==
    ASSUME TreeIInv, [TreeNext]_treeVars
    PROVE  TreeIInv'
<1>0. \A c \in Worker : call[c].err \in BOOLEAN
    BY DEF TreeIInv, TreeFields, Work
<1>1. ASSUME NEW c \in Worker, Create(c)
      PROVE  TreeIInv'
    BY <1>0, <1>1, Creating, ReserveKeeps, StageNames, CallKeepsTrees DEF Create
<1>2. ASSUME NEW c \in Worker, CleanUp(c)
      PROVE  TreeIInv'
    BY <1>0, <1>2, CleaningUp, FindKeeps, RemoveTreeKeeps, StageNames, CallKeepsTrees DEF CleanUp
<1>3. CASE UNCHANGED treeVars
    BY <1>3 DEF treeVars, files, TreeIInv, TreeFields, CallsApart, RacesSeen, PlaceholderHeld,
       TreeFound, CleanedSoFar, Creates, Cleans, Reserves, Stands, T, S
<1>4. QED
    BY <1>1, <1>2, <1>3, TidyKeeps, RestartKeeps DEF TreeNext

(* A lease that is only a placeholder is of a creation under way, a        *)
(* directory nobody works on has a row, and a clean-up that reports no     *)
(* error has left nothing, wherever git or the database fail and the       *)
(* process restarts (create_worktree_from_start_point,                     *)
(* cleanup_task_worktree_inner).                                           *)
THEOREM WorktreesHold == TreeSpec => WorktreesKept
<1>1. TreeInit => TreeIInv
    BY TreeStarts
<1>2. TreeIInv /\ [TreeNext]_treeVars => TreeIInv'
    BY TreeKeeps
<1>3. TreeIInv => TreesAccounted
    <2> SUFFICES ASSUME TreeIInv PROVE TreesAccounted
        OBVIOUS
    <2>1. PlaceholderIsSomeones
        BY DEF TreeIInv, PlaceholderHeld, PlaceholderIsSomeones, CallsApart, Reserves, Creates,
           CreateStages, On, Ended, T
    <2>2. NoStrayTree
        BY DEF TreeIInv, TreeFound, NoStrayTree, On, Ended, T
    <2>3. QED
        BY <2>1, <2>2 DEF TreesAccounted
<1>4. TreeIInv => \A c \in Cleaning :
            LET t == T(c)
            IN  DropRows(c) /\ t \notin raced /\ ~call[c].err =>
                    disk[t] = Nil /\ known[t] = Nil /\ (c \in Eraser => S(c) \notin branches[t])
    BY DEF TreeIInv, CleanedSoFar, DropRows, Stands, Worker, Cleaning
<1>5. QED
    BY <1>1, <1>2, <1>3, <1>4, PTL DEF TreeSpec, WorktreesKept, CleanMeansClean

-----------------------------------------------------------------------------
(* The fields of ProjectSecrets, where one command is under way at a time  *)
(* and no template is exported.                                            *)
Value == Given \cup {Absent}
File == [Name -> Value]
Scope == {"project", "global"}
Storing == [does : {"store", "row", "drop"}, id : Id, old : Row \cup {Absent}, value : Given,
            new : Row]
Filing == [does : {"write", "row", "drop"}, then : {"row"}, file : File, id : Id,
           old : Row \cup {Absent}, value : Given, new : Row]
Clearing == [does : {"write", "unlist"}, then : {"unlist", "done"}, file : File, id : Id]
Erasing == [does : {"erase", "unlist"}, id : Id, old : Row]
SecretsFields ==
    /\ refs \in [Id -> Row \cup {Absent}] /\ envFile \in File
    /\ keychain \in [Scope \X Name -> Value]
    /\ command \in [Commander -> {Rest} \cup Storing \cup Filing \cup Clearing \cup Erasing]
    /\ mishaps \in Nat /\ doomed \subseteq Id

(* No two rows of a scope have one name.                                   *)
NamesApart == \A i \in Id : refs[i] # Absent => MayTake(refs[i].name, refs[i].place, i)

(* Where a command stands, and what it relies on there.                    *)
Writes(do, next) == do.does = "write" /\ do.then = next
Saving(do) == do.does \in {"store", "row"} \/ Writes(do, "row")
IsAt(i, place, n) == refs[i] # Absent /\ refs[i].place = place /\ refs[i].name = n
SaveHolds(do) ==
    /\ do.old = refs[do.id] /\ MayTake(do.new.name, do.new.place, do.id)
    /\ do.does = "row" => ValueAt(do.new.place, do.new.name, keychain, envFile) = do.value
    /\ do.does = "write" =>
        do.new.place.backend = "env_file" /\ do.file = [envFile EXCEPT ![do.new.name] = do.value]
OldIsFree(do) == Moved(do) => \A i \in Id : ~IsAt(i, do.old.place, do.old.name)
InFile == [scope |-> "project", backend |-> "env_file"]
Clears(do, n) == n \in Name /\ do.file = [envFile EXCEPT ![n] = Absent]
CommandHolds(do) ==
    /\ Saving(do) => SaveHolds(do)
    /\ do.does = "drop" => OldIsFree(do)
    /\ do.does = "erase" => refs[do.id] = do.old /\ do.id \in doomed
    /\ Writes(do, "unlist") =>
        do.id \in doomed /\ \E n \in Name : Clears(do, n) /\ IsAt(do.id, InFile, n)
    /\ do.does = "unlist" => do.id \in doomed /\ refs[do.id] # Absent /\ ValueOf(do.id) = Absent
    /\ Writes(do, "done") => \E n \in Name : Clears(do, n) /\ \A i \in Id : ~IsAt(i, InFile, n)

(* As long as nothing failed, a value has its row, or a command that is    *)
(* about to write the row or to remove the value.                          *)
Owes(do, place, n) ==
    \/ do.does = "row" /\ do.new = [name |-> n, place |-> place]
    \/ do.does = "drop" /\ Moved(do) /\ do.old = [name |-> n, place |-> place]
    \/ Writes(do, "done") /\ place = InFile /\ Clears(do, n)
StoredFor ==
    mishaps = 0 => \A place \in Place, n \in Name :
        ValueAt(place, n, keychain, envFile) # Absent =>
            \/ \E i \in Id : refs[i] = [name |-> n, place |-> place]
            \/ \E c \in Commander : Owes(command[c], place, n)

SecretsIInv ==
    /\ SecretsFields /\ NamesApart /\ NamesHaveValues /\ StoredFor
    /\ \A c \in Commander : CommandHolds(command[c])

(* What the proof assumes of the application: its pane offers no command   *)
(* while one is under way, and no template is exported over the values.    *)
OneAtATime == (\A c, d \in Commander : c = d) /\ ~MayExport

-----------------------------------------------------------------------------
(* Values are kept at places of their own.                                 *)
Val(place, n) == ValueAt(place, n, keychain, envFile)
Puts(place, n, v) ==
    \A p \in Place, m \in Name : Val(p, m)' = IF p = place /\ m = n THEN v ELSE Val(p, m)
LEMMA Places ==
    /\ InFile \in Place
    /\ \A p \in Place : /\ p.scope \in Scope /\ p.backend \in {"keychain", "env_file"}
                        /\ p.backend = "env_file" => p = InFile
    /\ \A p, q \in Place : p.scope = q.scope /\ p.backend = q.backend => p = q
BY DEF Place, InFile, Scope

LEMMA PutInKeychain ==
    ASSUME SecretsFields, NEW place \in Place, place.backend = "keychain", NEW n \in Name,
           NEW v \in Value, envFile' = envFile,
           keychain' = [keychain EXCEPT ![<<place.scope, n>>] = v]
    PROVE  keychain' \in [Scope \X Name -> Value] /\ Puts(place, n, v)
<1>1. keychain \in [Scope \X Name -> Value] /\ <<place.scope, n>> \in Scope \X Name
    BY Places DEF SecretsFields
<1>2. ASSUME NEW p \in Place, NEW m \in Name
      PROVE  Val(p, m)' = IF p = place /\ m = n THEN v ELSE Val(p, m)
    <2>1. CASE p.backend = "env_file"
        BY <2>1 DEF Val, ValueAt
    <2>2. CASE p.backend # "env_file"
        <3>1. Val(p, m) = keychain[<<p.scope, m>>] /\ Val(p, m)' = keychain'[<<p.scope, m>>]
            BY <2>2 DEF Val, ValueAt
        <3>2. p.scope \in Scope /\ p.backend = "keychain" /\ (p.scope = place.scope => p = place)
            BY <2>2, Places
        <3>3. <<p.scope, m>> \in Scope \X Name
            BY <3>2
        <3>4. <<p.scope, m>> = <<place.scope, n>> <=> p = place /\ m = n
            BY <3>2
        <3>5. keychain'[<<p.scope, m>>] =
                IF <<p.scope, m>> = <<place.scope, n>> THEN v ELSE keychain[<<p.scope, m>>]
            BY <1>1, <3>3
        <3>6. QED
            BY <3>1, <3>4, <3>5
    <2>3. QED
        BY <2>1, <2>2
<1>3. QED
    BY <1>1, <1>2 DEF Puts

LEMMA PutInFile ==
    ASSUME SecretsFields, NEW n \in Name, NEW v \in Value, keychain' = keychain,
           envFile' = [envFile EXCEPT ![n] = v]
    PROVE  envFile' \in File /\ Puts(InFile, n, v)
<1>1. envFile \in [Name -> Value]
    BY DEF SecretsFields, File
<1>2. ASSUME NEW p \in Place, NEW m \in Name
      PROVE  Val(p, m)' = IF p = InFile /\ m = n THEN v ELSE Val(p, m)
    <2>1. CASE p.backend = "env_file"
        <3>1. p = InFile
            BY <2>1, Places
        <3>2. Val(p, m) = envFile[m] /\ Val(p, m)' = envFile'[m]
            BY <2>1 DEF Val, ValueAt
        <3>3. QED
            BY <1>1, <3>1, <3>2
    <2>2. CASE p.backend # "env_file"
        <3>1. p # InFile
            BY <2>2 DEF InFile
        <3>2. QED
            BY <2>2, <3>1 DEF Val, ValueAt
    <2>3. QED
        BY <2>1, <2>2
<1>3. QED
    BY <1>1, <1>2 DEF Puts, File

(* What a step that leaves the rows alone keeps of them.                   *)
Changes(i) == refs[i] # Absent /\ refs'[i] # Absent /\ ValueOf(i)' # ValueOf(i)
OthersKept ==
    \A i \in Id : Changes(i) => \E c \in Commander : ~Doing(c, "nothing") /\ command[c].id = i
LEMMA RowsPlaces ==
    ASSUME SecretsFields, NEW i \in Id, refs[i] # Absent
    PROVE  /\ refs[i] \in Row /\ refs[i].place \in Place /\ refs[i].name \in Name
           /\ refs[i] = [name |-> refs[i].name, place |-> refs[i].place]
           /\ ValueOf(i) = Val(refs[i].place, refs[i].name)
BY DEF SecretsFields, Row, ValueOf, Val

LEMMA PutKeepsRows ==
    ASSUME SecretsFields, NamesApart, NamesHaveValues, refs' = refs, doomed \subseteq doomed',
           NEW place \in Place, NEW n \in Name, NEW v, Puts(place, n, v),
           NEW c \in Commander, ~Doing(c, "nothing"),
           \A i \in Id : IsAt(i, place, n) =>
                command[c].id = i /\ (v \in Given \/ i \in doomed')
    PROVE  NamesApart' /\ NamesHaveValues' /\ OthersKept
<1>1. ASSUME NEW i \in Id, refs[i] # Absent
      PROVE  \/ IsAt(i, place, n) /\ ValueOf(i)' = v
             \/ ValueOf(i)' = ValueOf(i)
    <2>1. refs[i].place \in Place /\ refs[i].name \in Name /\ ValueOf(i) = Val(refs[i].place, refs[i].name)
        BY <1>1, RowsPlaces
    <2>2. ValueOf(i)' = Val(refs[i].place, refs[i].name)'
        BY DEF ValueOf, Val
    <2> DEFINE p == refs[i].place
               m == refs[i].name
    <2>3. PICK q \in Place, k \in Name : q = p /\ k = m
        BY <2>1
    <2>4. ValueOf(i)' = Val(q, k)' /\ ValueOf(i) = Val(q, k)
        BY <2>1, <2>2, <2>3 DEF Val, ValueOf
    <2>5. QED
        BY <1>1, <2>3, <2>4 DEF Puts, IsAt
<1>2. NamesApart'
    BY DEF NamesApart, MayTake, NameTaken
<1>3. NamesHaveValues'
    BY <1>1 DEF NamesHaveValues
<1>4. OthersKept
    BY <1>1 DEF OthersKept, Changes
<1>5. QED
    BY <1>2, <1>3, <1>4

-----------------------------------------------------------------------------
(* One command is under way, and a step replaces its record.               *)
Commands == {Rest} \cup Storing \cup Filing \cup Clearing \cup Erasing
Becomes(c, r) == command' = [command EXCEPT ![c] = r]

LEMMA Kinds ==
    ASSUME SecretsFields, NEW c \in Commander
    PROVE  /\ command[c] \in Commands
           /\ command[c].does = "nothing" => command[c] = Rest
           /\ command[c].does = "store" => command[c] \in Storing
           /\ command[c].does \in {"row", "drop"} => command[c] \in Storing \cup Filing
           /\ Writes(command[c], "row") => command[c] \in Filing
           /\ Writes(command[c], "unlist") \/ Writes(command[c], "done") => command[c] \in Clearing
           /\ command[c].does = "write" => command[c] \in Filing \cup Clearing
           /\ command[c].does = "erase" => command[c] \in Erasing
           /\ command[c].does = "unlist" => command[c] \in Clearing \cup Erasing
<1>1. command[c] \in Commands
    BY DEF SecretsFields, Commands
<1>2. CASE command[c] = Rest
    BY <1>2 DEF Rest, Commands, Writes
<1>3. CASE command[c] \in Storing
    BY <1>1, <1>3 DEF Storing, Writes
<1>4. CASE command[c] \in Filing
    BY <1>1, <1>4 DEF Filing, Writes
<1>5. CASE command[c] \in Clearing
    BY <1>1, <1>5 DEF Clearing, Writes
<1>6. CASE command[c] \in Erasing
    BY <1>1, <1>6 DEF Erasing, Writes
<1>7. QED
    BY <1>1, <1>2, <1>3, <1>4, <1>5, <1>6 DEF Commands

Goes(r) ==
    /\ r \in Commands /\ CommandHolds(r)'
    /\ refs' \in [Id -> Row \cup {Absent}] /\ envFile' \in File
    /\ keychain' \in [Scope \X Name -> Value]
    /\ mishaps' \in Nat /\ doomed' \subseteq Id
    /\ NamesApart' /\ NamesHaveValues'
    /\ mishaps' = 0 => mishaps = 0 /\ \A place \in Place, n \in Name :
        Val(place, n)' # Absent =>
            \/ \E i \in Id : refs'[i] = [name |-> n, place |-> place]
            \/ Owes(r, place, n)'

LEMMA OneGoes ==
    ASSUME OneAtATime, SecretsFields, NEW c \in Commander, NEW r, Becomes(c, r), Goes(r)
    PROVE  SecretsIInv'
<1>1. /\ command \in [Commander -> Commands]
      /\ command' = [d \in Commander |-> r]
    BY DEF OneAtATime, SecretsFields, Becomes, Commands
<1>2. \A d \in Commander : command'[d] = r
    BY <1>1
<1>3. SecretsFields'
    BY <1>1 DEF SecretsFields, Goes, Commands
<1>4. \A d \in Commander : CommandHolds(command[d])'
    <2>1. TAKE d \in Commander
    <2>2. command'[d] = r
        BY <1>2
    <2>3. CommandHolds(r)'
        BY DEF Goes
    <2>4. QED
        BY <2>2, <2>3 DEF CommandHolds, Saving, Writes, SaveHolds, OldIsFree, Moved, SameStorage, Clears
<1>5. StoredFor'
    <2>1. SUFFICES ASSUME mishaps' = 0, NEW place \in Place, NEW n \in Name,
                          ValueAt(place, n, keychain, envFile)' # Absent
                   PROVE  \/ \E i \in Id : refs'[i] = [name |-> n, place |-> place]
                          \/ \E d \in Commander : Owes(command[d], place, n)'
        BY DEF StoredFor
    <2>2. Val(place, n)' # Absent
        BY <2>1 DEF Val
    <2>3. (\E i \in Id : refs'[i] = [name |-> n, place |-> place]) \/ Owes(r, place, n)'
        BY <2>1, <2>2 DEF Goes
    <2>4. Owes(r, place, n)' => Owes(command[c], place, n)'
        BY <1>2 DEF Owes, Writes, Moved, SameStorage, Clears
    <2>5. QED
        BY <2>3, <2>4
<1>6. QED
    BY <1>3, <1>4, <1>5 DEF Goes, SecretsIInv

(* What the invariant says where nothing is owed but by the command.       *)
LEMMA Kept ==
    ASSUME OneAtATime, SecretsIInv, NEW c \in Commander, mishaps = 0,
           NEW place \in Place, NEW n \in Name, Val(place, n) # Absent
    PROVE  (\E i \in Id : refs[i] = [name |-> n, place |-> place]) \/ Owes(command[c], place, n)
BY DEF OneAtATime, SecretsIInv, StoredFor, Val

(* A step that moves no value and no row.                                  *)
LEMMA Quiet ==
    ASSUME SecretsFields, NamesApart, NamesHaveValues, refs' = refs, keychain' = keychain,
           envFile' = envFile, doomed \subseteq doomed'
    PROVE  /\ NamesApart' /\ NamesHaveValues' /\ OthersKept
           /\ refs' \in [Id -> Row \cup {Absent}] /\ envFile' \in File
           /\ keychain' \in [Scope \X Name -> Value]
           /\ \A place \in Place, n \in Name : Val(place, n)' = Val(place, n)
BY DEF SecretsFields, NamesApart, MayTake, NameTaken, NamesHaveValues, ValueOf, OthersKept,
       Changes, Val

-----------------------------------------------------------------------------
StepKeeps == SecretsIInv' /\ OthersKept

LEMMA SavesKeeps ==
    ASSUME OneAtATime, SecretsIInv, NEW c \in Commander, NEW i \in Id, NEW n \in Name,
           NEW place \in Place, NEW v, Saves(c, i, n, place, v), Doing(c, "nothing"),
           UNCHANGED <<refs, keychain, envFile, mishaps, doomed>>
    PROVE  StepKeeps
<1> DEFINE s == [does |-> "store", id |-> i, old |-> refs[i], value |-> v,
                 new |-> [name |-> n, place |-> place]]
<1>1. PICK r : r = s
    OBVIOUS
<1>0. SecretsFields /\ NamesApart /\ NamesHaveValues
    BY DEF SecretsIInv
<1>2. Becomes(c, r)
    BY <1>1 DEF Saves, Becomes
<1>3. r \in Storing /\ r.does = "store" /\ r.old = refs[r.id] /\ r.id = i /\ r.new.name = n /\ r.new.place = place
    BY <1>0, <1>1 DEF SecretsFields, Storing, Saves, Row
<1>4. /\ NamesApart' /\ NamesHaveValues' /\ OthersKept
      /\ refs' \in [Id -> Row \cup {Absent}] /\ envFile' \in File
      /\ keychain' \in [Scope \X Name -> Value]
      /\ \A p \in Place, m \in Name : Val(p, m)' = Val(p, m)
    BY <1>0, Quiet
<1>5. CommandHolds(r)'
    BY <1>3 DEF CommandHolds, Saving, Writes, SaveHolds, Saves, MayTake, NameTaken
<1>6. ASSUME mishaps = 0, NEW p \in Place, NEW m \in Name, Val(p, m)' # Absent
      PROVE  \E j \in Id : refs'[j] = [name |-> m, place |-> p]
    <2>1. ~Owes(command[c], p, m)
        BY DEF Doing, Owes, Writes
    <2>2. QED
        BY <1>4, <1>6, <2>1, Kept
<1>7. Goes(r)
    BY <1>0, <1>3, <1>4, <1>5, <1>6 DEF Goes, Commands, SecretsFields
<1>8. QED
    BY <1>0, <1>2, <1>4, <1>7, OneGoes DEF StepKeeps

LEMMA StoreRefKeeps ==
    ASSUME OneAtATime, SecretsIInv, NEW c \in Commander, StoreRef(c)
    PROVE  StepKeeps
<1>0. SecretsFields /\ NamesApart /\ NamesHaveValues /\ CommandHolds(command[c])
    BY DEF SecretsIInv
<1>1. PICK do : do = command[c]
    OBVIOUS
<1>2. PICK r : r = [do EXCEPT !.does = "drop"]
    OBVIOUS
<1>3. do.does = "row" /\ do \in Storing \cup Filing
    BY <1>0, <1>1, Kinds DEF StoreRef, Doing
<1>4. /\ r \in Storing \cup Filing /\ r.does = "drop" /\ r.id = do.id /\ r.old = do.old
      /\ r.new = do.new /\ do.id \in Id /\ do.new \in Row /\ do.old \in Row \cup {Absent}
      /\ do.value \in Given
    BY <1>2, <1>3 DEF Storing, Filing
<1>5. Becomes(c, r)
    BY <1>1, <1>2 DEF StoreRef, GoesOn, Becomes
<1>6. /\ do.old = refs[do.id] /\ MayTake(do.new.name, do.new.place, do.id)
      /\ Val(do.new.place, do.new.name) = do.value
    BY <1>0, <1>1, <1>3 DEF CommandHolds, Saving, SaveHolds, Val
<1>7. refs' = [refs EXCEPT ![do.id] = do.new]
    <2>1. Inserted(do) = [refs EXCEPT ![do.id] = do.new]
        BY <1>6 DEF Inserted, MayTake
    <2>2. QED
        BY <1>1, <1>6, <2>1 DEF StoreRef
<1>8. /\ refs' \in [Id -> Row \cup {Absent}] /\ refs'[do.id] = do.new
      /\ \A i \in Id : i # do.id => refs'[i] = refs[i]
      /\ refs \in [Id -> Row \cup {Absent}]
    BY <1>0, <1>4, <1>7 DEF SecretsFields
<1>9. do.new # Absent /\ Absent \notin Row /\ do.new.name \in Name /\ do.new.place \in Place
    BY <1>4, SecretsAssumption DEF Row
<1>10. \A p \in Place, m \in Name : Val(p, m)' = Val(p, m)
    BY DEF StoreRef, Val
<1>11. ASSUME NEW i \in Id, refs'[i] # Absent
       PROVE  \/ i # do.id /\ refs[i] # Absent /\ ValueOf(i)' = ValueOf(i)
              \/ i = do.id /\ ValueOf(i)' = do.value
    <2>1. CASE i = do.id
        <3>1. ValueOf(i)' = ValueAt(do.new.place, do.new.name, keychain, envFile)'
            BY <1>8, <2>1 DEF ValueOf
        <3>2. ValueOf(i)' = do.value
            BY <1>6, <1>9, <3>1 DEF StoreRef, Val
        <3>3. QED
            BY <2>1, <3>2
    <2>2. CASE i # do.id
        <3>1. keychain' = keychain /\ envFile' = envFile /\ refs'[i] = refs[i]
            BY <1>8, <2>2 DEF StoreRef
        <3>2. QED
            BY <1>11, <2>2, <3>1 DEF ValueOf, ValueAt
    <2>3. QED
        BY <2>1, <2>2
<1>12. NamesApart'
    BY <1>0, <1>6, <1>8, <1>9 DEF NamesApart, MayTake, NameTaken
<1>13. NamesHaveValues'
    BY <1>0, <1>1, <1>4, <1>11 DEF NamesHaveValues, StoreRef
<1>14. OthersKept
    BY <1>1, <1>3, <1>11 DEF OthersKept, Changes, Doing
<1>15. OldIsFree(r)'
    <2>1. SUFFICES ASSUME Moved(r), NEW i \in Id PROVE ~IsAt(i, r.old.place, r.old.name)'
        BY DEF OldIsFree, Moved, SameStorage
    <2>2. refs[do.id] # Absent /\ do.old = refs[do.id] /\ ~SameStorage(do.old, do.new)
        BY <1>4, <1>6, <2>1 DEF Moved
    <2>3. CASE i = do.id
        BY <1>4, <1>8, <2>2, <2>3 DEF IsAt, SameStorage
    <2>4. CASE i # do.id
        BY <1>0, <1>4, <1>8, <2>2, <2>4 DEF IsAt, NamesApart, MayTake, NameTaken
    <2>5. QED
        BY <2>3, <2>4
<1>16. CommandHolds(r)'
    BY <1>4, <1>15 DEF CommandHolds, Saving, Writes
<1>17. ASSUME mishaps = 0, NEW p \in Place, NEW m \in Name, Val(p, m)' # Absent
       PROVE  (\E i \in Id : refs'[i] = [name |-> m, place |-> p]) \/ Owes(r, p, m)'
    <2>1. Val(p, m) # Absent
        BY <1>10, <1>17
    <2>2. CASE Owes(command[c], p, m)
        <3>1. do.new = [name |-> m, place |-> p]
            BY <1>1, <1>3, <2>2 DEF Owes, Writes
        <3>2. QED
            BY <1>4, <1>8, <3>1
    <2>3. ASSUME NEW i \in Id, refs[i] = [name |-> m, place |-> p]
          PROVE  (\E j \in Id : refs'[j] = [name |-> m, place |-> p]) \/ Owes(r, p, m)'
        <3>1. CASE i # do.id
            BY <1>8, <2>3, <3>1
        <3>2. CASE i = do.id /\ SameStorage(do.old, do.new)
            <4>1. do.new = [name |-> m, place |-> p]
                BY <1>4, <1>6, <2>3, <3>2 DEF SameStorage, Row
            <4>2. QED
                BY <1>8, <2>3, <3>2, <4>1
        <3>3. CASE i = do.id /\ ~SameStorage(do.old, do.new)
            <4>1. r.old = [name |-> m, place |-> p] /\ r.old # Absent
                BY <1>4, <1>6, <1>9, <2>3, <3>3 DEF Row
            <4>2. Owes(r, p, m)'
                BY <1>4, <3>3, <4>1 DEF Owes, Moved, SameStorage
            <4>3. QED
                BY <4>2
        <3>4. QED
            BY <3>1, <3>2, <3>3
    <2>4. QED
        BY <1>17, <2>1, <2>2, <2>3, Kept
<1>18. UNCHANGED <<keychain, envFile, mishaps>> /\ doomed' = doomed \ {do.id}
    BY <1>1 DEF StoreRef
<1>19. Goes(r)
    BY <1>0, <1>4, <1>8, <1>12, <1>13, <1>16, <1>17, <1>18 DEF Goes, Commands, SecretsFields
<1>20. QED
    BY <1>0, <1>5, <1>14, <1>19, OneGoes DEF StepKeeps

(* A step that puts a value where the command's row, or no row, has its    *)
(* value.                                                                  *)
Fits(c, place, n, v) ==
    \A i \in Id : IsAt(i, place, n) => command[c].id = i /\ (v \in Given \/ i \in doomed)

LEMMA PutsKeeps ==
    ASSUME OneAtATime, SecretsIInv, NEW c \in Commander, ~Doing(c, "nothing"),
           NEW place \in Place, NEW n \in Name, NEW v \in Value,
           Puts(place, n, v), Fits(c, place, n, v),
           keychain' \in [Scope \X Name -> Value], envFile' \in File,
           refs' = refs, doomed' = doomed, mishaps' = mishaps,
           NEW r \in Commands, Becomes(c, r), CommandHolds(r)',
           v # Absent => Owes(r, place, n)',
           \A p \in Place, m \in Name :
                Owes(command[c], p, m) /\ Val(p, m)' # Absent => p = place /\ m = n
    PROVE  StepKeeps
<1>0. SecretsFields /\ NamesApart /\ NamesHaveValues
    BY DEF SecretsIInv
<1>1. NamesApart' /\ NamesHaveValues' /\ OthersKept
    BY <1>0, PutKeepsRows DEF Fits
<1>2. ASSUME mishaps = 0, NEW p \in Place, NEW m \in Name, Val(p, m)' # Absent
      PROVE  (\E i \in Id : refs'[i] = [name |-> m, place |-> p]) \/ Owes(r, p, m)'
    <2>1. CASE p = place /\ m = n
        <3>1. v # Absent
            BY <1>2, <2>1 DEF Puts
        <3>2. QED
            BY <2>1, <3>1
    <2>2. CASE ~(p = place /\ m = n)
        <3>1. Val(p, m) # Absent
            BY <1>2, <2>2 DEF Puts
        <3>2. QED
            BY <1>2, <2>2, <3>1, Kept
    <2>3. QED
        BY <2>1, <2>2
<1>3. Goes(r)
    BY <1>0, <1>1, <1>2 DEF Goes, SecretsFields
<1>4. QED
    BY <1>0, <1>1, <1>3, OneGoes DEF StepKeeps

(* A step that only changes what the command does.                         *)
LEMMA TurnsKeeps ==
    ASSUME OneAtATime, SecretsIInv, NEW c \in Commander,
           UNCHANGED <<refs, keychain, envFile>>, doomed \subseteq doomed', doomed' \subseteq Id,
           mishaps' \in Nat, mishaps' = 0 => mishaps = 0,
           NEW r \in Commands, Becomes(c, r), CommandHolds(r)',
           mishaps' = 0 => \A p \in Place, m \in Name :
                Owes(command[c], p, m) /\ Val(p, m) # Absent => Owes(r, p, m)'
    PROVE  StepKeeps
<1>0. SecretsFields /\ NamesApart /\ NamesHaveValues
    BY DEF SecretsIInv
<1>1. /\ NamesApart' /\ NamesHaveValues' /\ OthersKept
      /\ refs' \in [Id -> Row \cup {Absent}] /\ envFile' \in File
      /\ keychain' \in [Scope \X Name -> Value]
      /\ \A p \in Place, m \in Name : Val(p, m)' = Val(p, m)
    BY <1>0, Quiet
<1>2. ASSUME mishaps' = 0, NEW p \in Place, NEW m \in Name, Val(p, m)' # Absent
      PROVE  (\E i \in Id : refs'[i] = [name |-> m, place |-> p]) \/ Owes(r, p, m)'
    <2>1. mishaps = 0 /\ Val(p, m) # Absent
        BY <1>1, <1>2
    <2>2. QED
        BY <1>2, <2>1, Kept
<1>3. Goes(r)
    BY <1>1, <1>2 DEF Goes
<1>4. QED
    BY <1>0, <1>1, <1>3, OneGoes DEF StepKeeps

-----------------------------------------------------------------------------
(* One lemma per step.                                                     *)
LEMMA StoreValueKeeps ==
    ASSUME OneAtATime, SecretsIInv, NEW c \in Commander, StoreValue(c)
    PROVE  StepKeeps
<1>0. SecretsFields /\ NamesApart /\ NamesHaveValues /\ CommandHolds(command[c])
    BY DEF SecretsIInv
<1>1. PICK do : do = command[c]
    OBVIOUS
<1>2. do.does = "store" /\ do \in Storing /\ do.new \in Row /\ do.id \in Id /\ do.value \in Given
    BY <1>0, <1>1, Kinds DEF StoreValue, Doing, Storing
<1>3. do.old = refs[do.id] /\ MayTake(do.new.name, do.new.place, do.id)
    BY <1>0, <1>1, <1>2 DEF CommandHolds, Saving, SaveHolds
<1>4. do.new.name \in Name /\ do.new.place \in Place
    BY <1>2 DEF Row
<1>5. CASE do.new.place.backend = "keychain"
    <2>1. PICK r : r = [do EXCEPT !.does = "row"]
        OBVIOUS
    <2>2. r \in Storing /\ r.does = "row" /\ r.id = do.id /\ r.old = do.old /\ r.new = do.new /\ r.value = do.value
        BY <1>2, <2>1 DEF Storing
    <2>3. Becomes(c, r) /\ envFile' = envFile
        BY <1>1, <1>5, <2>1 DEF StoreValue, GoesOn, Becomes
    <2>4. keychain' = [keychain EXCEPT ![<<do.new.place.scope, do.new.name>>] = do.value]
        BY <1>1, <1>5 DEF StoreValue
    <2>5. keychain' \in [Scope \X Name -> Value] /\ Puts(do.new.place, do.new.name, do.value)
        BY <1>0, <1>2, <1>4, <1>5, <2>3, <2>4, PutInKeychain DEF Value
    <2>6. refs' = refs /\ mishaps' = mishaps /\ doomed' = doomed
        BY DEF StoreValue
    <2>7. Fits(c, do.new.place, do.new.name, do.value)
        BY <1>1, <1>2, <1>3 DEF Fits, IsAt, MayTake, NameTaken
    <2>8. ValueAt(do.new.place, do.new.name, keychain, envFile)' = do.value
        BY <1>4, <2>5 DEF Puts, Val
    <2>9. SaveHolds(r)'
        BY <1>3, <2>2, <2>6, <2>8 DEF SaveHolds, MayTake, NameTaken
    <2>10. CommandHolds(r)'
        BY <2>2, <2>9 DEF CommandHolds, Writes
    <2>11. Owes(r, do.new.place, do.new.name)'
        BY <1>2, <2>2 DEF Owes, Row
    <2>12. \A p \in Place, m \in Name : ~Owes(command[c], p, m)
        BY <1>1, <1>2 DEF Owes, Writes
    <2>13. r \in Commands /\ ~Doing(c, "nothing") /\ do.value \in Value /\ envFile' \in File
        BY <1>0, <1>1, <1>2, <2>2, <2>3 DEF Commands, Doing, Value, SecretsFields
    <2>14. QED
        BY <1>4, <2>3, <2>5, <2>6, <2>7, <2>10, <2>11, <2>12, <2>13, PutsKeeps
<1>6. CASE do.new.place.backend # "keychain"
    <2>1. PICK r : r = [does |-> "write", then |-> "row",
                        file |-> [envFile EXCEPT ![do.new.name] = do.value],
                        id |-> do.id, old |-> do.old, value |-> do.value, new |-> do.new]
        OBVIOUS
    <2>2. Becomes(c, r) /\ UNCHANGED <<keychain, envFile>>
        BY <1>1, <1>6, <2>1 DEF StoreValue, Becomes
    <2>3. refs' = refs /\ mishaps' = mishaps /\ doomed' = doomed
        BY DEF StoreValue
    <2>4. [envFile EXCEPT ![do.new.name] = do.value] \in File
        BY <1>0, <1>2 DEF SecretsFields, File, Value
    <2>5. r \in Filing /\ r.does = "write" /\ r.then = "row" /\ r.id = do.id /\ r.old = do.old
          /\ r.new = do.new /\ r.value = do.value /\ r.file = [envFile EXCEPT ![do.new.name] = do.value]
        BY <1>2, <2>1, <2>4 DEF Storing, Filing
    <2>6. do.new.place.backend = "env_file"
        BY <1>4, <1>6, Places
    <2>7. SaveHolds(r)'
        BY <1>3, <2>2, <2>3, <2>5, <2>6 DEF SaveHolds, MayTake, NameTaken
    <2>8. CommandHolds(r)'
        BY <2>5, <2>7 DEF CommandHolds, Writes
    <2>9. \A p \in Place, m \in Name : ~Owes(command[c], p, m)
        BY <1>1, <1>2 DEF Owes, Writes
    <2>10. QED
        BY <1>0, <2>2, <2>3, <2>5, <2>8, <2>9, TurnsKeeps DEF Commands, SecretsFields
<1>7. QED
    BY <1>5, <1>6

LEMMA WriteFileKeeps ==
    ASSUME OneAtATime, SecretsIInv, NEW c \in Commander, WriteFile(c)
    PROVE  StepKeeps
<1>0. SecretsFields /\ NamesApart /\ NamesHaveValues /\ CommandHolds(command[c])
    BY DEF SecretsIInv
<1>1. PICK do : do = command[c]
    OBVIOUS
<1>2. do.does = "write" /\ do \in Filing \cup Clearing /\ do.then \in {"row", "unlist", "done"}
    BY <1>0, <1>1, Kinds DEF WriteFile, Doing, Filing, Clearing
<1>3. refs' = refs /\ mishaps' = mishaps /\ doomed' = doomed /\ keychain' = keychain
      /\ envFile' = do.file /\ ~Doing(c, "nothing") /\ keychain' \in [Scope \X Name -> Value]
    BY <1>0, <1>1, <1>2 DEF WriteFile, Doing, SecretsFields
<1>4. InFile \in Place
    BY Places
<1>5. CASE do.then = "row"
    <2>1. PICK r : r = [do EXCEPT !.does = "row"]
        OBVIOUS
    <2>2. do \in Filing
        BY <1>2, <1>5 DEF Clearing
    <2>3. /\ r \in Filing /\ r.does = "row" /\ r.id = do.id /\ r.old = do.old /\ r.new = do.new
          /\ r.value = do.value /\ do.new \in Row /\ do.value \in Given /\ do.id \in Id
        BY <2>1, <2>2 DEF Filing
    <2>4. Becomes(c, r)
        BY <1>1, <1>5, <2>1 DEF WriteFile, GoesOn, Becomes
    <2>5. /\ do.old = refs[do.id] /\ MayTake(do.new.name, do.new.place, do.id)
          /\ do.new.place.backend = "env_file" /\ do.file = [envFile EXCEPT ![do.new.name] = do.value]
        BY <1>0, <1>1, <1>2, <1>5 DEF CommandHolds, Saving, Writes, SaveHolds
    <2>6. do.new.name \in Name /\ do.new.place = InFile
        BY <2>3, <2>5, Places DEF Row
    <2>7. envFile' \in File /\ Puts(InFile, do.new.name, do.value)
        BY <1>0, <1>3, <2>3, <2>5, <2>6, PutInFile DEF Value
    <2>8. Fits(c, InFile, do.new.name, do.value)
        BY <1>1, <2>3, <2>5, <2>6 DEF Fits, IsAt, MayTake, NameTaken
    <2>9. ValueAt(do.new.place, do.new.name, keychain, envFile)' = do.value
        BY <1>4, <2>6, <2>7 DEF Puts, Val
    <2>10. SaveHolds(r)'
        BY <1>3, <2>3, <2>5, <2>9 DEF SaveHolds, MayTake, NameTaken
    <2>11. CommandHolds(r)'
        BY <2>3, <2>10 DEF CommandHolds, Writes
    <2>12. Owes(r, InFile, do.new.name)'
        BY <2>3, <2>6 DEF Owes, Row
    <2>13. \A p \in Place, m \in Name : ~Owes(command[c], p, m)
        BY <1>1, <1>2, <1>5 DEF Owes, Writes
    <2>14. r \in Commands /\ do.value \in Value
        BY <2>3 DEF Commands, Value
    <2>15. QED
        BY <1>3, <1>4, <2>4, <2>6, <2>7, <2>8, <2>11, <2>12, <2>13, <2>14, PutsKeeps
<1>6. CASE do.then = "unlist"
    <2>1. PICK r : r = [do EXCEPT !.does = "unlist"]
        OBVIOUS
    <2>2. do \in Clearing
        BY <1>2, <1>6 DEF Filing
    <2>3. r \in Clearing /\ r.does = "unlist" /\ r.id = do.id /\ do.id \in Id
        BY <2>1, <2>2 DEF Clearing
    <2>4. Becomes(c, r)
        BY <1>1, <1>6, <2>1 DEF WriteFile, GoesOn, Becomes
    <2>5. do.id \in doomed /\ \E n \in Name : Clears(do, n) /\ IsAt(do.id, InFile, n)
        BY <1>0, <1>1, <1>2, <1>6 DEF CommandHolds, Writes
    <2>6. PICK n \in Name : Clears(do, n) /\ IsAt(do.id, InFile, n)
        BY <2>5
    <2>7. envFile' \in File /\ Puts(InFile, n, Absent)
        BY <1>0, <1>3, <2>6, PutInFile DEF Value, Clears
    <2>8. \A i \in Id : IsAt(i, InFile, n) => i = do.id
        BY <1>0, <2>3, <2>6 DEF IsAt, NamesApart, MayTake, NameTaken
    <2>9. Fits(c, InFile, n, Absent)
        BY <1>1, <2>5, <2>8 DEF Fits
    <2>10. refs[do.id] # Absent /\ ValueOf(do.id)' = Absent
        BY <1>3, <1>4, <2>6, <2>7 DEF IsAt, ValueOf, Puts, Val
    <2>11. CommandHolds(r)'
        BY <1>3, <2>3, <2>5, <2>10 DEF CommandHolds, Writes, Saving
    <2>12. \A p \in Place, m \in Name : ~Owes(command[c], p, m)
        BY <1>1, <1>2, <1>6 DEF Owes, Writes
    <2>13. r \in Commands /\ Absent \in Value
        BY <2>3 DEF Commands, Value
    <2>14. QED
        BY <1>3, <1>4, <2>4, <2>7, <2>9, <2>11, <2>12, <2>13, PutsKeeps
<1>7. CASE do.then = "done"
    <2>1. Becomes(c, Rest)
        BY <1>1, <1>7 DEF WriteFile, Stops, Becomes
    <2>2. \E n \in Name : Clears(do, n) /\ \A i \in Id : ~IsAt(i, InFile, n)
        BY <1>0, <1>1, <1>2, <1>7 DEF CommandHolds, Writes
    <2>3. PICK n \in Name : Clears(do, n) /\ \A i \in Id : ~IsAt(i, InFile, n)
        BY <2>2
    <2>4. envFile' \in File /\ Puts(InFile, n, Absent)
        BY <1>0, <1>3, <2>3, PutInFile DEF Value, Clears
    <2>5. Fits(c, InFile, n, Absent)
        BY <2>3 DEF Fits
    <2>6. CommandHolds(Rest)'
        BY DEF CommandHolds, Rest, Writes, Saving
    <2>7. \A p \in Place, m \in Name : Owes(command[c], p, m) => Val(p, m)' = Absent
        <3>1. SUFFICES ASSUME NEW p \in Place, NEW m \in Name, Owes(command[c], p, m)
                       PROVE  Val(p, m)' = Absent
            OBVIOUS
        <3>2. p = InFile /\ Clears(do, m)
            BY <1>1, <1>2, <3>1 DEF Owes
        <3>3. envFile'[m] = Absent
            BY <1>0, <1>3, <3>2 DEF Clears, SecretsFields, File
        <3>4. QED
            BY <3>2, <3>3 DEF Val, ValueAt, InFile
    <2>8. Rest \in Commands /\ Absent \in Value
        BY DEF Commands, Value
    <2>9. QED
        BY <1>3, <1>4, <2>1, <2>4, <2>5, <2>6, <2>7, <2>8, PutsKeeps
<1>8. QED
    BY <1>2, <1>5, <1>6, <1>7

LEMMA DropOldKeeps ==
    ASSUME OneAtATime, SecretsIInv, NEW c \in Commander, DropOld(c)
    PROVE  StepKeeps
<1>0. SecretsFields /\ NamesApart /\ NamesHaveValues /\ CommandHolds(command[c])
    BY DEF SecretsIInv
<1>1. PICK do : do = command[c]
    OBVIOUS
<1>2. do.does = "drop" /\ do \in Storing \cup Filing
    BY <1>0, <1>1, Kinds DEF DropOld, Doing
<1>3. do.id \in Id /\ do.old \in Row \cup {Absent} /\ OldIsFree(do)
    BY <1>0, <1>1, <1>2 DEF CommandHolds, Storing, Filing
<1>4. refs' = refs /\ mishaps' = mishaps /\ doomed' = doomed /\ envFile' = envFile
      /\ ~Doing(c, "nothing") /\ envFile' \in File /\ mishaps' \in Nat /\ doomed' \subseteq Id
    BY <1>0, <1>1, <1>2 DEF DropOld, Doing, SecretsFields
<1>5. CommandHolds(Rest)' /\ Rest \in Commands /\ Absent \in Value
    BY DEF CommandHolds, Rest, Writes, Saving, Commands, Value
<1>6. \A p \in Place, m \in Name : Owes(command[c], p, m) =>
          Moved(do) /\ do.old.name = m /\ do.old.place = p
    <2>1. \A p \in Place, m \in Name : Owes(command[c], p, m) =>
              Moved(do) /\ do.old = [name |-> m, place |-> p]
        BY <1>1, <1>2 DEF Owes, Writes
    <2>2. \A p \in Place, m \in Name : do.old = [name |-> m, place |-> p] =>
              do.old.name = m /\ do.old.place = p
        OBVIOUS
    <2>3. QED
        BY <2>1, <2>2
<1>7. CASE ~Moved(do)
    <2>1. Becomes(c, Rest) /\ keychain' = keychain
        BY <1>1, <1>7 DEF DropOld, Stops, Becomes
    <2>2. QED
        BY <1>4, <1>5, <1>6, <1>7, <2>1, TurnsKeeps
<1>8. CASE Moved(do)
    <2>1. /\ do.old \in Row /\ do.old.name \in Name /\ do.old.place \in Place
          /\ \A i \in Id : ~IsAt(i, do.old.place, do.old.name)
        BY <1>3, <1>8 DEF OldIsFree, Moved, Row
    <2>2. RemoveValue(c, do.old.place, do.old.name, "done")
        BY <1>1, <1>8 DEF DropOld
    <2>3. CASE do.old.place.backend = "keychain"
        <3>1. keychain' = [keychain EXCEPT ![<<do.old.place.scope, do.old.name>>] = Absent] /\ Becomes(c, Rest)
            BY <2>2, <2>3 DEF RemoveValue, Stops, Becomes
        <3>2. keychain' \in [Scope \X Name -> Value] /\ Puts(do.old.place, do.old.name, Absent)
            BY <1>0, <1>4, <1>5, <2>1, <2>3, <3>1, PutInKeychain
        <3>3. Fits(c, do.old.place, do.old.name, Absent)
            BY <2>1 DEF Fits
        <3>4. \A p \in Place, m \in Name :
                  Owes(command[c], p, m) => p = do.old.place /\ m = do.old.name
            BY <1>6
        <3>5. QED
            BY <1>4, <1>5, <2>1, <3>1, <3>2, <3>3, <3>4, PutsKeeps
    <2>4. CASE do.old.place.backend # "keychain"
        <3>1. PICK r : r = [does |-> "write", then |-> "done",
                            file |-> [envFile EXCEPT ![do.old.name] = Absent], id |-> do.id]
            OBVIOUS
        <3>2. Becomes(c, r) /\ keychain' = keychain
            BY <1>1, <2>2, <2>4, <3>1 DEF RemoveValue, Becomes
        <3>3. [envFile EXCEPT ![do.old.name] = Absent] \in File
            BY <1>0 DEF SecretsFields, File, Value
        <3>4. r \in Clearing /\ r.does = "write" /\ r.then = "done" /\ r.file = [envFile EXCEPT ![do.old.name] = Absent]
            BY <1>3, <3>1, <3>3 DEF Clearing
        <3>5. do.old.place = InFile
            BY <2>1, <2>4, Places
        <3>6. Clears(r, do.old.name)'
            BY <1>4, <2>1, <3>4 DEF Clears
        <3>7. \A i \in Id : ~IsAt(i, InFile, do.old.name)'
            BY <1>4, <2>1, <3>5 DEF IsAt
        <3>8. CommandHolds(r)'
            BY <2>1, <3>4, <3>6, <3>7 DEF CommandHolds, Writes, Saving
        <3>9. \A p \in Place, m \in Name : Owes(command[c], p, m) => Owes(r, p, m)'
            <4>1. SUFFICES ASSUME NEW p \in Place, NEW m \in Name, Owes(command[c], p, m)
                           PROVE  Owes(r, p, m)'
                OBVIOUS
            <4>2. p = InFile /\ m = do.old.name
                BY <1>6, <3>5, <4>1
            <4>3. QED
                BY <3>4, <3>6, <4>2 DEF Owes, Writes
        <3>10. r \in Commands
            BY <3>4 DEF Commands
        <3>11. QED
            BY <1>0, <1>4, <3>2, <3>8, <3>9, <3>10, TurnsKeeps
    <2>5. QED
        BY <2>3, <2>4
<1>9. QED
    BY <1>7, <1>8

LEMMA BeginDeleteKeeps ==
    ASSUME OneAtATime, SecretsIInv, NEW c \in Commander, BeginDelete(c)
    PROVE  StepKeeps
<1>0. SecretsFields
    BY DEF SecretsIInv
<1>1. PICK i \in Id : /\ refs[i] # Absent /\ doomed' = doomed \cup {i}
                      /\ command' = [command EXCEPT ![c] = [does |-> "erase", id |-> i, old |-> refs[i]]]
    BY DEF BeginDelete
<1>2. PICK r : r = [does |-> "erase", id |-> i, old |-> refs[i]]
    OBVIOUS
<1>3. r \in Erasing /\ r.does = "erase" /\ r.id = i /\ r.old = refs[i]
    BY <1>0, <1>1, <1>2 DEF SecretsFields, Erasing
<1>4. refs' = refs /\ keychain' = keychain /\ envFile' = envFile /\ mishaps' = mishaps /\ mishaps \in Nat
      /\ doomed' \subseteq Id
    BY <1>0, <1>1 DEF BeginDelete, SecretsFields
<1>5. CommandHolds(r)'
    BY <1>1, <1>3, <1>4 DEF CommandHolds, Writes, Saving
<1>6. Becomes(c, r) /\ r \in Commands
    BY <1>1, <1>2, <1>3 DEF Becomes, Commands
<1>7. \A p \in Place, m \in Name : ~Owes(command[c], p, m)
    BY DEF BeginDelete, Doing, Owes, Writes
<1>8. QED
    BY <1>1, <1>4, <1>5, <1>6, <1>7, TurnsKeeps

LEMMA EraseKeeps ==
    ASSUME OneAtATime, SecretsIInv, NEW c \in Commander, Erase(c)
    PROVE  StepKeeps
<1>0. SecretsFields /\ NamesApart /\ NamesHaveValues /\ CommandHolds(command[c])
    BY DEF SecretsIInv
<1>1. PICK do : do = command[c]
    OBVIOUS
<1>2. do.does = "erase" /\ do \in Erasing
    BY <1>0, <1>1, Kinds DEF Erase, Doing
<1>3. /\ do.id \in Id /\ do.old \in Row /\ do.old.name \in Name /\ do.old.place \in Place
      /\ refs[do.id] = do.old /\ do.id \in doomed /\ do.old # Absent
    BY <1>0, <1>1, <1>2, SecretsAssumption DEF CommandHolds, Erasing, Row
<1>4. refs' = refs /\ mishaps' = mishaps /\ doomed' = doomed /\ envFile' = envFile
      /\ ~Doing(c, "nothing") /\ envFile' \in File /\ mishaps' \in Nat /\ doomed' \subseteq Id
    BY <1>0, <1>1, <1>2 DEF Erase, Doing, SecretsFields
<1>5. \A p \in Place, m \in Name : ~Owes(command[c], p, m)
    BY <1>1, <1>2 DEF Owes, Writes
<1>6. RemoveValue(c, do.old.place, do.old.name, "unlist")
    BY <1>1 DEF Erase
<1>7. \A i \in Id : IsAt(i, do.old.place, do.old.name) => i = do.id
    BY <1>0, <1>3 DEF IsAt, NamesApart, MayTake, NameTaken
<1>8. CASE do.old.place.backend = "keychain"
    <2>1. PICK r : r = [do EXCEPT !.does = "unlist"]
        OBVIOUS
    <2>2. r \in Erasing /\ r.does = "unlist" /\ r.id = do.id
        BY <1>2, <2>1 DEF Erasing
    <2>3. keychain' = [keychain EXCEPT ![<<do.old.place.scope, do.old.name>>] = Absent] /\ Becomes(c, r)
        BY <1>1, <1>6, <1>8, <2>1 DEF RemoveValue, GoesOn, Becomes
    <2>4. Absent \in Value /\ r \in Commands
        BY <2>2 DEF Value, Commands
    <2>5. keychain' \in [Scope \X Name -> Value] /\ Puts(do.old.place, do.old.name, Absent)
        BY <1>0, <1>3, <1>4, <1>8, <2>3, <2>4, PutInKeychain
    <2>6. Fits(c, do.old.place, do.old.name, Absent)
        BY <1>1, <1>3, <1>7 DEF Fits
    <2>7. ValueAt(do.old.place, do.old.name, keychain, envFile)' = Absent
        BY <1>3, <2>5 DEF Puts, Val
    <2>8. ValueOf(do.id)' = Absent
        BY <1>3, <1>4, <2>7 DEF ValueOf
    <2>9. CommandHolds(r)'
        BY <1>3, <1>4, <2>2, <2>8 DEF CommandHolds, Writes, Saving
    <2>10. QED
        BY <1>3, <1>4, <1>5, <2>3, <2>4, <2>5, <2>6, <2>9, PutsKeeps
<1>9. CASE do.old.place.backend # "keychain"
    <2>1. PICK r : r = [does |-> "write", then |-> "unlist",
                        file |-> [envFile EXCEPT ![do.old.name] = Absent], id |-> do.id]
        OBVIOUS
    <2>2. Becomes(c, r) /\ keychain' = keychain
        BY <1>1, <1>6, <1>9, <2>1 DEF RemoveValue, Becomes
    <2>3. [envFile EXCEPT ![do.old.name] = Absent] \in File
        BY <1>0 DEF SecretsFields, File, Value
    <2>4. r \in Clearing /\ r.does = "write" /\ r.then = "unlist" /\ r.id = do.id
          /\ r.file = [envFile EXCEPT ![do.old.name] = Absent]
        BY <1>3, <2>1, <2>3 DEF Clearing
    <2>5. do.old.place = InFile
        BY <1>3, <1>9, Places
    <2>6. Clears(r, do.old.name)' /\ IsAt(do.id, InFile, do.old.name)'
        BY <1>3, <1>4, <2>4, <2>5 DEF Clears, IsAt
    <2>7. CommandHolds(r)'
        BY <1>3, <1>4, <2>4, <2>6 DEF CommandHolds, Writes, Saving
    <2>8. r \in Commands
        BY <2>4 DEF Commands
    <2>9. QED
        BY <1>0, <1>4, <1>5, <2>2, <2>7, <2>8, TurnsKeeps
<1>10. QED
    BY <1>8, <1>9

LEMMA DropRowKeeps ==
    ASSUME OneAtATime, SecretsIInv, NEW c \in Commander, DropRow(c)
    PROVE  StepKeeps
<1>0. SecretsFields /\ NamesApart /\ NamesHaveValues /\ CommandHolds(command[c])
    BY DEF SecretsIInv
<1>1. PICK k \in Id : k = command[c].id
    BY <1>0, Kinds DEF DropRow, Doing, Clearing, Erasing
<1>2. refs[k] # Absent /\ ValueOf(k) = Absent
    BY <1>0, <1>1 DEF DropRow, Doing, CommandHolds
<1>3. /\ refs' = [refs EXCEPT ![k] = Absent] /\ doomed' = doomed \ {k} /\ Becomes(c, Rest)
      /\ keychain' = keychain /\ envFile' = envFile /\ mishaps' = mishaps
    BY <1>1 DEF DropRow, Stops, Becomes
<1>4. /\ refs' \in [Id -> Row \cup {Absent}] /\ refs'[k] = Absent
      /\ \A i \in Id : i # k => refs'[i] = refs[i]
    BY <1>0, <1>3 DEF SecretsFields
<1>5. \A i \in Id : refs'[i] # Absent => i # k /\ refs[i] # Absent /\ ValueOf(i)' = ValueOf(i)
    BY <1>3, <1>4 DEF ValueOf, ValueAt
<1>6. NamesApart'
    BY <1>0, <1>4 DEF NamesApart, MayTake, NameTaken
<1>7. NamesHaveValues' /\ OthersKept
    BY <1>0, <1>3, <1>5 DEF NamesHaveValues, OthersKept, Changes
<1>8. ASSUME mishaps = 0, NEW p \in Place, NEW m \in Name, Val(p, m)' # Absent
      PROVE  \E i \in Id : refs'[i] = [name |-> m, place |-> p]
    <2>1. Val(p, m) # Absent
        BY <1>3, <1>8 DEF Val
    <2>2. ~Owes(command[c], p, m)
        BY DEF DropRow, Doing, Owes, Writes
    <2>3. PICK i \in Id : refs[i] = [name |-> m, place |-> p]
        BY <1>8, <2>1, <2>2, Kept
    <2>4. i # k
        BY <1>2, <2>1, <2>3 DEF ValueOf, Val
    <2>5. QED
        BY <1>4, <2>3, <2>4
<1>9. CommandHolds(Rest)' /\ Rest \in Commands
    BY DEF CommandHolds, Rest, Writes, Saving, Commands
<1>10. Goes(Rest)
    BY <1>0, <1>3, <1>4, <1>6, <1>7, <1>8, <1>9 DEF Goes, SecretsFields
<1>11. QED
    BY <1>0, <1>3, <1>7, <1>10, OneGoes DEF StepKeeps

LEMMA FailKeeps ==
    ASSUME OneAtATime, SecretsIInv, NEW c \in Commander, Fail(c)
    PROVE  StepKeeps
<1>0. SecretsFields
    BY DEF SecretsIInv
<1>1. CommandHolds(Rest)' /\ Rest \in Commands
    BY DEF CommandHolds, Rest, Writes, Saving, Commands
<1>2. Becomes(c, Rest) /\ mishaps' \in Nat /\ mishaps' # 0
    BY <1>0 DEF Fail, Stops, Becomes, SecretsFields
<1>3. UNCHANGED <<refs, keychain, envFile, doomed>> /\ doomed' \subseteq Id
    BY <1>0 DEF Fail, SecretsFields
<1>4. QED
    BY <1>1, <1>2, <1>3, TurnsKeeps

-----------------------------------------------------------------------------
LEMMA SecretsStart == SecretsInit => SecretsIInv
<1>1. SUFFICES ASSUME SecretsInit PROVE SecretsIInv
    OBVIOUS
<1>2. SecretsFields
    BY <1>1 DEF SecretsInit, SecretsFields, File, Value, Scope
<1>3. NamesApart /\ NamesHaveValues
    BY <1>1 DEF SecretsInit, NamesApart, NamesHaveValues
<1>4. \A p \in Place, m \in Name : ValueAt(p, m, keychain, envFile) = Absent
    <2>1. TAKE p \in Place, m \in Name
    <2>2. <<p.scope, m>> \in Scope \X Name
        BY Places
    <2>3. QED
        BY <1>1, <2>2 DEF SecretsInit, ValueAt, Scope
<1>5. StoredFor
    BY <1>4 DEF StoredFor
<1>6. \A c \in Commander : CommandHolds(command[c])
    BY <1>1 DEF SecretsInit, CommandHolds, Rest, Writes, Saving
<1>7. QED
    BY <1>2, <1>3, <1>5, <1>6 DEF SecretsIInv

LEMMA SecretsStep ==
    ASSUME OneAtATime, SecretsIInv, [SecretsNext]_secretVars PROVE StepKeeps
<1>0. SecretsFields
    BY DEF SecretsIInv
<1>1. CASE UNCHANGED secretVars
    <2>1. SecretsFields' /\ NamesApart' /\ NamesHaveValues'
        BY <1>1 DEF secretVars, SecretsIInv, SecretsFields, NamesApart, MayTake, NameTaken,
            NamesHaveValues, ValueOf
    <2>2. StoredFor'
        BY <1>1 DEF secretVars, SecretsIInv, StoredFor, Owes, Clears
    <2>3. \A c \in Commander : CommandHolds(command[c])'
        <3>1. TAKE c \in Commander
        <3>2. PICK do : do = command[c]
            OBVIOUS
        <3>3. CommandHolds(do)'
            BY <1>1, <3>2 DEF secretVars, SecretsIInv, CommandHolds, SaveHolds, OldIsFree, IsAt,
                Clears, MayTake, NameTaken, ValueOf
        <3>4. QED
            BY <1>1, <3>2, <3>3 DEF secretVars
    <2>4. SecretsIInv'
        BY <2>1, <2>2, <2>3 DEF SecretsIInv
    <2>5. OthersKept
        BY <1>1 DEF secretVars, OthersKept, Changes, ValueOf
    <2>6. QED
        BY <2>4, <2>5 DEF StepKeeps
<1>2. ASSUME NEW c \in Commander, BeginSave(c) PROVE StepKeeps
    <2>1. PICK i \in Id, n \in Name, place \in Place :
              \/ \E v \in Given : Saves(c, i, n, place, v)
              \/ refs[i] # Absent /\ Saves(c, i, n, place, ValueOf(i))
        BY <1>2 DEF BeginSave
    <2>2. \E v : Saves(c, i, n, place, v)
        BY <2>1
    <2>3. QED
        BY <1>2, <2>2, SavesKeeps DEF BeginSave
<1>3. ASSUME NEW c \in Commander, BeginImport(c) PROVE StepKeeps
    <2>1. PICK i \in Id, n \in Name, place \in Place, v \in Given : Saves(c, i, n, place, v)
        BY <1>3 DEF BeginImport
    <2>2. QED
        BY <1>3, <2>1, SavesKeeps DEF BeginImport
<1>4. ASSUME NEW c \in Commander, BeginExport(c) PROVE StepKeeps
    BY <1>4 DEF BeginExport, OneAtATime
<1>5. QED
    BY <1>1, <1>2, <1>3, <1>4, StoreValueKeeps, WriteFileKeeps, StoreRefKeeps, DropOldKeeps,
       BeginDeleteKeeps, EraseKeeps, DropRowKeeps, FailKeeps DEF SecretsNext

LEMMA NothingLeft ==
    ASSUME SecretsIInv PROVE NothingLeftStored
<1>1. SUFFICES ASSUME mishaps = 0, \A c \in Commander : Doing(c, "nothing")
               PROVE  /\ \A n \in Name : envFile[n] # Absent =>
                          \E i \in Id : refs[i] = [name |-> n, place |-> InFile]
                      /\ \A s \in Scope, n \in Name : keychain[<<s, n>>] # Absent =>
                          \E i \in Id : refs[i] = [name |-> n, place |-> [scope |-> s, backend |-> "keychain"]]
    BY DEF NothingLeftStored, InFile, Scope
<1>2. \A c \in Commander, p \in Place, n \in Name : ~Owes(command[c], p, n)
    BY <1>1 DEF Doing, Owes, Writes
<1>3. \A p \in Place, n \in Name : ValueAt(p, n, keychain, envFile) # Absent =>
          \E i \in Id : refs[i] = [name |-> n, place |-> p]
    BY <1>1, <1>2 DEF SecretsIInv, StoredFor
<1>4. ASSUME NEW n \in Name, envFile[n] # Absent
      PROVE  \E i \in Id : refs[i] = [name |-> n, place |-> InFile]
    <2>1. ValueAt(InFile, n, keychain, envFile) = envFile[n]
        BY DEF ValueAt, InFile
    <2>2. QED
        BY <1>3, <1>4, <2>1, Places
<1>5. ASSUME NEW s \in Scope, NEW n \in Name, keychain[<<s, n>>] # Absent
      PROVE  \E i \in Id : refs[i] = [name |-> n, place |-> [scope |-> s, backend |-> "keychain"]]
    <2>1. PICK p \in Place : p = [scope |-> s, backend |-> "keychain"]
        BY DEF Place, Scope
    <2>2. ValueAt(p, n, keychain, envFile) = keychain[<<s, n>>]
        BY <2>1 DEF ValueAt
    <2>3. QED
        BY <1>3, <1>5, <2>1, <2>2
<1>6. QED
    BY <1>4, <1>5

(* As long as the commands come one after the other and no template is     *)
(* exported: a name that is listed has a value, whatever failed on the     *)
(* way; nothing is left stored when nothing failed; and no command changes *)
(* what the agents get for another name.                                   *)
(* (upsert_project_secret, delete_project_secret)                          *)
THEOREM ValuesHold ==
    ASSUME OneAtATime PROVE SecretsSpec => ValuesKept
<1>1. SecretsIInv /\ [SecretsNext]_secretVars => SecretsIInv'
    BY SecretsStep DEF StepKeeps
<1>2. SecretsIInv => NamesHaveValues /\ NothingLeftStored
    BY NothingLeft DEF SecretsIInv
<1>3. SecretsIInv /\ [SecretsNext]_secretVars =>
        [\A i \in Id :
          refs[i] # Absent /\ refs'[i] # Absent /\ ValueOf(i)' # ValueOf(i)
              => \E c \in Commander : ~Doing(c, "nothing") /\ command[c].id = i]_secretVars
    BY SecretsStep DEF StepKeeps, OthersKept, Changes
<1>4. QED
    BY SecretsStart, <1>1, <1>2, <1>3, PTL DEF SecretsSpec, ValuesKept, OthersKeepTheirs
=============================================================================

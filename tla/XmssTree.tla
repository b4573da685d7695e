------------------------------ MODULE XmssTree ------------------------------
(***************************************************************************)
(* The XMSS tree of kkw/src/xmss.c (and of its copy in voleith/src/native):*)
(* a key pair keeps the top of the tree and one bottom subtree, built by   *)
(* OpenMP loops into one buffer that is used again for every subtree, and  *)
(* assembles authentication paths from both and from the fixed siblings    *)
(* that extend the tree to the H levels of the circuit.                    *)
(*                                                                         *)
(* Hashes are terms: a node is the tuple of what was hashed into it, so    *)
(* that two nodes are equal only if they were computed from the same       *)
(* children under the same tweak.  An iteration of a parallel loop is one  *)
(* step, iterations of one loop happen in any order, and a loop ends when  *)
(* all of its iterations have.                                             *)
(***************************************************************************)
EXTENDS Integers

CONSTANTS
    H,         \* XMSS_H, the levels that the circuit verifies
    Heights,   \* heights that keypair_new_split is called with
    Messages   \* messages to sign

ASSUME HeightsAssumption == H \in Nat /\ Heights \subseteq 1..H

VARIABLES
    height,    \* height of the real tree
    subH,      \* subtree_h, height of a bottom subtree
    top,       \* top[r][i]: levels of the tree above the subtrees
    bottom,    \* bottom[h][j]: levels of one subtree
    cached,    \* cached_subtree: the subtree that bottom holds, or NoSubtree
    root,      \* the public root, {} until it is computed
    stage,     \* "subtree" and "top" loops, or "ready" between calls
    target,    \* the subtree being built
    level,     \* the level of the running loop
    done,      \* iterations of the running loop that have ended
    request,   \* the call being served: {} for keypair_new, {<<leaf, msg>>}
    result     \* what the last keypair_sign returned: {} for 0, {signature}

treeVars == <<height, subH, top, bottom, cached, root, stage, target, level,
              done, request, result>>
loop == <<stage, target, level, done>>

NoSubtree == -1
Uninitialised == <<"malloc">>

topH == height - subH

\* (size_t)1 << n.
Pow2[n \in 0..H] == IF n = 0 THEN 1 ELSE 2 * Pow2[n - 1]

Slots(n) == 0..(Pow2[n] - 1)

-----------------------------------------------------------------------------
(* Hashes                                                                  *)

\* xmss_wots_gen_sk, xmss_wots_pk_from_sk and xmss_hash_public_key.
LeafHash(epoch) == <<"leaf", epoch>>

\* xmss_hash_tree_node.
TreeHash(l, r, lev, index) == <<"node", l, r, lev, index>>

\* xmss_derive_upper_siblings.
Upper(i) == <<"upper", i>>

\* xmss_climb_upper.
ClimbUpper(real) ==
    LET climb[i \in 0..(H - height)] ==
            IF i = 0 THEN real
            ELSE TreeHash(climb[i - 1], Upper(i - 1), height + i - 1, 0)
    IN climb[H - height]

\* The parent of a node of index idx and its sibling.
Parent(idx, nodeHash, sibling, lev) ==
    IF idx % 2 = 0 THEN TreeHash(nodeHash, sibling, lev, idx \div 2)
    ELSE TreeHash(sibling, nodeHash, lev, idx \div 2)

\* xmss_walk_auth_path.
WalkAuthPath(leafNode, leaf, path) ==
    LET walk[h \in 0..H] ==
            IF h = 0 THEN leafNode
            ELSE Parent(leaf \div Pow2[h - 1], walk[h - 1], path[h - 1], h - 1)
    IN walk[H]

\* xmss_verify: the WOTS part leads to the leaf's public key only for the
\* epoch and the message that it was made for.
Verify(msg, sig) ==
    LET leafNode == IF sig.wots = <<sig.leaf, msg>>
                    THEN LeafHash(sig.leaf)
                    ELSE <<"other leaf", sig.leaf, sig.wots, msg>>
    IN {WalkAuthPath(leafNode, sig.leaf, sig.path)} = root

-----------------------------------------------------------------------------
(* Reference: the Merkle tree of the whole height, level by level          *)

Merkle[h \in 0..H] ==
    [i \in Slots(H - h) |->
        IF h = 0 THEN LeafHash(i)
        ELSE TreeHash(Merkle[h - 1][2 * i], Merkle[h - 1][2 * i + 1], h - 1, i)]

-----------------------------------------------------------------------------
(* xmss_keypair_new_split                                                  *)

\* Both buffers are allocated, and the build of subtree 0 begins.
TreeInit ==
    /\ height \in Heights
    /\ subH \in 1..height
    /\ top = [r \in 0..topH |-> [i \in Slots(topH - r) |-> Uninitialised]]
    /\ bottom = [h \in 0..subH |-> [j \in Slots(subH - h) |-> Uninitialised]]
    /\ cached = NoSubtree
    /\ root = {}
    /\ stage = "subtree"
    /\ target = 0
    /\ level = 0
    /\ done = {}
    /\ request = {}
    /\ result = {}

\* Variant: the index in the tweak is that of the node in its subtree.
SubtreeNodeLocal(j) ==
    IF level = 0
    THEN LeafHash(target * Pow2[subH] + j)
    ELSE TreeHash(bottom[level - 1][2 * j], bottom[level - 1][2 * j + 1],
                  level - 1, j)

\* What iteration j of the loop of xmss_build_subtree computes.
SubtreeNode(j) ==
    IF level = 0
    THEN LeafHash(target * Pow2[subH] + j)
    ELSE TreeHash(bottom[level - 1][2 * j], bottom[level - 1][2 * j + 1],
                  level - 1, target * Pow2[subH - level] + j)

BuildSubtree(j) ==
    /\ stage = "subtree"
    /\ j \in Slots(subH - level) \ done
    /\ bottom' = [bottom EXCEPT ![level][j] = SubtreeNode(j)]
    /\ done' = done \cup {j}
    /\ UNCHANGED <<height, subH, top, cached, root, stage, target, level,
                   request, result>>

\* Variant: the loop over a level is left before all iterations are done.
NextSubtreeLevelEarly ==
    /\ stage = "subtree"
    /\ level < subH
    /\ level' = level + 1
    /\ done' = {}
    /\ UNCHANGED <<height, subH, top, bottom, cached, root, stage, target,
                   request, result>>

\* The loop over a level ends; the one over the next level begins.
NextSubtreeLevel ==
    /\ stage = "subtree"
    /\ done = Slots(subH - level)
    /\ level < subH
    /\ level' = level + 1
    /\ done' = {}
    /\ UNCHANGED <<height, subH, top, bottom, cached, root, stage, target,
                   request, result>>

SubtreeBuilt ==
    /\ stage = "subtree"
    /\ level = subH
    /\ done = Slots(0)

\* keypair_new copies the subtree's root and builds the next subtree.
NextSubtree ==
    /\ SubtreeBuilt
    /\ request = {}
    /\ target + 1 \in Slots(topH)
    /\ top' = [top EXCEPT ![0][target] = bottom[subH][0]]
    /\ target' = target + 1
    /\ level' = 0
    /\ done' = {}
    /\ UNCHANGED <<height, subH, bottom, cached, root, stage, request, result>>

\* The last subtree stays in the buffer; xmss_build_top begins.
LastSubtree ==
    /\ SubtreeBuilt
    /\ request = {}
    /\ target + 1 \notin Slots(topH)
    /\ top' = [top EXCEPT ![0][target] = bottom[subH][0]]
    /\ cached' = Pow2[topH] - 1
    /\ stage' = "top"
    /\ level' = 1
    /\ done' = {}
    /\ UNCHANGED <<height, subH, bottom, root, target, request, result>>

\* Iteration i of the loop of xmss_build_top.
BuildTop(i) ==
    /\ stage = "top"
    /\ level <= topH
    /\ i \in Slots(topH - level) \ done
    /\ top' = [top EXCEPT ![level][i] =
                  TreeHash(top[level - 1][2 * i], top[level - 1][2 * i + 1],
                           subH + level - 1, i)]
    /\ done' = done \cup {i}
    /\ UNCHANGED <<height, subH, bottom, cached, root, stage, target, level,
                   request, result>>

NextTopLevel ==
    /\ stage = "top"
    /\ level <= topH
    /\ done = Slots(topH - level)
    /\ level' = level + 1
    /\ done' = {}
    /\ UNCHANGED <<height, subH, top, bottom, cached, root, stage, target,
                   request, result>>

\* keypair_new derives the upper siblings, computes the root and returns.
NewReturn ==
    /\ stage = "top"
    /\ level > topH
    /\ root' = {ClimbUpper(top[topH][0])}
    /\ stage' = "ready"
    /\ UNCHANGED <<height, subH, top, bottom, cached, target, level, done,
                   request, result>>

-----------------------------------------------------------------------------
(* xmss_keypair_sign                                                       *)

\* idx ^ 1
Sibling(idx) == IF idx % 2 = 0 THEN idx + 1 ELSE idx - 1

\* The path is assembled from the buffer, the top and the upper siblings.
AuthPath(leaf) ==
    LET s == leaf \div Pow2[subH]
    IN [h \in 0..(H - 1) |->
           CASE h < subH ->
                    bottom[h][Sibling(leaf \div Pow2[h]) - s * Pow2[subH - h]]
             [] h >= subH /\ h < height ->
                    top[h - subH][Sibling(leaf \div Pow2[h])]
             [] OTHER -> Upper(h - height)]

Signature(leaf, msg) ==
    [leaf |-> leaf, wots |-> <<leaf, msg>>, path |-> AuthPath(leaf)]

\* The leaf is out of range, or grind_nonce could draw no random bytes.
SignRefused ==
    /\ stage = "ready"
    /\ result' = {}
    /\ UNCHANGED <<height, subH, top, bottom, cached, root, loop, request>>

\* Variant: any subtree that is in the buffer will do.
SignCachedAny(leaf, msg) ==
    /\ stage = "ready"
    /\ leaf \in Slots(height)
    /\ result' = {Signature(leaf, msg)}
    /\ UNCHANGED <<height, subH, top, bottom, cached, root, loop, request>>

\* The leaf's subtree is the one in the buffer.
SignCached(leaf, msg) ==
    /\ stage = "ready"
    /\ leaf \in Slots(height)
    /\ leaf \div Pow2[subH] = cached
    /\ result' = {Signature(leaf, msg)}
    /\ UNCHANGED <<height, subH, top, bottom, cached, root, loop, request>>

\* It is not: xmss_build_subtree overwrites the buffer first.
SignRebuild(leaf, msg) ==
    /\ stage = "ready"
    /\ leaf \in Slots(height)
    /\ leaf \div Pow2[subH] # cached
    /\ stage' = "subtree"
    /\ target' = leaf \div Pow2[subH]
    /\ level' = 0
    /\ done' = {}
    /\ request' = {<<leaf, msg>>}
    /\ result' = {}
    /\ UNCHANGED <<height, subH, top, bottom, cached, root>>

SignReturn ==
    /\ SubtreeBuilt
    /\ \E q \in request : result' = {Signature(q[1], q[2])}
    /\ cached' = target
    /\ stage' = "ready"
    /\ request' = {}
    /\ UNCHANGED <<height, subH, top, bottom, root, target, level, done>>

-----------------------------------------------------------------------------

New ==
    \/ \E j \in Slots(H) : BuildSubtree(j)
    \/ NextSubtreeLevel
    \/ NextSubtree
    \/ LastSubtree
    \/ \E i \in Slots(H) : BuildTop(i)
    \/ NextTopLevel
    \/ NewReturn

\* Leaves may be asked for in any order.
Sign ==
    \/ SignRefused
    \/ \E leaf \in Slots(H), msg \in Messages :
           SignCached(leaf, msg) \/ SignRebuild(leaf, msg)
    \/ SignReturn

TreeNext == New \/ Sign

TreeSpec == TreeInit /\ [][TreeNext]_treeVars

-----------------------------------------------------------------------------
(* Properties                                                              *)

\* Whenever no call is in progress the buffer holds, level by level, the
\* nodes of the subtree that cached_subtree says it holds: none is left over
\* from the subtree that was there before or missing from a parallel loop.
CacheCoherent ==
    stage = "ready" =>
        \A h \in 0..subH : \A j \in Slots(subH - h) :
            bottom[h][j] = Merkle[h][cached * Pow2[subH - h] + j]

\* The public root is that of the one Merkle tree over all leaves, extended
\* by the upper siblings, however the tree was split into subtrees: keys
\* stay valid when XMSS_SUBTREE_H changes.
RootIndependentOfSplit ==
    stage = "ready" => root = {ClimbUpper(Merkle[height][0])}

\* Every signature that xmss_keypair_sign returns is accepted by xmss_verify,
\* whatever leaves were signed before and in whichever order, at the edges
\* of subtrees and of the tree too.
SignaturesVerify ==
    \A sig \in result : Verify(sig.wots[2], sig) /\ sig.leaf < Pow2[height]

=============================================================================

---------------------------- MODULE RedisContext ----------------------------
(***************************************************************************)
(* What Redis keeps of one session (src/redis.ts): the list of its latest      *)
(* segments and the cooldown of its suggestions. A push is three commands and a *)
(* clear two, each awaited, by a socket or by HTTP; calls overlap, a command    *)
(* may fail, and the process may die between two.                             *)
(*                                                                         *)
(* Left out: the ping before each command, what a segment says, and the        *)
(* cooldowns of single cues, which are keys as the suggestions' is. A segment is *)
(* the number of its push.                                                   *)
(***************************************************************************)
EXTENDS Naturals, FiniteSets, SequencesExt

CONSTANTS
    RedisCalls,     \* calls that run at the same time
    Window,         \* CONTEXT_WINDOW_SEGMENTS
    MaxPushes       \* segments pushed (bound)

ASSUME RedisAssumption ==
    IsFiniteSet(RedisCalls) /\ Window \in Nat \ {0} /\ MaxPushes \in Nat

VARIABLES
    context,        \* the list; there is no key when it is empty
    expires,        \* the list has a time to live
    cooldown,       \* the suggestion's key is set
    redisCalls,     \* what each call does
    pushedSince,    \* history: segments pushed since the list was last removed
    abandoned,      \* history: pushes of the list that there is that were cut short
    cleared         \* history: "no", "begun", "done" or "overlapped" by a push

redisVars == <<context, expires, cooldown, redisCalls, pushedSince, abandoned, cleared>>

IdleRedis == [pc |-> "none"]

RedisInit ==
    /\ context = <<>> /\ expires = FALSE /\ cooldown = FALSE
    /\ redisCalls = [c \in RedisCalls |-> IdleRedis]
    /\ pushedSince = <<>> /\ abandoned = 0 /\ cleared = "no"

RedisTypeOK ==
    /\ context \in Seq(1..MaxPushes) /\ pushedSince \in Seq(1..MaxPushes)
    /\ {expires, cooldown} \subseteq BOOLEAN
    /\ \A c \in RedisCalls : redisCalls[c].pc \in {"none", "push", "trim", "expire", "del"}
    /\ abandoned \in Nat
    /\ cleared \in {"no", "begun", "done", "overlapped"}
    /\ expires => context # <<>>

-----------------------------------------------------------------------------
(* A definition marked "mutant" is a faulty variant of the one after it; no    *)
(* formula uses it.                                                          *)

RedisAt(c, pc) == redisCalls[c].pc = pc
RedisGo(c, call) == redisCalls' = [redisCalls EXCEPT ![c] = call]
RedisBegin(c, call) == RedisAt(c, "none") /\ RedisGo(c, call)

Pushing == {c \in RedisCalls : redisCalls[c].pc \in {"push", "trim", "expire"}}

RemoveContext ==
    /\ context' = <<>> /\ expires' = FALSE /\ pushedSince' = <<>> /\ abandoned' = 0

\* pushSegment: nothing is pushed for a session that was cleared.
StartPush(c) ==
    /\ cleared \in {"no", "begun"}
    /\ RedisBegin(c, [pc |-> "push"])
    /\ cleared' = IF cleared = "begun" THEN "overlapped" ELSE cleared
    /\ UNCHANGED <<context, expires, cooldown, pushedSince, abandoned>>

PushContext(c) ==
    /\ RedisAt(c, "push")
    /\ \E n \in 1..MaxPushes :
         /\ \A m \in 1..MaxPushes : m < n <=> m \in ToSet(pushedSince)
         /\ context' = Append(context, n) /\ pushedSince' = Append(pushedSince, n)
    /\ RedisGo(c, [pc |-> "trim"])
    /\ UNCHANGED <<expires, cooldown, abandoned, cleared>>

TrimToOldest(c) ==                                               \* mutant
    /\ RedisAt(c, "trim")
    /\ context' = SubSeq(context, 1, Min({Len(context), Window}))
    /\ RedisGo(c, [pc |-> "expire"])
    /\ UNCHANGED <<expires, cooldown, pushedSince, abandoned, cleared>>

\* lTrim of a key that is not there does nothing.
Trim(c) ==
    /\ RedisAt(c, "trim")
    /\ context' = SubSeq(context, Max({1, Len(context) - Window + 1}), Len(context))
    /\ RedisGo(c, [pc |-> "expire"])
    /\ UNCHANGED <<expires, cooldown, pushedSince, abandoned, cleared>>

Expire(c) ==
    /\ RedisAt(c, "expire")
    /\ expires' = (context # <<>>)
    /\ RedisGo(c, IdleRedis)
    /\ UNCHANGED <<context, cooldown, pushedSince, abandoned, cleared>>

\* clearSession: the keys there are, and then their removal.
ListKeys(c) ==
    /\ RedisBegin(c, [pc |-> "del",
         keys |-> {k \in {"context", "cooldown"} :
                     IF k = "context" THEN context # <<>> ELSE cooldown}])
    /\ cleared = "no"
    /\ cleared' = IF Pushing = {} THEN "begun" ELSE "overlapped"
    /\ UNCHANGED <<context, expires, cooldown, pushedSince, abandoned>>

RemoveKeys(c) ==
    /\ RedisAt(c, "del")
    /\ IF "context" \in redisCalls[c].keys THEN RemoveContext
       ELSE UNCHANGED <<context, expires, pushedSince, abandoned>>
    /\ IF "cooldown" \in redisCalls[c].keys THEN cooldown' = FALSE
       ELSE UNCHANGED cooldown
    /\ cleared' = IF cleared = "begun" THEN "done" ELSE cleared
    /\ RedisGo(c, IdleRedis)

\* tryAcquireSuggestionSlot: one SET NX PX.
AcquireSlot ==
    /\ ~cooldown /\ cooldown' = TRUE
    /\ UNCHANGED <<context, expires, redisCalls, pushedSince, abandoned, cleared>>

CooldownEnds ==
    /\ cooldown /\ cooldown' = FALSE
    /\ UNCHANGED <<context, expires, redisCalls, pushedSince, abandoned, cleared>>

\* Six hours without a push.
ContextExpires ==
    /\ expires /\ Pushing = {}
    /\ RemoveContext
    /\ UNCHANGED <<cooldown, redisCalls, cleared>>

\* A command fails, or the process dies, once (bound).
RedisFails(c) ==
    /\ ~RedisAt(c, "none") /\ abandoned = 0
    /\ abandoned' = IF redisCalls[c].pc \in {"trim", "expire"} /\ context # <<>> THEN 1 ELSE 0
    /\ cleared' = IF RedisAt(c, "del") THEN "no" ELSE cleared
    /\ RedisGo(c, IdleRedis)
    /\ UNCHANGED <<context, expires, cooldown, pushedSince>>

RedisNext ==
    \/ \E c \in RedisCalls :
         \/ StartPush(c) \/ PushContext(c) \/ Trim(c) \/ Expire(c)
         \/ ListKeys(c) \/ RemoveKeys(c) \/ RedisFails(c)
    \/ AcquireSlot \/ CooldownEnds \/ ContextExpires

RedisSpec == RedisInit /\ [][RedisNext]_redisVars

-----------------------------------------------------------------------------
(* Properties *)

\* The list always holds the latest segments in their order, no more of them than
\* the window and the pushes under way or cut short; only such a push leaves it
\* without an expiry; and nothing is left of a session once it is cleared, unless
\* a push overlapped the clear (pushSegment, clearSession).
ContextIsRecent ==
    /\ IsSuffix(context, pushedSince)
    /\ Len(context) <= Window + Cardinality(Pushing) + abandoned
    /\ context # <<>> /\ ~expires => Pushing # {} \/ abandoned > 0
    /\ cleared = "done" => context = <<>>
=============================================================================

---------------------------- MODULE FixedObjectPool ----------------------------
(***************************************************************************)
(* core::FixedObjectPool<T, N> of engine/collection: N slots and a stack   *)
(* of free indices.  The objects themselves (m_data) are not modelled.     *)
(***************************************************************************)
EXTENDS Naturals, FiniteSets

CONSTANT N                        \* the capacity, a template argument

ASSUME NAssumption == N \in Nat \ {0}

VARIABLES
  m_free_count,
  m_free_indices,                 \* indices 0 .. N - 1, as in the code
  m_used,
  result                          \* what the last call of alloc returned

poolVars == <<m_free_count, m_free_indices, m_used, result>>

Id == 0 .. N - 1
Invalid == N                      \* stands for static_cast<size_t>(-1)

PoolTypeOK ==
  /\ m_free_count \in 0 .. N
  /\ m_free_indices \in [Id -> Id \cup {Invalid}]
  /\ m_used \in [Id -> BOOLEAN]
  /\ result \in Id \cup {Invalid}

used == {i \in Id : m_used[i]}

size == N - m_free_count

\* Mutant: the loop starts at 1.
ClearedFromOne ==
  /\ m_free_count' = N
  /\ m_free_indices' = [i \in Id |-> (N - 1) - i]
  /\ m_used' = [i \in Id |-> i = 0 /\ m_used[i]]

Cleared ==
  /\ m_free_count' = N
  /\ m_free_indices' = [i \in Id |-> (N - 1) - i]
  /\ m_used' = [i \in Id |-> FALSE]

PoolInit ==
  /\ m_free_count = N
  /\ m_free_indices = [i \in Id |-> (N - 1) - i]
  /\ m_used = [i \in Id |-> FALSE]
  /\ result = Invalid

alloc ==
  /\ m_free_count > 0
  /\ LET top == m_free_count - 1
         id  == m_free_indices[top]
     IN /\ m_free_count' = top
        /\ result' = id
        /\ m_used' = [m_used EXCEPT ![id] = TRUE]
        /\ m_free_indices' = [m_free_indices EXCEPT ![top] = Invalid]

allocFails ==
  /\ m_free_count = 0
  /\ result' = Invalid
  /\ UNCHANGED <<m_free_count, m_free_indices, m_used>>

\* Mutant: the slot stays marked.
freeStaysUsed(id) ==
  /\ id \in Id /\ m_used[id]
  /\ m_free_indices' = [m_free_indices EXCEPT ![m_free_count] = id]
  /\ m_free_count' = m_free_count + 1
  /\ UNCHANGED <<m_used, result>>

\* free() checks its argument: an id out of range, or one that is not in use
\* (freed twice), is ignored.
free(id) ==
  /\ id \in Id /\ m_used[id]
  /\ m_used' = [m_used EXCEPT ![id] = FALSE]
  /\ m_free_indices' = [m_free_indices EXCEPT ![m_free_count] = id]
  /\ m_free_count' = m_free_count + 1
  /\ UNCHANGED result

freeIgnored(id) ==
  /\ ~ (id \in Id /\ m_used[id])
  /\ UNCHANGED poolVars

clear == Cleared /\ UNCHANGED result

PoolNext ==
  \/ alloc
  \/ allocFails
  \/ \E id \in Id \cup {N} : free(id) \/ freeIgnored(id)
  \/ clear

PoolSpec == PoolInit /\ [][PoolNext]_poolVars

------------------------------------------------------------------------------
\* The free stack holds every unused slot exactly once and nothing else, so
\* no slot is ever handed out twice, none is lost, and a push never runs past
\* the end of m_free_indices (FixedObjectPool.hpp, alloc and free).
FreeStackInv ==
  /\ \A i \in 0 .. m_free_count - 1 :
       m_free_indices[i] \in Id /\ ~ m_used[m_free_indices[i]]
  /\ \A i, j \in 0 .. m_free_count - 1 :
       m_free_indices[i] = m_free_indices[j] => i = j
  /\ \A id \in Id : m_used[id] \/ \E i \in 0 .. m_free_count - 1 : m_free_indices[i] = id

\* size(), which GameObjectPool reports as the number of objects, is the
\* number of slots in use (FixedObjectPool.hpp, size).
SizeInv == size = Cardinality(used)

Slots == INSTANCE SlotAllocator WITH Slot <- Id, used <- used

\* Every call of the pool is a call of the abstract allocator.
ImplementsSlotAllocator == Slots!Spec

==============================================================================

----------------------------- MODULE ParticlePool -----------------------------
(***************************************************************************)
(* A pool of particles (ParticlePoolImpl): an array whose first m_iAlive   *)
(* entries live, updated in one sweep that fills the gap of a particle     *)
(* that has expired with the last one.  Where particles are and how they   *)
(* look is left out.  Times are whole ticks; the emission is counted in    *)
(* fractions of a particle, Rate of them to one.                           *)
(***************************************************************************)
EXTENDS Integers, Sequences, SequencesExt

CONSTANTS
  MaxCount,     \* LPARTICLE_MAXCNT
  Rate,         \* how many units of emission make a particle
  Emissions,    \* values of nEmission, in units per tick
  Lives,        \* what the random life of a particle can be
  Lifetimes,    \* values of fLifetime; a negative one is without end
  Deltas,       \* what scripts pass to Update
  ClockBound    \* how long a pool is followed

ASSUME ParticleAssumption ==
  /\ MaxCount \in Nat /\ Rate \in Nat \ {0} /\ Emissions \subseteq Nat
  /\ Lives \subseteq Nat \ {0} /\ Lifetimes \subseteq Int
  /\ Deltas \subseteq Nat /\ ClockBound \in Nat

VARIABLES
  m_ParticlePool,      \* the first m_iAlive particles
  alive,               \* m_iStatus is Alive
  m_fAge, m_fEmissionResidue, nEmission, fLifetime,
  clock, expected,          \* history: the ticks so far; the particles that should live
  ordered, made          \* history: units of emission, particles made of them

particleVars == <<m_ParticlePool, alive, m_fAge, m_fEmissionResidue, nEmission,
                  fLifetime, clock, expected, ordered, made>>

KeepClock == UNCHANGED <<clock, expected, ordered, made>>

------------------------------------------------------------------------------
\* The gap of an expired particle is filled with the last one.
WithLastAt(s, i) == IF i < Len(s) THEN [Front(s) EXCEPT ![i] = Last(s)] ELSE Front(s)

\* Mutant: the index goes on after a removal, too.
RoundOn(w, delta) ==
  IF w.i > Len(w.s) THEN w
  ELSE LET p == [w.s[w.i] EXCEPT !.age = @ + delta] IN
       IF p.age >= p.terminal THEN [s |-> WithLastAt(w.s, w.i), i |-> w.i + 1]
       ELSE [s |-> [w.s EXCEPT ![w.i] = p], i |-> w.i + 1]

\* The loop of the sweep goes round once, at index i of the array s.  An expired
\* particle is replaced, and the index stays where it is.
Round(w, delta) ==
  IF w.i > Len(w.s) THEN w
  ELSE LET p == [w.s[w.i] EXCEPT !.age = @ + delta] IN
       IF p.age >= p.terminal THEN [w EXCEPT !.s = WithLastAt(w.s, w.i)]
       ELSE [s |-> [w.s EXCEPT ![w.i] = p], i |-> w.i + 1]

\* Each round removes a particle or passes one, so there are as many as particles.
Aged(s, delta) ==
  LET after[k \in 0 .. Len(s)] ==
        IF k = 0 THEN [s |-> s, i |-> 1] ELSE Round(after[k - 1], delta)
  IN  after[Len(s)].s

\* The new particles, numbered as they are made; a full pool makes no more.
Created(count, lives) ==
  [k \in 1 .. count |-> [n |-> made + k, age |-> 0, terminal |-> lives[k]]]

\* Update, from the given age of the pool (the status is looked at first).
Updated(age, delta) ==
  LET awake == alive /\ ~ (age + delta >= fLifetime /\ fLifetime >= 0)
      old   == Aged(m_ParticlePool, delta)
      need  == nEmission * delta + m_fEmissionResidue
      count == IF awake THEN need \div Rate ELSE 0
      room  == IF count <= MaxCount - Len(old) THEN count ELSE MaxCount - Len(old)
  IN  /\ clock + delta <= ClockBound
      /\ alive' = awake
      /\ m_fAge' = IF alive THEN age + delta ELSE age
      /\ m_fEmissionResidue' = IF awake THEN need % Rate ELSE m_fEmissionResidue
      /\ clock' = clock + delta
      /\ ordered' = IF awake THEN ordered + nEmission * delta ELSE ordered
      /\ made' = made + count
      /\ \E lives \in [1 .. room -> Lives] :
           /\ m_ParticlePool' = old \o Created(room, lives)
           /\ expected' = {d \in expected : clock + delta - d.born < d.life}
                     \cup {[n |-> made + k, born |-> clock + delta, life |-> lives[k]] :
                             k \in 1 .. room}
      /\ UNCHANGED <<nEmission, fLifetime>>

Update(delta) == Updated(m_fAge, delta)

\* An object or a script that gives the pool its place stops and starts it, so
\* that no particle is made on the way there; that also begins its life anew.
UpdateAt(delta) == Updated(IF alive THEN 0 ELSE m_fAge, delta)

SetActive(v) ==
  /\ alive' = v /\ m_fAge' = IF v THEN 0 ELSE m_fAge
  /\ UNCHANGED <<m_ParticlePool, m_fEmissionResidue, nEmission, fLifetime>> /\ KeepClock

SetEmission(e) ==
  /\ nEmission' = e
  /\ UNCHANGED <<m_ParticlePool, alive, m_fAge, m_fEmissionResidue, fLifetime>> /\ KeepClock

setLifetime(t) ==
  /\ fLifetime' = t
  /\ UNCHANGED <<m_ParticlePool, alive, m_fAge, m_fEmissionResidue, nEmission>> /\ KeepClock

------------------------------------------------------------------------------
\* CreateInstance copies what the resource says.
ParticleInit ==
  /\ m_ParticlePool = << >> /\ alive = TRUE /\ m_fAge = 0 /\ m_fEmissionResidue = 0
  /\ nEmission \in Emissions /\ fLifetime \in Lifetimes
  /\ clock = 0 /\ expected = {} /\ ordered = 0 /\ made = 0

ParticleNext ==
  \/ \E delta \in Deltas : Update(delta)
  \/ UpdateAt(1)
  \/ \E v \in BOOLEAN : SetActive(v)
  \/ \E e \in Emissions : SetEmission(e)
  \/ \E t \in Lifetimes : setLifetime(t)

ParticleSpec == ParticleInit /\ [][ParticleNext]_particleVars

------------------------------------------------------------------------------
ParticleTypeOK ==
  /\ Len(m_ParticlePool) <= MaxCount /\ alive \in BOOLEAN
  /\ m_fAge \in Nat /\ m_fEmissionResidue \in 0 .. Rate - 1

\* Whatever expires in one sweep, at whichever places: every particle whose life
\* is not over is there once, as old as the time since it was made, and none
\* whose life is over (Update's swap with the last and its step back).
EachAgedOnce ==
  /\ expected = {[n |-> p.n, born |-> clock - p.age, life |-> p.terminal] :
               p \in Range(m_ParticlePool)}
  /\ \A i, j \in DOMAIN m_ParticlePool :
       m_ParticlePool[i].n = m_ParticlePool[j].n => i = j

\* No fraction of a particle is lost over updates of any length, while the pool
\* sleeps, or when the emission changes (m_fEmissionResidue).
EmissionExact == made * Rate + m_fEmissionResidue = ordered

ParticleInv == ParticleTypeOK /\ EachAgedOnce /\ EmissionExact
==============================================================================

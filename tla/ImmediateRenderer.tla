------------------------- MODULE ImmediateRenderer -------------------------
(***************************************************************************)
(* What the 2D renderer promises to scripts: every call takes effect at    *)
(* once.  A primitive is painted on the target on top of the stack with    *)
(* the settings of the moment it is asked for, after everything that was   *)
(* asked for before it.                                                    *)
(***************************************************************************)
EXTENDS Pictures

VARIABLES now,      \* the settings
          targets,  \* the stack of render targets
          sampling, \* sampler of each texture
          picture   \* everything painted

immediateVars == <<now, targets, sampling, picture>>

Paint(entry) == Len(picture) < PictureBound /\ picture' = Append(picture, entry)

ImmediateInit ==
    /\ now \in [camera : Cameras, viewport : Viewports, blend : Blends,
                alpha : {AlphaOf[None]}, texture : {None}]
    /\ targets = <<>>
    /\ sampling \in [Textures -> Samplers]
    /\ picture = <<>>

Setting ==
    /\ \/ \E c \in Cameras : now' = [now EXCEPT !.camera = c]
       \/ \E v \in Viewports : now' = [now EXCEPT !.viewport = v]
       \/ \E b \in Blends : now' = [now EXCEPT !.blend = b]
       \/ \E t \in Textures : now' = [now EXCEPT !.texture = t, !.alpha = AlphaOf[t]]
    /\ UNCHANGED <<targets, sampling, picture>>

Sampling ==
    /\ \E t \in Textures, s \in Samplers : sampling' = [sampling EXCEPT ![t] = s]
    /\ UNCHANGED <<now, targets, picture>>

Drawing ==
    /\ \/ \E p \in Prims :
             Paint(Look(p, now, IF now.texture = None THEN None ELSE sampling[now.texture],
                        Top(targets)))
       \/ Paint(Other(Wipe, Top(targets)))
    /\ UNCHANGED <<now, targets, sampling>>

\* The end of a scene forgets the texture, and so do an effect and a model
Forgetting ==
    /\ now' = [now EXCEPT !.texture = None]
    /\ \/ UNCHANGED picture
       \/ Paint(Look(Effect, EffectSettings, None, Top(targets)))
       \/ Paint(Other(Model, Top(targets)))
    /\ UNCHANGED <<targets, sampling>>

Retargeting ==
    /\ \/ \E t \in Targets : targets' = Append(targets, t)
       \/ targets # <<>> /\ targets' = SubSeq(targets, 1, Len(targets) - 1)
       \/ targets' = <<>>
    /\ UNCHANGED <<now, sampling, picture>>

ImmediateNext == Setting \/ Sampling \/ Drawing \/ Forgetting \/ Retargeting

ImmediateSpec == ImmediateInit /\ [][ImmediateNext]_immediateVars
=============================================================================

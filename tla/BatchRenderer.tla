--------------------------- MODULE BatchRenderer ---------------------------
(***************************************************************************)
(* The 2D renderer as it is: primitives are copied to a dynamic buffer and *)
(* drawn later, in one call, with the state the device has then.  Settings *)
(* are cached: a call that would change nothing returns early, one that    *)
(* changes something first draws what is pending.  Post effects and models *)
(* use the device directly and clear its state.                            *)
(***************************************************************************)
EXTENDS Pictures, SequencesExt

CONSTANTS Capacity,     \* room in the buffers
          Disturbances  \* what scripts do to the bound texture inside a scene

\* addRaw and addRequest refuse what does not fit into the buffers.
ASSUME BatchAssumption == Capacity \in Nat \ {0} /\ Prims \subseteq 1..Capacity

VARIABLES rendering, \* m_bRenderStarted
          scope,     \* _batch_scope
          set,       \* _camera_state_set, _state_set and _state_texture
          stack,     \* m_stRenderTargetStack
          sampler,   \* sampler of each texture
          prim,      \* PrimitiveBatchRenderer
          dev,       \* state of the device context
          painted    \* what the device has drawn

rendererVars == <<rendering, scope, set, stack, sampler, prim, dev, painted>>

Cleared == [camera |-> None, viewport |-> None, blend |-> None, alpha |-> None,
            texture |-> None, sampler |-> None, target |-> None]

----------------------------------------------------------------------------
(* PrimitiveBatchRenderer: from "begin" to "current" is copied, not drawn; *)
(* "pending" lists the primitives that lie there.                          *)

Room(p) == IF p = Effect THEN 1 ELSE p
Drawn(p) == p.begin..p.current - 1

\* A new buffer is handed out, the device keeps the old one until it is done
Cycled(p) == [p EXCEPT !.begin = 0, !.current = 0, !.busy = {}, !.pending = <<>>]
drawOnly(p) == [p EXCEPT !.begin = p.current, !.busy = @ \cup Drawn(p), !.pending = <<>>]

\* Changed form: what is dropped is written over
discardRewinds(p) == [p EXCEPT !.begin = 0, !.current = 0, !.pending = <<>>]

discard(p) == [p EXCEPT !.begin = p.current, !.pending = <<>>]

primBegin(p) ==
    [(IF p.cycle \/ p.current >= Capacity THEN Cycled(p) ELSE p)
        EXCEPT !.open = TRUE, !.cycle = FALSE]
primEnd(p) == [drawOnly(p) EXCEPT !.open = FALSE]

Full(p, n) == p.current + n >= Capacity

\* Copies a primitive; the positions must not be ones the device still reads
Copied(p, x) ==
    LET at == p.current..p.current + Room(x) - 1
    IN  [p EXCEPT !.pending = Append(@, x), !.current = @ + Room(x),
                  !.clobbered = @ \/ at \cap p.busy # {}]

----------------------------------------------------------------------------
(* Drawing with the state of the device.                                   *)

Paints(p, d) ==
    [i \in DOMAIN p.pending |-> Look(p.pending[i], d, d.sampler, d.target)]

Picture == painted \o Paints(prim, dev)
MayPaint == Len(Picture) < PictureBound

\* Renderer::consume: draws what is pending, before anything else changes
consumed == IF prim.begin = prim.current THEN prim ELSE drawOnly(prim)
consume == prim' = consumed /\ painted' = Picture
consumeInScope == IF scope THEN consume ELSE UNCHANGED <<prim, painted>>

\* State a scene starts with.  No texture leaves what was bound before.
Bound(d) ==
    LET t == set.texture
        alpha == IF t = None THEN set.alpha ELSE AlphaOf[t]
    IN  [d EXCEPT !.camera = set.camera, !.viewport = set.viewport,
                  !.blend = set.blend, !.alpha = alpha,
                  !.texture = IF t = None THEN @ ELSE t,
                  !.sampler = IF t = None THEN @ ELSE sampler[t]]

----------------------------------------------------------------------------

RendererInit ==
    /\ rendering = FALSE /\ scope = FALSE /\ stack = <<>> /\ painted = <<>>
    /\ set \in [camera : Cameras, viewport : Viewports, blend : Blends,
                alpha : {AlphaOf[None]}, texture : {None}]
    /\ sampler \in [Textures -> Samplers]
    /\ dev = Cleared
    /\ prim = [open |-> FALSE, cycle |-> FALSE, begin |-> 0, current |-> 0,
               pending |-> <<>>, busy |-> {}, clobbered |-> FALSE]

BeginRenderTargetStack ==
    /\ ~rendering /\ rendering' = TRUE
    /\ stack' = <<>> /\ dev' = [dev EXCEPT !.target = Canvas]
    /\ UNCHANGED <<scope, set, sampler, prim, painted>>

\* Scripts end their scenes.  The frame is presented, which clears the device.
EndRenderTargetStack ==
    /\ rendering /\ ~scope /\ rendering' = FALSE
    /\ stack' = <<>> /\ dev' = Cleared
    /\ UNCHANGED <<scope, set, sampler, prim, painted>>

beginBatch ==
    /\ rendering /\ ~scope /\ scope' = TRUE
    /\ prim' = primBegin(prim) /\ dev' = Bound(dev)
    /\ set' = [set EXCEPT !.alpha = IF set.texture = None THEN @ ELSE AlphaOf[set.texture]]
    /\ UNCHANGED <<rendering, stack, sampler, painted>>

endBatch ==
    /\ scope /\ scope' = FALSE
    /\ prim' = primEnd(prim) /\ painted' = Picture
    /\ set' = [set EXCEPT !.texture = None]
    /\ UNCHANGED <<rendering, stack, sampler, dev>>

----------------------------------------------------------------------------
(* Settings.                                                               *)

setCamera(c) ==
    /\ set.camera # c /\ consumeInScope
    /\ set' = [set EXCEPT !.camera = c] /\ dev' = [dev EXCEPT !.camera = c]
    /\ UNCHANGED <<rendering, scope, stack, sampler>>

setViewport(v) ==
    /\ set.viewport # v /\ consumeInScope
    /\ set' = [set EXCEPT !.viewport = v] /\ dev' = [dev EXCEPT !.viewport = v]
    /\ UNCHANGED <<rendering, scope, stack, sampler>>

\* Changed form: the pipeline is exchanged under what is pending
setBlendStateAtOnce(b) ==
    /\ scope /\ set.blend # b
    /\ set' = [set EXCEPT !.blend = b]
    /\ dev' = [dev EXCEPT !.blend = b, !.alpha = set.alpha]
    /\ UNCHANGED <<rendering, scope, stack, sampler, prim, painted>>

setBlendState(b) ==
    /\ scope /\ set.blend # b /\ consume
    /\ set' = [set EXCEPT !.blend = b]
    /\ dev' = [dev EXCEPT !.blend = b, !.alpha = set.alpha]
    /\ UNCHANGED <<rendering, scope, stack, sampler>>

setTexture(t) ==
    /\ Top(stack) # t
    /\ scope /\ ~(set.texture = t /\ set.alpha = AlphaOf[t]) /\ consume
    /\ set' = [set EXCEPT !.texture = t, !.alpha = AlphaOf[t]]
    /\ dev' = [dev EXCEPT !.texture = t, !.sampler = sampler[t], !.alpha = AlphaOf[t]]
    /\ UNCHANGED <<rendering, scope, stack, sampler>>

\* Only the texture object changes: what is bound stays bound
SetTextureSamplerState(t, s) ==
    /\ "sampler" \in Disturbances \/ set.texture # t
    /\ sampler' = [sampler EXCEPT ![t] = s]
    /\ UNCHANGED <<rendering, scope, set, stack, prim, dev, painted>>

----------------------------------------------------------------------------
(* Drawing.                                                                *)

\* A full buffer is drawn and a new one handed out
Draw(p) ==
    /\ scope /\ MayPaint /\ (set.texture # None \/ set.blend = "one")
    /\ IF Full(prim, p)
       THEN prim' = Copied(Cycled(drawOnly(prim)), p) /\ painted' = Picture
       ELSE prim' = Copied(prim, p) /\ UNCHANGED painted
    /\ UNCHANGED <<rendering, scope, set, stack, sampler, dev>>

clearRenderTarget ==
    /\ rendering /\ MayPaint
    /\ prim' = (IF scope THEN consumed ELSE prim)
    /\ painted' = Append(Picture, Other(Wipe, dev.target))
    /\ UNCHANGED <<rendering, scope, set, stack, sampler, dev>>

drawPostEffect ==
    /\ scope /\ MayPaint
    /\ LET target == dev.target
           state == [Cleared EXCEPT !.camera = Foreign, !.viewport = Foreign,
                                    !.blend = "one", !.alpha = Foreign,
                                    !.texture = Foreign, !.target = target]
           opened == discard(primBegin(primEnd(prim)))
           quad == IF Full(opened, 1) THEN Copied(Cycled(opened), Effect)
                                      ELSE Copied(opened, Effect)
       IN  /\ painted' = Picture \o Paints(quad, state)
           /\ prim' = primBegin(primEnd(quad))
           /\ set' = [set EXCEPT !.texture = None]
           /\ dev' = [[Cleared EXCEPT !.target = target] EXCEPT
                         !.camera = set.camera, !.viewport = set.viewport,
                         !.blend = set.blend, !.alpha = set.alpha]
    /\ UNCHANGED <<rendering, scope, stack, sampler>>

\* The model leaves its own pipeline, texture and sampler on the device
drawModel ==
    /\ scope /\ MayPaint
    /\ painted' = Append(Picture, Other(Model, dev.target))
    /\ prim' = primBegin(primEnd(prim))
    /\ set' = [set EXCEPT !.texture = None]
    /\ dev' = [dev EXCEPT !.camera = set.camera, !.viewport = set.viewport,
                          !.blend = set.blend, !.alpha = set.alpha,
                          !.texture = Foreign, !.sampler = Foreign]
    /\ UNCHANGED <<rendering, scope, stack, sampler>>

----------------------------------------------------------------------------
(* Render targets.                                                         *)

\* A texture that becomes a target is taken off the inputs by the device
Targeted(t) ==
    [dev EXCEPT !.target = t, !.viewport = set.viewport,
                !.texture = IF @ = t THEN None ELSE @]

PushRenderTarget(t) ==
    /\ scope /\ Len(stack) < 2 /\ consume
    /\ "target" \in Disturbances \/ set.texture # t
    /\ stack' = Append(stack, t) /\ dev' = Targeted(t)
    /\ UNCHANGED <<rendering, scope, set, sampler>>

PopRenderTarget ==
    /\ scope /\ stack # <<>> /\ consume
    /\ stack' = SubSeq(stack, 1, Len(stack) - 1) /\ dev' = Targeted(Top(stack'))
    /\ "target" \in Disturbances \/ set.texture # Top(stack')
    /\ UNCHANGED <<rendering, scope, set, sampler>>

----------------------------------------------------------------------------

\* The device is replaced: what is pending is dropped, a new one starts empty
ChangeDevice ==
    /\ ~rendering
    /\ prim' = [Cycled(prim) EXCEPT !.begin = prim.current, !.current = prim.current,
                                    !.cycle = TRUE]
    /\ dev' = Cleared
    /\ UNCHANGED <<rendering, scope, set, stack, sampler, painted>>

RendererNext ==
    \/ BeginRenderTargetStack \/ EndRenderTargetStack \/ beginBatch \/ endBatch
    \/ \E c \in Cameras : setCamera(c)
    \/ \E v \in Viewports : setViewport(v)
    \/ \E b \in Blends : setBlendState(b)
    \/ \E t \in Textures : setTexture(t)
    \/ \E t \in Textures, s \in Samplers : SetTextureSamplerState(t, s)
    \/ \E p \in Prims : Draw(p)
    \/ clearRenderTarget \/ drawPostEffect \/ drawModel
    \/ \E t \in Targets : PushRenderTarget(t)
    \/ PopRenderTarget \/ ChangeDevice

RendererSpec == RendererInit /\ [][RendererNext]_rendererVars

----------------------------------------------------------------------------

RendererTypeOK ==
    /\ rendering \in BOOLEAN /\ scope \in BOOLEAN
    /\ prim.begin \in 0..prim.current /\ prim.current \in 0..Capacity
    /\ prim.open = scope
    /\ dev.target \in Targets \cup {Canvas, None} /\ stack \in BoundedSeq(Targets, 2)

\* A buffer that was not handed out anew is written only where the device was
\* not told to read: positions are never reused (map with NO_OVERWRITE)
NoOverwrite == ~prim.clobbered

\* The batches and the buffer they are collected in, at every moment.
RendererInv == RendererTypeOK /\ NoOverwrite

\* Batching is invisible: the picture that is painted, with what is pending
\* painted as the device stands, is the one of a renderer without batches
Immediate == INSTANCE ImmediateRenderer WITH
    now <- set, targets <- stack, sampling <- sampler, picture <- Picture

BatchingInvisible == Immediate!ImmediateSpec
=============================================================================

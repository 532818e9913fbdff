------------------------------ MODULE MCDevices ------------------------------
(***************************************************************************)
(* What the engine builds on the graphics device and the decoders: the     *)
(* swap chain, the batching renderer, the resources of the device, the     *)
(* pools scripts load into, the loops of music, the video decoder, the     *)
(* lasers with the queue of their nodes, and the keyboard, checked in one  *)
(* run: a behaviour chooses a part and follows it.                         *)
(***************************************************************************)
EXTENDS SwapChain, BatchRenderer, GraphicsResources, MusicStream, VideoDecoder,
        ResourcePool, CircularQueue, BentLaser, Keyboard

VARIABLE part

deviceVars == <<part, chainVars, rendererVars, resourceVars, musicVars, videoVars,
                resVars, queueState, laserVars, keyVars>>

AlphaDef == [t \in {"none", "A", "B"} |-> IF t = "B" THEN "premul" ELSE "normal"]

\* Times before, inside, at the end of and behind a file of 9 ticks, and loop
\* ranges that are off, inside, too long and outside.
VideoTimesDef == {-3, 0, 2, 3, 4, 5, 8, 9, 12}
LoopRangesDef == {<<0, 0>>, <<7, 4>>, <<14, 7>>, <<20, 3>>}

\* One name for a texture and the sprite cut from it, one for particles.
SlotDef == {[kind |-> "texture", name |-> "a"], [kind |-> "sprite", name |-> "a"],
            [kind |-> "particle", name |-> "b"]}

\* Indices of a laser's nodes from before the newest to beyond the capacity.
IndicesDef == -1 .. MaxNodes + 1

Some(S) == CHOOSE x \in S : TRUE

\* Every part has a state; a part that is not followed has one initial state.
DevicesInit ==
  /\ part \in {"swap chain", "renderer", "resources", "music", "video", "pools",
              "queue", "laser", "keyboard"}
  /\ SwapChainInit
  /\ part # "swap chain" =>
       sc.canvas_size = Some(CanvasSizes) /\ sc.client = Some(WindowSizes)
       /\ sc.model = Some(Models) /\ ~ failing
  /\ RendererInit
  /\ part # "renderer" => set.camera = Some(Cameras) /\ set.blend = Some(Blends)
  /\ ResourcesInit /\ (part # "resources" => canvas = Some(ScreenSizes))
  /\ MusicInit /\ (part # "music" => range_asked = <<0, Total>>)
  /\ VideoInit /\ ResInit /\ LaserInit /\ KeyboardInit
  /\ QueueInit /\ (part # "queue" => m_data = [c \in Cell |-> Some(Value)])

Keeps(p, vars) == IF part = p THEN TRUE ELSE UNCHANGED vars

Follows(p) ==
  /\ part = p /\ UNCHANGED part
  /\ Keeps("swap chain", chainVars) /\ Keeps("renderer", rendererVars)
  /\ Keeps("resources", resourceVars)
  /\ Keeps("music", musicVars) /\ Keeps("video", videoVars)
  /\ Keeps("pools", resVars) /\ Keeps("queue", queueState) /\ Keeps("laser", laserVars)
  /\ Keeps("keyboard", keyVars)

DevicesNext ==
  \/ Follows("swap chain") /\ SwapChainNext
  \/ Follows("renderer") /\ RendererNext
  \/ Follows("resources") /\ ResourcesNext
  \/ Follows("music") /\ MusicNext
  \/ Follows("video") /\ VideoNext
  \/ Follows("pools") /\ ResNext
  \/ Follows("queue") /\ QueueNext
  \/ Follows("laser") /\ LaserNext
  \/ Follows("keyboard") /\ KeyboardNext

DevicesSpec == DevicesInit /\ [][DevicesNext]_deviceVars
=============================================================================

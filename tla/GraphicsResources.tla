--------------------------- MODULE GraphicsResources ---------------------------
(***************************************************************************)
(* The graphics device, its listeners and the resources that live on it.   *)
(* A resource is a wrapper whose native parts (texture, view, ...) belong  *)
(* to one Direct3D device; when the device is replaced the wrapper drops   *)
(* them and makes them anew.  Listeners are told one after the other in    *)
(* the order they registered; the swap chain is one of them, and it        *)
(* resizes the auto-sized render target from inside its own handler.       *)
(***************************************************************************)
EXTENDS ListenerLists, Functions

CONSTANTS
  ScreenSizes,     \* canvas sizes
  CreationFails,   \* whether calls that create native objects may fail
  ResourceBound    \* bounds how many resources are alive at a time

ASSUME ScreenAssumption ==
  ScreenSizes # {} /\ CreationFails \in BOOLEAN /\ ResourceBound \in Nat

\* One resource of each kind.  "target" and "depth" are the render target and
\* the depth buffer of one auto-sized ResourceTextureImpl; the texture inside
\* the render target registers no listener of its own.
Kinds == {"texture", "buffer", "pipeline", "target", "depth"}
Swap  == "swap chain"

\* The native parts of a kind, in the order they are created.
PartsOf(k) ==
  CASE k = "texture"  -> <<"texture", "view">>
    [] k = "buffer"   -> <<"buffer">>
    [] k = "pipeline" -> <<"layout", "shaders", "states">>
    [] k = "target"   -> <<"texture", "view", "rtv">>
    [] k = "depth"    -> <<"texture", "view">>

VARIABLES
  d3d11_device,          \* "none", "ready", or "mute": there, but nobody was told
  m_event_listeners,
  told,                  \* dispatchEvent: <<event, how many were told>>
  m_initialized,         \* the resources that are alive
  native,                \* native[k][part]: "none", "current" or "stale", that is
                         \* of another device or of a texture that was replaced
  size_of,               \* m_size of target and depth
  m_graphics_pipeline_cache,
  canvas,                \* canvas size of the swap chain
  failed                 \* history: creation failed since the device was replaced

resourceVars == <<d3d11_device, m_event_listeners, told, m_initialized, native,
                  size_of, m_graphics_pipeline_cache, canvas, failed>>

PartSet(k) == Range(PartsOf(k))
Nothing(k) == [p \in PartSet(k) |-> "none"]
Complete(k) == \A p \in PartSet(k) : native[k][p] = "current"
Quiet == told = <<"none", 0>>

ResourcesTypeOK ==
  /\ d3d11_device \in {"none", "ready", "mute"}
  /\ m_event_listeners \in Seq(Kinds \cup {Swap})
  /\ told[1] \in {"none", "create", "destroy"} /\ told[2] \in 0 .. Len(m_event_listeners)
  /\ m_initialized \in SUBSET Kinds
  /\ \A k \in Kinds : native[k] \in [PartSet(k) -> {"none", "current", "stale"}]
  /\ size_of \in [{"target", "depth"} -> ScreenSizes]
  /\ m_graphics_pipeline_cache \subseteq {"pipeline"}
  /\ canvas \in ScreenSizes /\ failed \in BOOLEAN

ResourcesInit ==
  /\ d3d11_device = "ready" /\ m_event_listeners = <<Swap>> /\ told = <<"none", 0>>
  /\ m_initialized = {} /\ native = [k \in Kinds |-> Nothing(k)]
  /\ m_graphics_pipeline_cache = {} /\ failed = FALSE
  /\ canvas \in ScreenSizes /\ size_of = [k \in {"target", "depth"} |-> canvas]

----------------------------------------------------------------------------
(* createResource: part after part; com_ptr::put() drops the old one before *)
(* the call, and the first call that fails ends it.  Views of a texture     *)
(* that is replaced stay until their own turn comes.                        *)

HowMany(k) == IF CreationFails THEN 0 .. Len(PartsOf(k)) ELSE {Len(PartsOf(k))}

\* The native parts of k after the first n calls succeeded
Made(k, before, n) ==
  [p \in PartSet(k) |->
     LET i == CHOOSE i \in DOMAIN PartsOf(k) : PartsOf(k)[i] = p IN
     CASE i <= n     -> "current"
       [] i = n + 1  -> "none"
       [] OTHER      -> IF before[p] = "current" /\ k # "pipeline"
                        THEN "stale" ELSE before[p]]

createResource(k, before) ==
  IF d3d11_device = "none" THEN {before} ELSE {Made(k, before, n) : n \in HowMany(k)}
Whole(parts) == \A p \in DOMAIN parts : parts[p] = "current"

\* GraphicsDevice::addEventListener: to the end, once.
Registered(k) == Append(Erased(m_event_listeners, {k}), k)

\* initialize(): what fails is deleted and never registered.
initialize(k) ==
  /\ Quiet /\ k \notin m_initialized /\ k \in {"texture", "buffer", "pipeline"}
  /\ Cardinality(m_initialized) < ResourceBound
  /\ \E parts \in createResource(k, Nothing(k)) :
       /\ Whole(parts)
       /\ native' = [native EXCEPT ![k] = parts]
  /\ m_initialized' = m_initialized \cup {k}
  /\ m_event_listeners' = Registered(k)
  /\ m_graphics_pipeline_cache' =
       m_graphics_pipeline_cache \cup (IF k = "pipeline" THEN {k} ELSE {})
  /\ UNCHANGED <<d3d11_device, told, size_of, canvas, failed>>

\* createGraphicsPipeline finds the pipeline in the cache: same object.
createGraphicsPipelineCached ==
  /\ Quiet /\ "pipeline" \in m_graphics_pipeline_cache
  /\ UNCHANGED resourceVars

\* The auto-sized texture: target, then depth buffer, or neither.
createAutoSizeTarget ==
  /\ Quiet /\ d3d11_device # "none" /\ m_initialized \cap {"target", "depth"} = {}
  /\ Cardinality(m_initialized) + 2 <= ResourceBound
  /\ native' = [native EXCEPT !["target"] = [p \in PartSet("target") |-> "current"],
                              !["depth"] = [p \in PartSet("depth") |-> "current"]]
  /\ m_initialized' = m_initialized \cup {"target", "depth"}
  /\ m_event_listeners' = Append(Append(m_event_listeners, "target"), "depth")
  /\ size_of' = [k \in {"target", "depth"} |-> canvas]
  /\ UNCHANGED <<d3d11_device, told, m_graphics_pipeline_cache, canvas, failed>>

\* Destructors: off the list, a pipeline off the cache too.
destroy(K) ==
  /\ Quiet /\ K \subseteq m_initialized
  /\ K = {"target", "depth"} \/ \E k \in {"texture", "buffer", "pipeline"} : K = {k}
  /\ m_initialized' = m_initialized \ K
  /\ m_event_listeners' = Erased(m_event_listeners, K)
  /\ native' = [k \in Kinds |-> IF k \in K THEN Nothing(k) ELSE native[k]]
  /\ m_graphics_pipeline_cache' = m_graphics_pipeline_cache \ K
  /\ UNCHANGED <<d3d11_device, told, size_of, canvas, failed>>

----------------------------------------------------------------------------
(* ResizeAutoSizeRenderTarget: the target first, and the depth buffer only  *)
(* if the target succeeded.  setSize drops every part before it creates.    *)

AutoSizeResized(s) ==
  \E t \in createResource("target", Nothing("target")) :
    IF Whole(t)
    THEN \E d \in createResource("depth", Nothing("depth")) :
           /\ native' = [native EXCEPT !["target"] = t, !["depth"] = d]
           /\ failed' = (failed \/ ~ Whole(d))
           /\ size_of' = [k \in {"target", "depth"} |-> s]
    ELSE /\ native' = [native EXCEPT !["target"] = t] /\ failed' = TRUE
         /\ size_of' = [size_of EXCEPT !["target"] = s]

ResizeAutoSizeRenderTarget(s) ==
  IF "target" \in m_initialized THEN AutoSizeResized(s)
  ELSE UNCHANGED <<native, size_of, failed>>

\* SwapChain::setCanvasSize; without a device it fails before the event.
changeCanvasSize(s) ==
  /\ Quiet /\ d3d11_device = "ready"
  /\ canvas' = s /\ ResizeAutoSizeRenderTarget(s)
  /\ UNCHANGED <<d3d11_device, m_event_listeners, told, m_initialized,
                 m_graphics_pipeline_cache>>

----------------------------------------------------------------------------
(* doDestroyAndCreate (recreate, handleDeviceLost), told listener by listener *)

dispatchEventDestroy ==
  /\ Quiet /\ told' = <<"destroy", 0>>
  /\ UNCHANGED <<d3d11_device, m_event_listeners, m_initialized, native, size_of,
                 m_graphics_pipeline_cache, canvas, failed>>

Next_ == m_event_listeners[told[2] + 1]

Emptied(k) == Nothing(k)

tellOfDestruction ==
  /\ told[1] = "destroy" /\ told[2] < Len(m_event_listeners)
  /\ told' = <<"destroy", told[2] + 1>>
  /\ native' = IF Next_ = Swap THEN native
               ELSE [native EXCEPT ![Next_] = Emptied(Next_)]
  /\ UNCHANGED <<d3d11_device, m_event_listeners, m_initialized, size_of,
                 m_graphics_pipeline_cache, canvas, failed>>

\* What is left belongs to a device that is gone.  createDXGI or createD3D11
\* fails: no device; createD2D1 fails: a device nobody is told of.
replaceDevice ==
  /\ told = <<"destroy", Len(m_event_listeners)>>
  /\ native' = [k \in Kinds |-> [p \in PartSet(k) |->
                  IF native[k][p] = "none" THEN "none" ELSE "stale"]]
  /\ \/ d3d11_device' = "ready" /\ told' = <<"create", 0>> /\ failed' = FALSE
     \/ /\ CreationFails /\ d3d11_device' \in {"none", "mute"}
        /\ told' = <<"none", 0>> /\ failed' = TRUE
  /\ UNCHANGED <<m_event_listeners, m_initialized, size_of,
                 m_graphics_pipeline_cache, canvas>>

\* Mutant: a resource that failed once is not created again.
createOnce ==
  /\ told[1] = "create" /\ told[2] < Len(m_event_listeners)
  /\ told' = <<"create", told[2] + 1>>
  /\ IF Next_ = Swap THEN ResizeAutoSizeRenderTarget(canvas)
     ELSE UNCHANGED <<native, size_of, failed>>
  /\ UNCHANGED <<d3d11_device, m_event_listeners, m_initialized,
                 m_graphics_pipeline_cache, canvas>>

tellOfCreation ==
  /\ told[1] = "create" /\ told[2] < Len(m_event_listeners)
  /\ told' = <<"create", told[2] + 1>>
  /\ IF Next_ = Swap THEN ResizeAutoSizeRenderTarget(canvas)
     ELSE /\ \E parts \in createResource(Next_, native[Next_]) :
               native' = [native EXCEPT ![Next_] = parts] /\ failed' = (failed \/ ~ Whole(parts))
          /\ UNCHANGED size_of
  /\ UNCHANGED <<d3d11_device, m_event_listeners, m_initialized,
                 m_graphics_pipeline_cache, canvas>>

dispatchEnd ==
  /\ told = <<"create", Len(m_event_listeners)>> /\ told' = <<"none", 0>>
  /\ UNCHANGED <<d3d11_device, m_event_listeners, m_initialized, native, size_of,
                 m_graphics_pipeline_cache, canvas, failed>>

ResourcesNext ==
  \/ \E k \in Kinds : initialize(k)
  \/ createGraphicsPipelineCached \/ createAutoSizeTarget
  \/ \E K \in {{k} : k \in Kinds} \cup {{"target", "depth"}} : destroy(K)
  \/ \E s \in ScreenSizes : changeCanvasSize(s)
  \/ dispatchEventDestroy \/ tellOfDestruction \/ replaceDevice
  \/ tellOfCreation \/ dispatchEnd

ResourcesSpec == ResourcesInit /\ [][ResourcesNext]_resourceVars

----------------------------------------------------------------------------
\* The device tells exactly the resources that are alive, each once and the
\* swap chain first: no resource that was deleted is called, none is forgotten
\* (addEventListener, removeEventListener and the destructors).
DeviceListenersInv ==
  /\ Range(m_event_listeners) = m_initialized \cup {Swap}
  /\ Cardinality(Range(m_event_listeners)) = Len(m_event_listeners)

NoStale(K) == \A k \in K : \A p \in PartSet(k) : native[k][p] # "stale"

\* When nobody is in the middle of being told, no resource holds a native
\* object of a device that is gone (onGraphicsDeviceDestroy of every kind).
NothingOutlivesDevice ==
  (Quiet /\ d3d11_device # "ready" => NoStale(Kinds))
  /\ (told[1] = "create" => NoStale({"texture", "buffer", "pipeline"}))

\* Every resource that is alive is whole after a replacement of the device in
\* which nothing failed, whatever failed before: a failure is not for ever.  The
\* auto-sized target is made twice, by the swap chain's event and by its own.
ResourcesComeBack ==
  ~ failed /\ Quiet => \A k \in m_initialized : Complete(k)

\* And its depth buffer has the same size, that of the canvas, or it could not
\* be drawn to (ResizeRenderTarget, ResizeAutoSizeRenderTarget).
DepthFitsTarget ==
  ~ failed /\ Quiet /\ "target" \in m_initialized =>
    size_of["target"] = canvas /\ size_of["depth"] = canvas

\* The listeners of the device and what the resources hold, at every moment.
ResourcesInv ==
  /\ ResourcesTypeOK /\ DeviceListenersInv
  /\ NothingOutlivesDevice /\ ResourcesComeBack /\ DepthFitsTarget
=============================================================================

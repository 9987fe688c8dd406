--------------------------- MODULE VulkanBackend ---------------------------
(* The frames of the Vulkan backend: the host thread that waits for a      *)
(* fence, acquires an image, records, submits, presents and makes a new    *)
(* swapchain when the old one is out of date, with the queues of the       *)
(* device and the presentation engine, which run on their own.             *)
EXTENDS VulkanSetup

CONSTANTS Systems,      \* what the instance, the devices and the surface answer
          ImagesOf(_),  \* the numbers of images a driver makes when asked for some
          FrameWrap     \* the frame number is kept modulo this

\* A frame's slot is its number modulo the number of images: keeping the number
\* modulo a multiple of every number of images loses nothing.
ASSUME FrameWrapIsMultiple ==
  /\ FrameWrap \in Nat \ {0}
  /\ \A system \in Systems : \A surface \in system.surfaces \cup {system.surface} :
       \A n \in ImagesOf(SelectImageCount(surface)) : n \in Nat /\ n >= 2 /\ FrameWrap % n = 0

VARIABLES system,        \* the machine the engine runs on
          surface,       \* what the surface answers at the moment
          outOfDate,     \* the swapchain no longer fits the surface
          device, swapchain, generation, meshes,
          fences,        \* m_syncState.inFlightFences: which are signalled
          imageAvailable, renderFinished,   \* its semaphores
          commandBuffers,
          recorded,      \* the draws in the one that is recorded
          slot, image,   \* m_currentImageSlot and m_currentImageIndex
          step,          \* where the host thread is in a frame
          graphicsQueue, presentQueue, shown

hostVars == <<device, swapchain, generation, meshes, commandBuffers, recorded, slot, image, step>>
surfaceVars == <<system, surface, outOfDate>>
syncVars == <<fences, imageAvailable, renderFinished>>
queueVars == <<graphicsQueue, presentQueue, shown>>
gpuVars == <<hostVars, surfaceVars, syncVars, queueVars>>

Slots == 1..swapchain.images

\* Images that the presentation engine neither shows nor is about to show and the
\* host does not hold.
IsFree(i) ==
  /\ i \notin ToSet(shown)
  /\ \A k \in DOMAIN presentQueue : presentQueue[k].image # i
  /\ \A k \in DOMAIN graphicsQueue : graphicsQueue[k].image # i

-----------------------------------------------------------------------------
(* Making and destroying what belongs to a swapchain.                      *)

\* Mutant: fences are created unsignalled, as semaphores are.
UnsignalledSyncState(n) ==
  /\ fences' = [s \in 1..n |-> FALSE]
  /\ imageAvailable' = [s \in 1..n |-> "unsignalled"]
  /\ renderFinished' = [s \in 1..n |-> "unsignalled"]

\* Fences begin signalled: the first wait for a slot has nothing to wait for.
CreateFrameSyncState(n) ==
  /\ fences' = [s \in 1..n |-> TRUE]
  /\ imageAvailable' = [s \in 1..n |-> "unsignalled"]
  /\ renderFinished' = [s \in 1..n |-> "unsignalled"]

CreateCommandState(n) ==
  commandBuffers' = [s \in 1..n |-> "initial"]

CreateSwapchain(dev, requested, n) ==
  /\ swapchain' = SwapchainOf(surface, dev, requested, n)
  /\ n \in ImagesOf(SelectImageCount(surface))
  /\ generation' = 1 - generation
  /\ outOfDate' = FALSE
  /\ shown' = <<>>

-----------------------------------------------------------------------------
(* The constructor, createMesh and the destructor.                         *)

NoDevice == [graphicsFamily |-> 0, presentFamily |-> 0, queues |-> <<>>, extensions |-> {}]

BackendInit ==
  /\ system \in Systems
  /\ InstanceCanBeCreated(system, system.validation)
  /\ SelectPhysicalDevice(system.devices) # 0
  /\ surface = system.surface /\ outOfDate = FALSE
  /\ device = NoDevice /\ swapchain = [images |-> 0] /\ generation = 0 /\ meshes = 0
  /\ fences = <<>> /\ imageAvailable = <<>> /\ renderFinished = <<>>
  /\ commandBuffers = <<>> /\ recorded = <<>> /\ slot = 1 /\ image = 1 /\ step = "none"
  /\ graphicsQueue = <<>> /\ presentQueue = <<>> /\ shown = <<>>

ConstructBackend(framebufferSize) ==
  /\ step = "none" /\ step' = "idle"
  /\ device' = CreateDevice(system.devices[SelectPhysicalDevice(system.devices)])
  /\ \E n \in ImagesOf(SelectImageCount(surface)) :
       /\ CreateSwapchain(device', framebufferSize, n)
       /\ CreateFrameSyncState(n) /\ CreateCommandState(n)
  /\ UNCHANGED <<system, surface, meshes, recorded, slot, image, graphicsQueue, presentQueue>>

\* The handle of a mesh is its position; nothing takes one out again.
CreateMesh ==
  /\ meshes' = meshes + 1
  /\ UNCHANGED <<device, swapchain, generation, commandBuffers, recorded, slot, image, step,
                 surfaceVars, syncVars, queueVars>>

\* vkDeviceWaitIdle returns once nothing is left on the queues.
DeviceIsIdle == graphicsQueue = <<>> /\ presentQueue = <<>>

DestroyBackend ==
  /\ step = "idle" /\ DeviceIsIdle
  /\ step' = "gone" /\ device' = NoDevice /\ swapchain' = [images |-> 0]
  /\ meshes' = 0 /\ fences' = <<>> /\ imageAvailable' = <<>> /\ renderFinished' = <<>>
  /\ commandBuffers' = <<>> /\ shown' = <<>>
  /\ UNCHANGED <<generation, recorded, slot, image, surfaceVars, graphicsQueue, presentQueue>>

-----------------------------------------------------------------------------
(* beginFrame.                                                             *)

\* A swapchain without area is not drawn to; the frame is over at once.
BeginFrame(frameNumber) ==
  /\ step = "idle"
  /\ IF ~HasArea(swapchain.extent)
     THEN step' = "done" /\ UNCHANGED slot
     ELSE step' = "waiting" /\ slot' = (frameNumber % swapchain.images) + 1
  /\ UNCHANGED <<device, swapchain, generation, meshes, commandBuffers, recorded, image, surfaceVars,
                 syncVars, queueVars>>

\* Mutant: the frame does not wait for the fence of its slot.
SkipFence ==
  /\ step = "waiting" /\ step' = "acquiring"
  /\ UNCHANGED <<device, swapchain, generation, meshes, commandBuffers, recorded, slot, image,
                 surfaceVars, syncVars, queueVars>>

WaitForFence ==
  /\ step = "waiting" /\ fences[slot]
  /\ step' = "acquiring"
  /\ UNCHANGED <<device, swapchain, generation, meshes, commandBuffers, recorded, slot, image,
                 surfaceVars, syncVars, queueVars>>

\* The fence is reset only once there is an image, so that a frame which gives up
\* leaves it signalled.  Recording begins with an empty command buffer.
Acquire ==
  /\ step = "acquiring"
  /\ \E i \in Slots :
       /\ IsFree(i)
       /\ image' = i
       /\ imageAvailable' = [imageAvailable EXCEPT ![slot] = "pending"]
       /\ fences' = [fences EXCEPT ![slot] = FALSE]
       /\ commandBuffers' = [commandBuffers EXCEPT ![slot] = "recording"]
       /\ step' = "recording"
  /\ UNCHANGED <<device, swapchain, generation, meshes, recorded, slot, surfaceVars, renderFinished, queueVars>>

AcquireOutOfDate ==
  /\ step = "acquiring" /\ outOfDate
  /\ step' = "resizing"
  /\ UNCHANGED <<device, swapchain, generation, meshes, commandBuffers, recorded, slot, image,
                 surfaceVars, syncVars, queueVars>>

-----------------------------------------------------------------------------
(* drawMesh, endFrame and resize.                                          *)

\* The renderer draws what was collected, in order, and ends the frame.
DrawMeshes(drawables) ==
  /\ step = "recording" /\ step' = "submitting"
  /\ commandBuffers' = [commandBuffers EXCEPT ![slot] = "executable"]
  /\ recorded' = drawables
  /\ UNCHANGED <<device, swapchain, generation, meshes, slot, image, surfaceVars, syncVars, queueVars>>

\* The presentation engine holds on to this semaphore for as long as to the image.
SignalSemaphore == image

Submit ==
  /\ step = "submitting" /\ step' = "presenting"
  /\ commandBuffers' = [commandBuffers EXCEPT ![slot] = "pending"]
  /\ graphicsQueue' = Append(graphicsQueue,
       [slot |-> slot, image |-> image, signals |-> SignalSemaphore,
        draws |-> recorded, generation |-> generation])
  /\ recorded' = <<>>
  /\ UNCHANGED <<device, swapchain, generation, meshes, slot, image, surfaceVars, syncVars,
                 presentQueue, shown>>

\* The image is queued in any case; a suboptimal result counts as success.
Present ==
  /\ step = "presenting"
  /\ presentQueue' = Append(presentQueue,
       [image |-> image, waits |-> SignalSemaphore, generation |-> generation])
  /\ step' \in {"done"} \cup (IF outOfDate THEN {"resizing"} ELSE {})
  /\ UNCHANGED <<device, swapchain, generation, meshes, commandBuffers, recorded, slot, image,
                 surfaceVars, syncVars, graphicsQueue, shown>>

\* beginFrame and endFrame ask for the extent the swapchain has, which has area;
\* the surface has the last word.
Resize ==
  /\ step = "resizing" /\ step' = "done"
  /\ HasArea(swapchain.extent) /\ DeviceIsIdle
  /\ \E n \in ImagesOf(SelectImageCount(surface)) :
       /\ CreateSwapchain(device, swapchain.extent, n)
       /\ CreateFrameSyncState(n) /\ CreateCommandState(n)
  /\ UNCHANGED <<device, meshes, recorded, slot, image, system, surface, graphicsQueue, presentQueue>>

-----------------------------------------------------------------------------
(* The device and the presentation engine, and the window.                 *)

\* The presentation engine has let go of the acquired image.
ImageBecomesAvailable ==
  /\ \E s \in DOMAIN imageAvailable :
       /\ imageAvailable[s] = "pending"
       /\ imageAvailable' = [imageAvailable EXCEPT ![s] = "signalled"]
  /\ UNCHANGED <<hostVars, surfaceVars, fences, renderFinished, queueVars>>

Complete ==
  /\ graphicsQueue # <<>>
  /\ LET work == Head(graphicsQueue)
     IN /\ imageAvailable[work.slot] = "signalled"
        /\ imageAvailable' = [imageAvailable EXCEPT ![work.slot] = "unsignalled"]
        /\ renderFinished' = [renderFinished EXCEPT ![work.signals] = "signalled"]
        /\ fences' = [fences EXCEPT ![work.slot] = TRUE]
        /\ commandBuffers' = [commandBuffers EXCEPT ![work.slot] = "executable"]
  /\ graphicsQueue' = Tail(graphicsQueue)
  /\ UNCHANGED <<device, swapchain, generation, meshes, recorded, slot, image, step, surfaceVars,
                 presentQueue, shown>>

QueueForShow ==
  /\ presentQueue # <<>>
  /\ LET work == Head(presentQueue)
     IN /\ renderFinished[work.waits] = "signalled"
        /\ renderFinished' = [renderFinished EXCEPT ![work.waits] = "unsignalled"]
        /\ shown' = Append(shown, work.image)
  /\ presentQueue' = Tail(presentQueue)
  /\ UNCHANGED <<hostVars, surfaceVars, fences, imageAvailable, graphicsQueue>>

\* First in, first out: an image is let go when the next one takes its place.
ShowNext ==
  /\ Len(shown) > 1
  /\ shown' = Tail(shown)
  /\ UNCHANGED <<hostVars, surfaceVars, syncVars, graphicsQueue, presentQueue>>

\* The user resizes, minimises or restores the window.
SurfaceChanges ==
  /\ step \notin {"none", "gone"}
  /\ surface' \in system.surfaces \ {surface} /\ outOfDate' = TRUE
  /\ UNCHANGED <<hostVars, system, syncVars, queueVars>>

DeviceNext == ImageBecomesAvailable \/ Complete \/ QueueForShow \/ ShowNext

HostFrameNext ==
  \/ WaitForFence \/ Acquire \/ AcquireOutOfDate
  \/ Submit \/ Present \/ Resize

-----------------------------------------------------------------------------
(* What has to hold.                                                       *)

\* The slot whose resources the host reuses is not on the device any more, no
\* semaphore is signalled that somebody still waits for, and what is on the queues
\* belongs to the swapchain there is.
NothingInUseIsReused ==
  /\ step \in {"acquiring", "recording", "submitting"} =>
       \A k \in DOMAIN graphicsQueue : graphicsQueue[k].slot # slot
  /\ step = "acquiring" => imageAvailable[slot] = "unsignalled"
  /\ step \in {"recording", "submitting"} =>
       /\ renderFinished[SignalSemaphore] = "unsignalled"
       /\ \A k \in DOMAIN presentQueue : presentQueue[k].waits # SignalSemaphore
       /\ \A k \in DOMAIN graphicsQueue : graphicsQueue[k].signals # SignalSemaphore
  /\ \A k \in DOMAIN graphicsQueue :
       /\ graphicsQueue[k].generation = generation
       /\ commandBuffers[graphicsQueue[k].slot] = "pending"
       /\ ToSet(graphicsQueue[k].draws) \subseteq 1..meshes
  /\ \A k \in DOMAIN presentQueue : presentQueue[k].generation = generation

\* Both families may touch the images, or there is only one.
ImagesAreShared ==
  step \notin {"none", "gone"} =>
    /\ device.graphicsFamily # device.presentFamily => swapchain.sharing = "concurrent"
    /\ Cardinality(ToSet(device.queues)) = Len(device.queues)
=============================================================================

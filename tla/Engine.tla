------------------------------- MODULE Engine -------------------------------
(* The engine: its parts come up and go down in an order, and in between   *)
(* one thread runs the frames: events, the layers' updates, what they want *)
(* drawn, and the frame of the backend.                                    *)
EXTENDS VulkanBackend

VARIABLES alive,        \* the parts that are up
          phase,        \* where the engine's thread is
          frameNumber, drawables

engineVars == <<alive, phase, frameNumber, drawables>>
frameVars == <<gpuVars, engineVars>>

IsUp(part) == part \in alive

EngineInit ==
  /\ BackendInit
  /\ alive = {} /\ phase = "constructing" /\ frameNumber = 0 /\ drawables = <<>>

-----------------------------------------------------------------------------
(* The constructor.                                                        *)

ComeUp(parts) == alive' = alive \cup parts

\* The members, as the class declares them.
CreateWindow ==
  /\ phase = "constructing" /\ ~IsUp("window")
  /\ ComeUp({"window"})
  /\ UNCHANGED <<phase, frameNumber, drawables, gpuVars>>

\* createBackend: there is one backend, so asking for any asks for it.
CreateGpuAndRenderer ==
  /\ phase = "constructing" /\ IsUp("window") /\ ~IsUp("gpu")
  /\ ConstructBackend(system.framebuffer)
  /\ ComeUp({"gpu", "renderer"})
  /\ UNCHANGED <<phase, frameNumber, drawables>>

\* The body: capabilities, the record of the thread that is running, and the parts
\* that threads park on and that runs tasks.
StartServices ==
  /\ phase = "constructing" /\ IsUp("renderer")
  /\ ComeUp({"memory", "cpu", "time", "mainThread", "parkingLot", "taskSystem"})
  /\ phase' = "ready"
  /\ UNCHANGED <<frameNumber, drawables, gpuVars>>

-----------------------------------------------------------------------------
(* run.                                                                    *)

\* Application::onStart: the game layer, then the debug layer; each makes a mesh.
OnStart ==
  /\ \/ phase = "ready" /\ meshes = 0 /\ phase' = (IF system.debugLayer THEN "starting" ELSE "loop")
     \/ phase = "starting" /\ phase' = "loop"
  /\ CreateMesh
  /\ UNCHANGED <<alive, frameNumber, drawables>>

\* What the layers want drawn: the game's first, then the debug layer's over it.
CollectDrawables(game, debug) == game \o (IF system.debugLayer THEN debug ELSE <<>>)

\* The first half of a tick: the events, the layers' updates and the drawables:
\* each layer draws the mesh it has made.
UpdateFrame ==
  /\ phase = "loop"
  /\ drawables' = CollectDrawables(<<1>>, <<2>>)
  /\ phase' = "draw"
  /\ UNCHANGED <<alive, frameNumber, gpuVars>>

\* Renderer::drawFrame.
DrawFrameBegins ==
  /\ phase = "draw" /\ phase' = "drawing"
  /\ BeginFrame(frameNumber)
  /\ UNCHANGED <<alive, frameNumber, drawables>>

DrawFrameDraws ==
  /\ phase = "drawing" /\ DrawMeshes(drawables)
  /\ UNCHANGED engineVars

\* The frame's number goes up whether or not anything was drawn.  The slot and the
\* image of a frame that is over are not read again.
FrameEnds ==
  /\ phase = "drawing" /\ step = "done"
  /\ step' = "idle" /\ phase' = "loop"
  /\ frameNumber' = (frameNumber + 1) % FrameWrap
  /\ drawables' = <<>> /\ slot' = 1 /\ image' = 1
  /\ UNCHANGED <<alive, device, swapchain, generation, meshes, commandBuffers, recorded,
                 surfaceVars, syncVars, queueVars>>

\* The window is asked between frames; the layers then end.
LeaveLoop ==
  /\ phase = "loop" /\ phase' = "ended"
  /\ UNCHANGED <<alive, frameNumber, drawables, gpuVars>>

-----------------------------------------------------------------------------
(* The destructor: its body, then the members, the last one first.         *)

GoesDown(part) == alive' = alive \ {part}

ServicesDown == <<"taskSystem", "parkingLot", "mainThread", "cpu">>

StopServices ==
  /\ phase = "ended"
  /\ \E k \in DOMAIN ServicesDown :
       /\ IsUp(ServicesDown[k]) /\ \A j \in 1..(k - 1) : ~IsUp(ServicesDown[j])
       /\ GoesDown(ServicesDown[k])
  /\ UNCHANGED <<phase, frameNumber, drawables, gpuVars>>

DestroyRenderer ==
  /\ phase = "ended" /\ IsUp("renderer") /\ ~IsUp("cpu")
  /\ GoesDown("renderer")
  /\ UNCHANGED <<phase, frameNumber, drawables, gpuVars>>

DestroyGpu ==
  /\ phase = "ended" /\ IsUp("gpu") /\ ~IsUp("renderer")
  /\ DestroyBackend /\ GoesDown("gpu")
  /\ UNCHANGED <<phase, frameNumber, drawables>>

DestroyWindow ==
  /\ phase = "ended" /\ IsUp("window") /\ ~IsUp("gpu")
  /\ GoesDown("window") /\ phase' = "gone"
  /\ UNCHANGED <<frameNumber, drawables, gpuVars>>

-----------------------------------------------------------------------------

TickNext ==
  \/ UpdateFrame \/ DrawFrameBegins \/ DrawFrameDraws \/ FrameEnds
  \/ HostFrameNext /\ UNCHANGED engineVars

StartNext == CreateWindow \/ CreateGpuAndRenderer \/ StartServices \/ OnStart

EndNext == StopServices \/ DestroyRenderer \/ DestroyGpu \/ DestroyWindow

EngineNext ==
  \/ StartNext \/ TickNext \/ LeaveLoop \/ EndNext
  \/ DeviceNext /\ UNCHANGED engineVars
  \/ phase \in {"loop", "drawing"} /\ SurfaceChanges /\ UNCHANGED engineVars

\* The engine's thread runs, the device does the work it has, and the presentation
\* engine shows what is queued.
EngineFairness ==
  /\ WF_frameVars(TickNext) /\ WF_frameVars(EndNext)
  /\ WF_frameVars(ImageBecomesAvailable /\ UNCHANGED engineVars)
  /\ WF_frameVars(Complete /\ UNCHANGED engineVars)
  /\ WF_frameVars(QueueForShow /\ UNCHANGED engineVars)
  /\ WF_frameVars(ShowNext /\ UNCHANGED engineVars)

EngineSpec == EngineInit /\ [][EngineNext]_frameVars /\ EngineFairness

-----------------------------------------------------------------------------

\* What a part calls while it is up, or while it is taken down.
Needs == [window |-> {}, gpu |-> {"window"}, renderer |-> {"gpu"}, memory |-> {}, cpu |-> {},
          time |-> {}, mainThread |-> {"memory"}, parkingLot |-> {"mainThread"},
          taskSystem |-> {"memory", "cpu", "mainThread", "parkingLot"}]

\* No part outlives what it calls, and nothing on the device outlives the backend.
PartsOutliveTheirUsers ==
  /\ \A part \in alive : Needs[part] \subseteq alive
  /\ ~IsUp("gpu") => graphicsQueue = <<>> /\ presentQueue = <<>>

\* Nothing that the device, a queue or another part still uses is reused, destroyed or
\* taken down: the fence of a slot is waited for before its command buffer and
\* semaphores are used again (backend.cpp:188-245), the semaphore a frame signals is
\* its image's (backend.cpp:257-258), the device is idle before a swapchain or the
\* backend goes (backend.cpp:145, 377) and the engine's parts go down after their users.
ResourcesOutliveTheirUse ==
  NothingInUseIsReused /\ ImagesAreShared /\ PartsOutliveTheirUsers

\* A frame that has begun ends: no wait of it is for something nobody will do, whatever
\* the window does meanwhile; and once the loop is left the engine is destroyed.
FramesKeepEnding ==
  /\ (phase = "draw") ~> (phase = "loop")
  /\ (phase = "ended") ~> (phase = "gone")
=============================================================================

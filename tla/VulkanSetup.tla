---------------------------- MODULE VulkanSetup ----------------------------
(* What the Vulkan backend chooses when it is constructed and when it      *)
(* makes a swapchain: instance extensions, a device, queue families and    *)
(* the shape of the swapchain.  Names of extensions are values of a small  *)
(* set; a surface or device is the record of what a query of it returns.   *)
EXTENDS Integers, FiniteSets, SequencesExt

QueueKinds == {"graphics", "compute", "transfer", "present"}

\* The first position of a list for which a test holds, 0 when it holds for none.
FirstThat(list, Test(_)) == SelectInSeq(list, Test)

-----------------------------------------------------------------------------
(* The instance.                                                           *)

\* What an extension list grows by: nothing when the extension is missing.
OptionalExtension(available, name) == {name} \cap available

OptionalPortability(available) ==
  [extensions |-> OptionalExtension(available, "portability_enumeration"),
   enumeratePortability |-> "portability_enumeration" \in available]

\* A missing validation layer or debug extension is logged and left out.
OptionalValidation(available, layers) ==
  [extensions |-> OptionalExtension(available, "debug_utils"),
   layers |-> {"validation"} \cap layers]

\* Only where every extension the window system requires is available: the code
\* asserts it.
MakeInstanceSelection(system, validation) ==
  LET portability == OptionalPortability(system.extensions)
      debugging == OptionalValidation(system.extensions, system.layers)
  IN [extensions |-> system.required \cup portability.extensions
                       \cup (IF validation THEN debugging.extensions ELSE {}),
      layers |-> IF validation THEN debugging.layers ELSE {},
      enumeratePortability |-> portability.enumeratePortability]

\* The messenger needs the entry point of an extension that was only optional.
CreateDebugMessengerAsserts(selection) == "debug_utils" \in selection.extensions

InstanceCanBeCreated(system, validation) ==
  /\ system.required # {} /\ system.required \subseteq system.extensions
  /\ validation => CreateDebugMessengerAsserts(MakeInstanceSelection(system, validation))

-----------------------------------------------------------------------------
(* The device.                                                             *)

\* The first family of each kind that has a queue, 0 when there is none.
SelectQueueFamilies(families) ==
  [kind \in QueueKinds |->
     FirstThat(families, LAMBDA f : f.queueCount > 0 /\ kind \in f.supports)]

RequiredDeviceFeatures == {"synchronization2", "dynamicRendering"}
RequiredDeviceExtensions == {"swapchain"}

SupportsRequiredDeviceFeatures(candidate) == RequiredDeviceFeatures \subseteq candidate.features
SupportsRequiredDeviceExtensions(candidate) == RequiredDeviceExtensions \subseteq candidate.extensions

Suits(candidate) ==
  LET selection == SelectQueueFamilies(candidate.families)
  IN /\ SupportsRequiredDeviceFeatures(candidate) /\ SupportsRequiredDeviceExtensions(candidate)
     /\ selection["graphics"] # 0 /\ selection["present"] # 0

\* The first device that suits; the code asserts that there is one.
SelectPhysicalDevice(candidates) == FirstThat(candidates, Suits)

\* One queue of each of the families in use.
QueueCreateInfos(selection) ==
  IF selection["present"] # selection["graphics"]
  THEN <<selection["graphics"], selection["present"]>>
  ELSE <<selection["graphics"]>>

MakeDeviceSelection(candidate) ==
  RequiredDeviceExtensions \cup OptionalExtension(candidate.extensions, "portability_subset")

CreateDevice(candidate) ==
  LET selection == SelectQueueFamilies(candidate.families)
  IN [graphicsFamily |-> selection["graphics"], presentFamily |-> selection["present"],
      queues |-> QueueCreateInfos(selection), extensions |-> MakeDeviceSelection(candidate)]

-----------------------------------------------------------------------------
(* The swapchain.  An extent is a record of a width and a height; on some  *)
(* window systems the surface has none of its own and takes the one asked  *)
(* for, within its limits.                                                 *)

CONSTANT NoExtent

Clamp(value, low, high) == IF value < low THEN low ELSE IF value > high THEN high ELSE value

ClampExtent(extent, low, high) ==
  [width |-> Clamp(extent.width, low.width, high.width),
   height |-> Clamp(extent.height, low.height, high.height)]

SelectSwapExtent(surface, requested) ==
  IF surface.currentExtent # NoExtent
  THEN surface.currentExtent
  ELSE ClampExtent(requested, surface.minExtent, surface.maxExtent)

\* One more than the surface needs, so that a frame can be drawn while the others
\* are shown; a maximum of 0 means that there is none.
SelectImageCount(surface) ==
  IF surface.maxImages > 0 /\ surface.minImages + 1 > surface.maxImages
  THEN surface.maxImages
  ELSE surface.minImages + 1

PreferredFormat == "b8g8r8a8 srgb"

SelectSurfaceFormat(formats) ==
  IF PreferredFormat \in ToSet(formats) THEN PreferredFormat ELSE formats[1]

\* First in, first out: the one mode every surface has.
SelectPresentMode(modes) == "fifo"

\* Images that two families use are shared between them.
SharingMode(device) ==
  IF device.graphicsFamily = device.presentFamily THEN "exclusive" ELSE "concurrent"

SwapchainOf(surface, device, requested, images) ==
  [extent |-> SelectSwapExtent(surface, requested), minImages |-> SelectImageCount(surface),
   format |-> SelectSurfaceFormat(surface.formats), mode |-> SelectPresentMode(surface.modes),
   sharing |-> SharingMode(device), images |-> images]

HasArea(extent) == extent.width > 0 /\ extent.height > 0
=============================================================================

SPECIFICATION AllSpec
CONSTANTS
  Configurations <- MCConfigurations
  Refusals = {"texture"}
  Switches = {"root"}
  Length = 2
  Warmup = 1
  WarmFrom = 3
  Periodic = {1, 2, 5}
  TraceStart = 2
  TraceEnd = 4
  TraceRows = 2
  RecordsMax = 2
  MaxDraws = 1
  MaxCopies = 1
  Aspects = {w32}
  Base = b
  Capacity = 5
  MaxInFlight = 2
  MaxChanges = 2
  x = x
  u = u
  w = w
  Addresses = {x}
  Ucodes = {u, w}
  ShaderTextures <- MCTextures
  Samplers <- MCSamplers
  Reads <- MCReads
  Fetches <- MCFetches
  Captures <- MCCaptures
  Objects = {o1, o2}
  Nothing = nothing
  Overrides = {"off", "four"}
  MaxShaderWrites = 2
  MaxEpochs = 1
  Textures = {s, t}
  MaxWrites = 3
  SubmissionCapacity = 2
  GroupsPerFrame = 1
  MaxFrames = 3
  MaxSubmissions = 4
  MaxScopes = 2
  MaxOperations = 1
  MaxFailures = 1
CHECK_DEADLOCK FALSE
INVARIANTS
  FramesInv
  IntervalIsPure
  MeasuresAreOfTheirFrames
  PresentedAsRendered
  ScissorFollowsView
  BindingsAreGuests
  TextureIsFresh

CONSTANTS
  p1 = p1
  c1 = c1
  v1 = v1
  v2 = v2
  NoElement = NoElement
  Signalers <- OneProducer
  Waiters <- OneConsumer
  Elements <- TwoElements
  MaxCount = 3
SPECIFICATION QueueFairSpec
INVARIANT QueueTypeOK
INVARIANT PermitMeansElement
PROPERTY ElementEndsWait
INVARIANT PermitsKept
PROPERTY ImplementsCountingSemaphore

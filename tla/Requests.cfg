SPECIFICATION FairSpec
CONSTANTS
  Nil = Nil
  Credentials <- MCCredentials
  AuthSecrets <- MCAuthSecrets
  Passwords <- MCPasswords
  Asks <- MCAsks
  Trailers <- MCTrailers
  NonceLifetime = 1
  Lifetime = 2
  MinLifetime = 1
  Txns = {1, 2, 3, 4}
  MaxTime = 1
  MaxFaults = 1
INVARIANT
  OutlivesCredentials
PROPERTIES
  FreshEffect
  OwnerOnly
  FaithfulEffect
  RetransmissionSafe
  Resolved

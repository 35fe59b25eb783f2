SPECIFICATION FairSpec
CONSTANTS
  Configurations = {{"password"}, {"passwordFile"}, {"ociUsername", "ociPassword"}, {"azurePassword", "password"}, {"hashicorp"}, {"hashicorp", "dynamic"}, {"hashicorp", "passwordFile"}}
  Sizes = {0, 1, 3}
  WarmupCap = 2
  MaxSecret = 2
  MaxRestarts = 1
INVARIANTS TypeOK CredentialsPaired ExternalAuthIntended UpWasReached
PROPERTIES ComesUp

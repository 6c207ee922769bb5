\* Two requests at once, three users and the seed of a new container.
CONSTANTS
  r1 = r1  r2 = r2  admin = admin  super = super  other = other
  People = {admin, super, other}
  Requests = {r1, r2}
  AdminEmail = admin
  SuperEmail = super
  MaxTrail = 2
SPECIFICATION Spec
SYMMETRY Symmetry
PROPERTIES TopOnlyByDeploy SeedOnlyRaises ActorsOutrank TrailTells
